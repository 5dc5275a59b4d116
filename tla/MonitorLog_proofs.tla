------------------------- MODULE MonitorLog_proofs -------------------------
(***************************************************************************)
(* The log files of the monitors, for any number of them, file sizes,      *)
(* times and power failures: the indexes and what is marked as sent, the   *)
(* entries, the names, the types, the times the server gets, and their     *)
(* order.  Indexes, entries and order rest on the card taking what it is   *)
(* given; entries and order on files that last for more than an hour.      *)
(***************************************************************************)
EXTENDS MonitorLog, WellFoundedInduction, TLAPS

\* A full file is not left for one that has the name of a file of which an entry
\* is being uploaded, which would be truncated.
RollsAway == pc = "roll" /\ mon \in sending => writing[mon] # reading[mon]

-----------------------------------------------------------------------------
\* The inductive invariant.

File  == [ok : BOOLEAN, synched : BOOLEAN, start : Int,
          last_idx : Nat, count : Nat, lines : Seq(Int)]
Entry == [mon : Mon, sample : Int, ts : Int]

LogTypes ==
    /\ fs = [m \in Mon |-> fs[m]]
    /\ \A m \in Mon : \A n \in DOMAIN fs[m] : fs[m][n] \in File
    /\ metafile \in [Mon -> Int] /\ writing \in [Mon -> Int] /\ reading \in [Mon -> Int]
    /\ newname \in Int /\ clock \in Int /\ now \in Int
    /\ batch \subseteq Entry
    /\ sending \subseteq Mon
    /\ mon \in 0 .. num_monitores + 1

Booting     == {"boot", "boot header", "meta", "boot open", "boot write", "booted"}
InReader    == {"read", "switch open", "switch write", "switched"}
FileWritten == {"append", "count", "sync", "rename", "roll header", "roll stamp",
                "boot header"}

\* Where the task is says what it has at hand.
Place ==
    /\ pc \notin {"recreate", "new header"}
    /\ pc \notin {"read", "confirm", "send", "idle"} => mon \in Mon
    /\ pc \in FileWritten => writing[mon] \in DOMAIN fs[mon]
    /\ pc = "count" =>
         fs[mon][writing[mon]].count < Len(fs[mon][writing[mon]].lines)
    /\ pc = "roll header" /\ mon \in sending => writing[mon] # reading[mon]

\* What there is of an upload.
Uploading ==
    /\ pc = "confirm" => batch = {}
    /\ pc # "confirm" /\ batch = {} => sending = {}
    /\ pc \in Booting => sending = {} /\ batch = {}
    /\ pc \in InReader => \A m \in sending : m < mon
    /\ pc \in InReader /\ pc # "read" => mon \notin sending

\* The entry of m that is to be confirmed is the next one of the file read: it
\* is in the batch, or the server has it.
NextToSend(m) ==
    /\ reading[m] \in DOMAIN fs[m]
    /\ LET h == fs[m][reading[m]] IN
       /\ h.ok /\ h.last_idx < h.count
       /\ \/ pc = "confirm" /\ h.lines[h.last_idx + 1] \in AtServer(m)
          \/ pc # "confirm" /\ \E e \in batch : /\ e.mon = m
                                                /\ e.sample = h.lines[h.last_idx + 1]

LogInv ==
    /\ LogTypes /\ Place /\ Uploading
    /\ \A m \in sending : NextToSend(m)
    /\ IndexesInFile /\ ConfirmedWasReceived

\* The part of it that is about the files.
FilesOK == IndexesInFile /\ ConfirmedWasReceived

-----------------------------------------------------------------------------
\* What writing a file, or none, leaves true.

\* Store replaces or makes one file of the monitor.
LEMMA StoreWrites ==
    ASSUME LogTypes, mon \in Mon, NEW n, NEW f \in File, Store(n, f)
    PROVE  /\ fs' = [m \in Mon |-> fs'[m]]
           /\ \A m \in Mon : \A x \in DOMAIN fs'[m] : fs'[m][x] \in File
           /\ DOMAIN fs'[mon] = DOMAIN fs[mon] \cup {n}
           /\ fs'[mon][n] = f
           /\ \A x \in DOMAIN fs[mon] \ {n} : fs'[mon][x] = fs[mon][x]
           /\ \A m \in Mon \ {mon} : fs'[m] = fs[m]
<1>1. fs' = [fs EXCEPT ![mon] = With(fs[mon], n, f)]
  BY DEF Store
<1>2. /\ fs' = [m \in Mon |-> fs'[m]]
      /\ fs'[mon] = With(fs[mon], n, f)
      /\ \A m \in Mon \ {mon} : fs'[m] = fs[m]
  BY <1>1 DEF LogTypes
<1>3. /\ DOMAIN fs'[mon] = DOMAIN fs[mon] \cup {n}
      /\ fs'[mon][n] = f
      /\ \A x \in DOMAIN fs[mon] \ {n} : fs'[mon][x] = fs[mon][x]
  BY <1>2 DEF With
<1>4. \A m \in Mon : \A x \in DOMAIN fs'[m] : fs'[m][x] \in File
  BY <1>2, <1>3 DEF LogTypes
<1> QED  BY <1>2, <1>3, <1>4

\* File f is file g with entries added or counted, or with another date.
Grown(f, g) ==
    /\ f.ok = g.ok /\ f.last_idx = g.last_idx
    /\ g.count <= f.count /\ f.count <= Len(f.lines)
    /\ Len(g.lines) <= Len(f.lines)
    /\ \A i \in 1 .. Len(g.lines) : f.lines[i] = g.lines[i]

\* The file being written may grow; one the reader is not in may start anew.
LEMMA WriteFile ==
    ASSUME LogInv, mon \in Mon, NEW f \in File, Store(writing[mon], f),
           UNCHANGED <<server, reading, batch, sending>>,
           pc # "confirm", pc' # "confirm",
           \/ writing[mon] \in DOMAIN fs[mon] /\ Grown(f, fs[mon][writing[mon]])
           \/ /\ f.last_idx = 0 /\ f.count <= Len(f.lines)
              /\ mon \in sending => writing[mon] # reading[mon]
    PROVE  FilesOK' /\ \A m \in sending' : NextToSend(m)'
<1> DEFINE n == writing[mon]
           g == fs[mon][n]
<1>1. /\ DOMAIN fs'[mon] = DOMAIN fs[mon] \cup {n}
      /\ fs'[mon][n] = f
      /\ \A x \in DOMAIN fs[mon] \ {n} : fs'[mon][x] = fs[mon][x]
      /\ \A m \in Mon \ {mon} : fs'[m] = fs[m]
  BY StoreWrites DEF LogInv
<1>2. \A m : AtServer(m)' = AtServer(m)
  BY DEF AtServer
<1>3. /\ f.last_idx \in Nat /\ f.count \in Nat /\ Len(f.lines) \in Nat
      /\ n \in DOMAIN fs[mon] =>
           g.last_idx \in Nat /\ g.count \in Nat /\ Len(g.lines) \in Nat
  BY SMTT(30) DEF LogInv, LogTypes, File
<1>4. /\ f.last_idx <= f.count /\ f.count <= Len(f.lines)
      /\ \A i \in 1 .. f.last_idx : i <= Len(f.lines) /\ f.lines[i] \in AtServer(mon)
  <2>1. CASE n \in DOMAIN fs[mon] /\ Grown(f, g)
    <3>1. /\ g.last_idx <= g.count /\ g.count <= Len(g.lines)
          /\ \A i \in 1 .. g.last_idx : i <= Len(g.lines) /\ g.lines[i] \in AtServer(mon)
      BY <2>1 DEF LogInv, IndexesInFile, ConfirmedWasReceived, Files
    <3>2. /\ f.last_idx = g.last_idx /\ g.count <= f.count /\ f.count <= Len(f.lines)
          /\ Len(g.lines) <= Len(f.lines)
          /\ \A i \in 1 .. Len(g.lines) : f.lines[i] = g.lines[i]
      BY <2>1 DEF Grown
    <3>3. /\ g.last_idx \in Nat /\ g.count \in Nat /\ Len(g.lines) \in Nat
      BY <1>3, <2>1
    <3> HIDE DEF g
    <3>4. f.last_idx <= f.count
      BY <1>3, <3>1, <3>2, <3>3
    <3>5. ASSUME NEW i \in 1 .. f.last_idx
          PROVE  i <= Len(f.lines) /\ f.lines[i] \in AtServer(mon)
      <4>1. i \in 1 .. g.last_idx /\ i \in 1 .. Len(g.lines) /\ i <= Len(f.lines)
        BY <1>3, <3>1, <3>2, <3>3
      <4> QED  BY <3>1, <3>2, <4>1
    <3> QED  BY <3>2, <3>4, <3>5
  <2>2. CASE f.last_idx = 0 /\ f.count <= Len(f.lines)
    BY <2>2, <1>3
  <2> QED  BY <2>1, <2>2
<1>5. IndexesInFile'
  BY <1>1, <1>4 DEF LogInv, IndexesInFile, Files
<1>6. ConfirmedWasReceived'
  BY <1>1, <1>2, <1>4 DEF LogInv, ConfirmedWasReceived, Files
<1>7. ASSUME NEW m \in sending' PROVE NextToSend(m)'
  <2>1. m \in sending /\ m \in Mon /\ NextToSend(m) /\ reading'[m] = reading[m]
    BY DEF LogInv, LogTypes
  <2>2. CASE m = mon /\ reading[mon] = n
    <3>1. n \in DOMAIN fs[mon] /\ Grown(f, g)
      BY <2>1, <2>2 DEF NextToSend
    <3>2. /\ g.ok /\ g.last_idx < g.count /\ g.count <= Len(g.lines)
          /\ \E e \in batch : e.mon = m /\ e.sample = g.lines[g.last_idx + 1]
      <4>1. g.count <= Len(g.lines)
        BY <2>1, <2>2, <3>1 DEF LogInv, IndexesInFile, Files
      <4> QED  BY <2>1, <2>2, <4>1 DEF NextToSend
    <3>3. f.ok
      BY <3>1, <3>2 DEF Grown
    <3>4. g.last_idx + 1 \in 1 .. Len(g.lines)
      <4>1. /\ g.last_idx \in Nat /\ g.count \in Nat /\ Len(g.lines) \in Nat
            /\ g.last_idx < g.count /\ g.count <= Len(g.lines)
        BY <1>3, <3>1, <3>2
      <4> HIDE DEF g
      <4> QED  BY <4>1
    <3>5. f.last_idx = g.last_idx /\ f.last_idx < f.count
      <4>1. /\ g.last_idx \in Nat /\ g.count \in Nat /\ f.count \in Nat
            /\ g.last_idx < g.count
            /\ g.count <= f.count /\ f.last_idx = g.last_idx
        BY <1>3, <3>1, <3>2, Zenon DEF Grown
      <4> HIDE DEF g
      <4> QED  BY <4>1
    <3>6. f.lines[f.last_idx + 1] = g.lines[g.last_idx + 1]
      BY <3>1, <3>4, <3>5 DEF Grown
    <3>7. reading'[m] = n /\ n \in DOMAIN fs'[m] /\ fs'[m][n] = f
      BY <1>1, <2>1, <2>2, <3>1
    <3>8. \E e \in batch' : e.mon = m /\ e.sample = f.lines[f.last_idx + 1]
      BY <3>2, <3>6
    <3>9. /\ fs'[m][reading'[m]].ok
          /\ fs'[m][reading'[m]].last_idx < fs'[m][reading'[m]].count
          /\ \E e \in batch' : /\ e.mon = m
                               /\ e.sample = fs'[m][reading'[m]].lines[fs'[m][reading'[m]].last_idx + 1]
      BY <3>3, <3>5, <3>7, <3>8
    <3> QED  BY <3>7, <3>9 DEF NextToSend
  <2>3. CASE m # mon \/ reading[mon] # n
    <3>1. reading'[m] \in DOMAIN fs'[m] /\ fs'[m][reading'[m]] = fs[m][reading[m]]
      BY <1>1, <2>1, <2>3 DEF NextToSend
    <3> QED  BY <2>1, <3>1 DEF NextToSend
  <2> QED  BY <2>2, <2>3
<1> QED  BY <1>5, <1>6, <1>7 DEF FilesOK

\* Steps that leave the card and the upload alone.
LEMMA Kept ==
    ASSUME LogInv, UNCHANGED <<fs, server, batch, sending>>,
           \A m \in sending : reading'[m] = reading[m],
           pc # "confirm", pc' # "confirm"
    PROVE  FilesOK' /\ \A m \in sending' : NextToSend(m)'
<1>1. \A m : AtServer(m)' = AtServer(m)
  BY DEF AtServer
<1>2. FilesOK'
  BY <1>1 DEF LogInv, FilesOK, IndexesInFile, ConfirmedWasReceived, Files
<1>3. ASSUME NEW m \in sending' PROVE NextToSend(m)'
  BY DEF LogInv, NextToSend
<1> QED  BY <1>2, <1>3

\* The reserved names are numbers.
LEMMA Names == NoName \in Int /\ LOG_FILENAME_START \in Int
BY SMT DEF NoName, LOG_FILENAME_START

\* The parts of the invariant, put together again.
LEMMA Together ==
    ASSUME LogTypes', Place', Uploading', FilesOK', \A m \in sending' : NextToSend(m)'
    PROVE  LogInv'
BY DEF LogInv, FilesOK

\* Opening and writing metafile.txt.
LEMMA MetaStep ==
    ASSUME LogInv, NEW from, NEW to, OpenMeta(from, to) \/ WriteMeta(from, to),
           \/ from = "boot open" /\ to = "boot write"
           \/ from = "boot write" /\ to = "booted"
           \/ from = "sync open" /\ to = "sync write"
           \/ from = "sync write" /\ to = "idle"
           \/ from = "switch open" /\ to = "switch write"
           \/ from = "switch write" /\ to = "switched"
    PROVE  LogInv'
<1>1. /\ pc = from /\ pc' = to /\ UNCHANGED <<mon, fs, names, simon, upload, newname, env>>
      /\ metafile' \in [Mon -> Int]
  BY Names DEF OpenMeta, WriteMeta, Goto, LogInv, LogTypes
<1>2. LogTypes'
  BY <1>1 DEF LogInv, LogTypes, names, simon, upload, env
<1>3. Place'
  BY <1>1 DEF LogInv, Place, FileWritten, names, upload
<1>4. Uploading'
  BY <1>1 DEF LogInv, Uploading, Booting, InReader, upload
<1>5. FilesOK' /\ \A m \in sending' : NextToSend(m)'
  BY <1>1, Kept DEF names, upload
<1> QED  BY <1>2, <1>3, <1>4, <1>5, Together

-----------------------------------------------------------------------------
\* Starting.

\* The log file a start writes in.
LEMMA BootLogStep ==
    ASSUME LogInv, ~ CardErrors, BootLog
    PROVE  LogInv'
<1>1. /\ pc = "boot" /\ mon \in Mon /\ mon' = mon
      /\ pc' \in {"meta", "boot header"}
      /\ writing' = [writing EXCEPT ![mon] = LOG_FILENAME_START]
      /\ UNCHANGED <<metafile, reading, simon, upload, newname, env>>
      /\ sending = {} /\ batch = {}
  BY DEF BootLog, Goto, LogInv, Uploading, Booting
<1>2. writing'[mon] = LOG_FILENAME_START /\ writing' \in [Mon -> Int]
  BY <1>1, Names DEF LogInv, LogTypes
<1>3. Empty \in File
  BY DEF Empty, File
<1>4. \A m : AtServer(m)' = AtServer(m)
  BY <1>1 DEF AtServer, upload
<1>5. CASE UNCHANGED fs /\ Exists(LOG_FILENAME_START)
  <2>1. LogTypes' /\ Place'
    BY <1>1, <1>2, <1>5 DEF LogInv, LogTypes, Place, FileWritten, simon, upload, env, Exists
  <2>2. FilesOK'
    BY <1>4, <1>5 DEF LogInv, FilesOK, IndexesInFile, ConfirmedWasReceived, Files
  <2> QED  BY <1>1, <2>1, <2>2, Together DEF Uploading, Booting, InReader, upload
<1>6. CASE Store(LOG_FILENAME_START, Empty)
  <2>1. /\ fs' = [m \in Mon |-> fs'[m]]
        /\ \A m \in Mon : \A x \in DOMAIN fs'[m] : fs'[m][x] \in File
        /\ DOMAIN fs'[mon] = DOMAIN fs[mon] \cup {LOG_FILENAME_START}
        /\ fs'[mon][LOG_FILENAME_START] = Empty
        /\ \A x \in DOMAIN fs[mon] \ {LOG_FILENAME_START} : fs'[mon][x] = fs[mon][x]
        /\ \A m \in Mon \ {mon} : fs'[m] = fs[m]
    BY <1>1, <1>3, <1>6, StoreWrites DEF LogInv
  <2>2. LogTypes' /\ Place'
    BY <1>1, <1>2, <2>1 DEF LogInv, LogTypes, Place, FileWritten, simon, upload, env
  <2>3. FilesOK'
    BY <1>4, <2>1 DEF LogInv, FilesOK, IndexesInFile, ConfirmedWasReceived, Files, Empty
  <2> QED  BY <1>1, <2>2, <2>3, Together DEF Uploading, Booting, InReader, upload
<1> QED  BY <1>5, <1>6 DEF BootLog

\* The file a start reads in.
LEMMA BootReadStep ==
    ASSUME LogInv, BootRead
    PROVE  LogInv'
<1>1. /\ pc = "meta" /\ pc' \in {"booted", "boot open"} /\ mon' = mon
      /\ UNCHANGED <<disk, writing, simon, upload, newname, env>>
      /\ reading' \in [Mon -> Int]
      /\ sending = {} /\ batch = {}
  BY DEF BootRead, Goto, LogInv, Uploading, Booting, LogTypes
<1>2. LogTypes'
  BY <1>1 DEF LogInv, LogTypes, disk, simon, upload, env
<1>3. Place' /\ Uploading'
  BY <1>1 DEF LogInv, Place, FileWritten, disk, upload, Uploading, Booting, InReader
<1>4. FilesOK' /\ \A m \in sending' : NextToSend(m)'
  BY <1>1, Kept DEF disk, upload
<1> QED  BY <1>2, <1>3, <1>4, Together

\* On to the next monitor, or to the main loop.
LEMMA BootNextStep ==
    ASSUME LogInv, BootNext
    PROVE  LogInv'
<1>1. /\ pc = "booted" /\ pc' \in {"boot", "idle"} /\ mon \in Mon
      /\ mon' \in Mon \cup {0} /\ (pc' = "boot" => mon' \in Mon)
      /\ UNCHANGED <<disk, names, simon, upload, newname, now, crashes>>
      /\ sending = {} /\ batch = {}
  BY MonitorAssumption DEF BootNext, LogInv, Uploading, Booting, Place, Mon
<1>2. mon' \in 0 .. num_monitores + 1
  BY <1>1, MonitorAssumption DEF Mon
<1>3. LogTypes'
  BY <1>1, <1>2 DEF LogInv, LogTypes, disk, names, simon, upload
<1>4. Place' /\ Uploading'
  BY <1>1 DEF Place, FileWritten, upload, Uploading, Booting, InReader
<1>5. FilesOK' /\ \A m \in sending' : NextToSend(m)'
  BY <1>1, Kept DEF disk, names, upload
<1> QED  BY <1>3, <1>4, <1>5, Together

\* A fresh header over given lines.
LEMMA HeaderOf ==
    ASSUME NEW l \in Seq(Int)
    PROVE  LET f == [Empty EXCEPT !.ok = TRUE, !.lines = l] IN
           f \in File /\ f.last_idx = 0 /\ f.count <= Len(f.lines)
<1> DEFINE e == Empty
           g == [e EXCEPT !.ok = TRUE]
           f == [g EXCEPT !.lines = l]
<1>1. e \in File /\ e.last_idx = 0 /\ e.count = 0
  BY DEF Empty, File
<1> HIDE DEF e
<1>2. g \in File /\ g.last_idx = 0 /\ g.count = 0
  BY <1>1 DEF File
<1> HIDE DEF g
<1>3. f \in File /\ f.last_idx = 0 /\ f.count = 0 /\ f.lines = l
  BY <1>2 DEF File
<1> HIDE DEF f
<1>4. f = [Empty EXCEPT !.ok = TRUE, !.lines = l]
  BY Zenon DEF e, f, g
<1>5. f.count <= Len(f.lines)
  BY <1>3, Len(l) \in Nat
<1> QED  BY <1>3, <1>4, <1>5

\* A new header on a file of which only the lines are kept.
LEMMA NewHeaderStep ==
    ASSUME LogInv, NEW from, NEW to, NewHeader(from, to),
           \/ from = "boot header" /\ to = "meta"
           \/ from = "roll header" /\ to = "roll stamp"
           \/ from = "new header" /\ to = "append"
    PROVE  LogInv'
<1> DEFINE f == [Empty EXCEPT !.ok = TRUE, !.lines = Current.lines]
<1>1. /\ pc = from /\ pc' = to /\ mon' = mon /\ Store(writing[mon], f)
      /\ UNCHANGED <<metafile, names, simon, upload, newname, env>>
  BY DEF NewHeader, Goto
<1>2. /\ from # "new header" /\ mon \in Mon
      /\ writing[mon] \in DOMAIN fs[mon]
      /\ from = "boot header" => sending = {} /\ batch = {}
      /\ mon \in sending => writing[mon] # reading[mon]
  BY <1>1 DEF LogInv, Place, FileWritten, Uploading, Booting
<1>3. f \in File /\ f.last_idx = 0 /\ f.count <= Len(f.lines)
  <2>1. Current.lines \in Seq(Int)
    BY <1>2 DEF LogInv, LogTypes, Current, File
  <2> QED  BY <2>1, HeaderOf
<1> HIDE DEF f
<1>4. FilesOK' /\ \A m \in sending' : NextToSend(m)'
  BY <1>1, <1>2, <1>3, WriteFile DEF names, upload
<1>5. LogTypes'
  BY <1>1, <1>2, <1>3, StoreWrites DEF LogInv, LogTypes, names, simon, upload, env
<1>6. writing[mon] \in DOMAIN fs'[mon]
  BY <1>1, <1>2, <1>3, StoreWrites DEF LogInv
<1>7. Place' /\ Uploading'
  BY <1>1, <1>2, <1>6 DEF LogInv, Place, FileWritten, names, upload, Uploading, Booting, InReader
<1> QED  BY <1>4, <1>5, <1>7, Together

\* Monitors are numbers.
LEMMA MonInt == \A m \in Mon : m \in Int
BY DEF Mon

\* The hour of a time is a number.
LEMMA HourIsInt == ASSUME NEW t \in Int PROVE Hour(t) \in Int
BY MonitorAssumption DEF Hour

\* The file being written, with another date.
LEMMA Stamped ==
    ASSUME LogInv, mon \in Mon, writing[mon] \in DOMAIN fs[mon], NEW t \in Int
    PROVE  LET f == [Current EXCEPT !.start = t, !.synched = TRUE] IN
           f \in File /\ Grown(f, fs[mon][writing[mon]])
<1> DEFINE e == Current
           g == [e EXCEPT !.start = t]
           f == [g EXCEPT !.synched = TRUE]
<1>1. e \in File /\ e.count <= Len(e.lines) /\ e = fs[mon][writing[mon]]
  BY DEF LogInv, LogTypes, IndexesInFile, Files, Current
<1> HIDE DEF e
<1>2. g \in File /\ \A x \in {"ok", "last_idx", "count", "lines"} : g[x] = e[x]
  BY <1>1 DEF File
<1> HIDE DEF g
<1>3. f \in File /\ \A x \in {"ok", "last_idx", "count", "lines"} : f[x] = g[x]
  BY <1>2 DEF File
<1> HIDE DEF f
<1>4. f.ok = e.ok /\ f.last_idx = e.last_idx /\ f.count = e.count /\ f.lines = e.lines
  BY <1>2, <1>3
<1>5. e.count \in Nat /\ Len(e.lines) \in Nat
  BY <1>1 DEF File
<1>6. Grown(f, e)
  BY <1>1, <1>4, <1>5 DEF Grown
<1>7. f = [Current EXCEPT !.start = t, !.synched = TRUE]
  BY Zenon DEF e, f, g
<1> QED  BY <1>1, <1>3, <1>6, <1>7

\* A file that was just created.
LEMMA EmptyFile == Empty \in File /\ Empty.last_idx = 0 /\ Empty.count <= Len(Empty.lines)
<1>1. Empty \in File /\ Empty.last_idx = 0 /\ Empty.count = 0
  BY DEF Empty, File
<1>2. Len(Empty.lines) \in Nat
  BY <1>1 DEF File
<1> QED  BY <1>1, <1>2

-----------------------------------------------------------------------------
\* The writer.

\* A tick changes the two times only.
LEMMA TickStep ==
    ASSUME LogInv, Tick
    PROVE  LogInv'
<1>1. /\ pc = "idle" /\ UNCHANGED <<pc, disk, names, upload, newname>>
      /\ mon' = 0 /\ now' \in Int /\ clock' \in Int
  BY DEF Tick, LogInv, LogTypes
<1>2. LogTypes'
  BY <1>1, MonitorAssumption DEF LogInv, LogTypes, disk, names, upload
<1>3. Place'
  BY <1>1 DEF LogInv, Place, FileWritten, disk, names, upload
<1>4. Uploading'
  BY <1>1 DEF LogInv, Uploading, Booting, InReader, upload
<1>5. FilesOK' /\ \A m \in sending' : NextToSend(m)'
  BY <1>1, Kept DEF disk, names, upload
<1> QED  BY <1>2, <1>3, <1>4, <1>5, Together

\* An entry that is left out changes the write timer only.
LEMMA SampleLostStep ==
    ASSUME LogInv, NEW m \in Mon, SampleLost(m)
    PROVE  LogInv'
<1>1. /\ pc = "idle" /\ mon' = m
      /\ UNCHANGED <<disk, names, simon, upload, pc, newname, now, crashes>>
  BY DEF SampleLost
<1>2. m \in 0 .. num_monitores + 1
  BY MonitorAssumption DEF Mon
<1>6. LogTypes'
  BY <1>1, <1>2 DEF LogInv, LogTypes, disk, names, simon, upload
<1>3. Place'
  BY <1>1 DEF LogInv, Place, FileWritten, disk, names, upload
<1>4. Uploading'
  BY <1>1 DEF LogInv, Uploading, Booting, InReader, upload
<1>5. FilesOK' /\ \A k \in sending' : NextToSend(k)'
  BY <1>1, Kept DEF disk, names, upload
<1> QED  BY <1>3, <1>4, <1>5, <1>6, Together

\* A writer that is due finds its file.
LEMMA SampleStep ==
    ASSUME LogInv, ~ CardErrors, NEW m \in Mon, Sample(m)
    PROVE  LogInv'
<1>1. /\ pc = "idle" /\ pc' = "append" /\ mon' = m
      /\ writing[m] \in DOMAIN fs[m]
      /\ UNCHANGED <<disk, names, simon, upload, newname, now, crashes>>
  BY DEF Sample, monitor_getheader
<1>2. m \in 0 .. num_monitores + 1
  BY MonitorAssumption DEF Mon
<1>3. LogTypes'
  BY <1>1, <1>2 DEF LogInv, LogTypes, disk, names, simon, upload
<1>4. Place' /\ Uploading'
  BY <1>1 DEF LogInv, Place, FileWritten, disk, names, upload, Uploading, Booting, InReader
<1>5. FilesOK' /\ \A k \in sending' : NextToSend(k)'
  BY <1>1, Kept DEF disk, names, upload
<1> QED  BY <1>3, <1>4, <1>5, Together

\* One line more, not counted yet.
LEMMA AppendLineStep ==
    ASSUME LogInv, AppendLine
    PROVE  LogInv'
<1> DEFINE n == writing[mon]
           g == fs[mon][n]
           f == [g EXCEPT !.lines = Append(g.lines, now)]
<1>1. /\ pc = "append" /\ pc' = "count" /\ mon' = mon /\ Store(n, f)
      /\ UNCHANGED <<metafile, names, simon, upload, newname, env>>
  BY DEF AppendLine, Goto, Current
<1>2. mon \in Mon /\ n \in DOMAIN fs[mon]
  BY <1>1 DEF LogInv, Place, FileWritten
<1>3. g \in File /\ g.count <= Len(g.lines) /\ now \in Int
  BY <1>2 DEF LogInv, LogTypes, IndexesInFile, Files
<1>4. /\ f \in File /\ f.ok = g.ok /\ f.last_idx = g.last_idx /\ f.count = g.count
      /\ f.lines = Append(g.lines, now)
  <2> HIDE DEF g
  <2>1. Append(g.lines, now) \in Seq(Int)
    BY <1>3 DEF File
  <2> QED  BY <1>3, <2>1 DEF File
<1> HIDE DEF f
<1>5. Grown(f, g) /\ f.count < Len(f.lines)
  <2> HIDE DEF g
  <2>1. g.lines \in Seq(Int) /\ g.count \in Nat
    BY <1>3 DEF File
  <2>2. /\ Len(f.lines) = Len(g.lines) + 1 /\ Len(g.lines) \in Nat
        /\ \A i \in 1 .. Len(g.lines) : f.lines[i] = g.lines[i]
    BY <1>3, <1>4, <2>1
  <2> QED  BY <1>3, <1>4, <2>1, <2>2 DEF Grown
<1>6. FilesOK' /\ \A m \in sending' : NextToSend(m)'
  BY <1>1, <1>2, <1>4, <1>5, WriteFile DEF names, upload
<1>7. LogTypes'
  BY <1>1, <1>2, <1>4, StoreWrites DEF LogInv, LogTypes, names, simon, upload, env
<1>8. n \in DOMAIN fs'[mon] /\ fs'[mon][n] = f
  BY <1>1, <1>2, <1>4, StoreWrites DEF LogInv
<1>9. Place' /\ Uploading'
  BY <1>1, <1>2, <1>5, <1>8 DEF LogInv, Place, FileWritten, names, upload, Uploading, Booting, InReader
<1> QED  BY <1>6, <1>7, <1>9, Together

\* The line is counted; a full file is left.
LEMMA CountEntryStep ==
    ASSUME LogInv, ~ CardErrors, CountEntry
    PROVE  LogInv'
<1> DEFINE n == writing[mon]
           g == fs[mon][n]
           f == [g EXCEPT !.count = @ + 1]
<1>1. /\ pc = "count" /\ pc' \in {"roll", "sync", "idle"} /\ mon' = mon /\ Store(n, f)
      /\ pc' = "sync" => UNCHANGED writing
      /\ writing' = [writing EXCEPT ![mon] = Hour(clock)] \/ UNCHANGED writing
      /\ UNCHANGED <<metafile, reading, simon, upload, newname, env>>
  <2>1. pc' = "sync" => ~ Full(f.count)
    BY DEF CountEntry, Goto, Current
  <2>2. writing' = [writing EXCEPT ![mon] = IF Full(f.count) THEN Hour(clock) ELSE n]
    BY DEF CountEntry, Current
  <2> HIDE DEF f
  <2>3. pc' = "sync" => UNCHANGED writing
    BY <2>1, <2>2 DEF LogInv, LogTypes
  <2>4. writing' = [writing EXCEPT ![mon] = Hour(clock)] \/ UNCHANGED writing
    BY <2>2 DEF LogInv, LogTypes
  <2>5. pc = "count" /\ mon' = mon /\ Store(n, f)
    BY Zenon DEF CountEntry, Goto, Current, StoreHeader, f
  <2> QED  BY <2>3, <2>4, <2>5 DEF CountEntry, Goto
<1>2. mon \in Mon /\ n \in DOMAIN fs[mon] /\ g.count < Len(g.lines)
  BY <1>1 DEF LogInv, Place, FileWritten
<1>3. g \in File
  BY <1>2 DEF LogInv, LogTypes
<1>4. /\ f \in File /\ f.ok = g.ok /\ f.last_idx = g.last_idx /\ f.count = g.count + 1
      /\ f.lines = g.lines
  <2> HIDE DEF g
  <2> QED  BY <1>3 DEF File
<1> HIDE DEF f
<1>5. Grown(f, g)
  <2> HIDE DEF g
  <2>1. Len(g.lines) \in Nat /\ g.count \in Nat
    BY <1>3 DEF File
  <2> QED  BY <1>2, <1>4, <2>1 DEF Grown
<1>6. FilesOK' /\ \A m \in sending' : NextToSend(m)'
  BY <1>1, <1>2, <1>4, <1>5, WriteFile DEF upload
<1>7. Hour(clock) \in Int
  BY HourIsInt DEF LogInv, LogTypes
<1>8. writing' \in [Mon -> Int]
  BY <1>1, <1>7 DEF LogInv, LogTypes
<1>9. LogTypes'
  BY <1>1, <1>2, <1>4, <1>8, StoreWrites DEF LogInv, LogTypes, simon, upload, env
<1>10. n \in DOMAIN fs'[mon]
  BY <1>1, <1>2, <1>4, StoreWrites DEF LogInv
<1>11. Place' /\ Uploading'
  BY <1>1, <1>2, <1>10 DEF LogInv, Place, FileWritten, upload, Uploading, Booting, InReader
<1> QED  BY <1>6, <1>9, <1>11, Together

\* The next file is not one of which an entry is being uploaded.
LEMMA OpenWriteStep ==
    ASSUME LogInv, RollsAway, NEW from, NEW to, OpenWrite(from, to),
           \/ from = "roll" /\ to = "roll header"
           \/ from = "recreate" /\ to = "new header"
    PROVE  LogInv'
<1> DEFINE n == writing[mon]
<1>1. /\ pc = "roll" /\ pc' = "roll header" /\ mon' = mon /\ Store(n, Empty)
      /\ UNCHANGED <<metafile, names, simon, upload, newname, env>>
  BY DEF OpenWrite, Goto, LogInv, Place
<1>2. mon \in Mon /\ (mon \in sending => n # reading[mon])
  BY <1>1 DEF LogInv, Place, RollsAway
<1>3. Empty \in File /\ Empty.last_idx = 0 /\ Empty.count <= Len(Empty.lines)
  BY EmptyFile
<1>4. FilesOK' /\ \A m \in sending' : NextToSend(m)'
  BY <1>1, <1>2, <1>3, WriteFile DEF names, upload
<1>5. LogTypes'
  BY <1>1, <1>2, <1>3, StoreWrites DEF LogInv, LogTypes, names, simon, upload, env
<1>6. n \in DOMAIN fs'[mon]
  BY <1>1, <1>2, <1>3, StoreWrites DEF LogInv
<1>7. Place' /\ Uploading'
  BY <1>1, <1>2, <1>6 DEF LogInv, Place, FileWritten, names, upload, Uploading, Booting, InReader
<1> QED  BY <1>4, <1>5, <1>7, Together

\* The next file is dated.
LEMMA RollStampStep ==
    ASSUME LogInv, RollStamp
    PROVE  LogInv'
<1> DEFINE n == writing[mon]
           f == [Current EXCEPT !.start = clock, !.synched = TRUE]
<1>1. /\ pc = "roll stamp" /\ pc' = "idle" /\ mon' = mon /\ Store(n, f)
      /\ UNCHANGED <<metafile, names, simon, upload, newname, env>>
  BY DEF RollStamp, Goto
<1>2. mon \in Mon /\ n \in DOMAIN fs[mon]
  BY <1>1 DEF LogInv, Place, FileWritten
<1>3. f \in File /\ Grown(f, fs[mon][n])
  BY <1>2, Stamped DEF LogInv, LogTypes
<1> HIDE DEF f
<1>4. FilesOK' /\ \A m \in sending' : NextToSend(m)'
  BY <1>1, <1>2, <1>3, WriteFile DEF names, upload
<1>5. LogTypes'
  BY <1>1, <1>2, <1>3, StoreWrites DEF LogInv, LogTypes, names, simon, upload, env
<1>6. Place' /\ Uploading'
  BY <1>1 DEF LogInv, Place, FileWritten, names, upload, Uploading, Booting, InReader
<1> QED  BY <1>4, <1>5, <1>6, Together

-----------------------------------------------------------------------------
\* Dating a file.

\* The time a request takes.
LEMMA RequestTimes ==
    ASSUME LogInv, Request
    PROVE  now' \in Int /\ clock' \in Int
BY MonitorAssumption DEF Request, Busy, LogInv, LogTypes

\* No date yet.
LEMMA SyncFailsStep ==
    ASSUME LogInv, SyncFails \/ SyncUnread
    PROVE  LogInv'
<1>1. /\ pc = "sync" /\ pc' = "idle"
      /\ UNCHANGED <<mon, disk, names, upload, newname>>
      /\ now' \in Int /\ clock' \in Int
  <2>1. CASE SyncFails
    BY <2>1, RequestTimes DEF SyncFails, Goto
  <2>2. CASE SyncUnread
    BY <2>2 DEF SyncUnread, Goto, simon, env, LogInv, LogTypes
  <2> QED  BY <2>1, <2>2
<1>2. LogTypes'
  BY <1>1 DEF LogInv, LogTypes, disk, names, upload
<1>3. Place' /\ Uploading'
  BY <1>1 DEF LogInv, Place, FileWritten, upload, Uploading, Booting, InReader
<1>4. FilesOK' /\ \A m \in sending' : NextToSend(m)'
  BY <1>1, Kept DEF disk, names, upload
<1> QED  BY <1>2, <1>3, <1>4, Together

\* The file being written is dated.
LEMMA SyncStampStep ==
    ASSUME LogInv, ~ CardErrors, SyncStamp
    PROVE  LogInv'
<1> DEFINE n == writing[mon]
           start == now' - TimeElapsed
           f == [Current EXCEPT !.start = start, !.synched = TRUE]
<1>1. /\ pc = "sync" /\ pc' = "rename" /\ mon' = mon /\ Store(n, f)
      /\ newname' = Hour(start) /\ clock' = now'
      /\ UNCHANGED env \/ Busy
      /\ UNCHANGED <<metafile, names, upload>>
  BY DEF SyncStamp, Goto, StoreHeader
<1>2. mon \in Mon /\ n \in DOMAIN fs[mon]
  BY <1>1 DEF LogInv, Place, FileWritten
<1>3. now' \in Int
  BY <1>1, MonitorAssumption DEF Busy, env, LogInv, LogTypes
<1>4. start \in Int
  <2>1. time_interv[mon] \in Nat
    BY <1>2, MonitorAssumption
  <2>2. Current.count \in Nat
    BY <1>2 DEF LogInv, LogTypes, Current, File
  <2>3. TimeElapsed \in Nat
    <3> DEFINE c == Current.count
               i == time_interv[mon]
    <3>1. c \in Nat /\ i \in Nat
      BY <2>1, <2>2
    <3> HIDE DEF c, i
    <3>2. i * c \in Nat
      BY <3>1
    <3> QED  BY <3>2 DEF TimeElapsed, c, i
  <2> QED  BY <1>3, <2>3
<1> HIDE DEF start
<1>5. f \in File /\ Grown(f, fs[mon][n])
  BY <1>2, <1>4, Stamped
<1> HIDE DEF f
<1>6. FilesOK' /\ \A m \in sending' : NextToSend(m)'
  BY <1>1, <1>2, <1>5, WriteFile DEF names, upload
<1>7. newname' \in Int /\ clock' \in Int
  BY <1>1, <1>3, <1>4, HourIsInt
<1>8. LogTypes'
  BY <1>1, <1>2, <1>3, <1>5, <1>7, StoreWrites DEF LogInv, LogTypes, names, upload
<1>9. n \in DOMAIN fs'[mon]
  BY <1>1, <1>2, <1>5, StoreWrites DEF LogInv
<1>10. Place' /\ Uploading'
  BY <1>1, <1>2, <1>9 DEF LogInv, Place, FileWritten, names, upload, Uploading, Booting, InReader
<1> QED  BY <1>6, <1>8, <1>10, Together

\* The next hour is tried.
LEMMA RenameFailsStep ==
    ASSUME LogInv, RenameFails
    PROVE  LogInv'
<1>1. /\ pc = "rename" /\ newname' = newname + 1
      /\ UNCHANGED <<disk, names, simon, upload, pc, mon, env>>
  BY DEF RenameFails
<1>2. LogTypes'
  BY <1>1 DEF LogInv, LogTypes, disk, names, simon, upload, env
<1>3. Place' /\ Uploading'
  BY <1>1 DEF LogInv, Place, FileWritten, disk, names, upload, Uploading, Booting, InReader
<1>4. FilesOK' /\ \A m \in sending' : NextToSend(m)'
  BY <1>1, Kept DEF disk, names, upload
<1> QED  BY <1>2, <1>3, <1>4, Together

\* The file and the names of it move together.
LEMMA RenameStep ==
    ASSUME LogInv, Rename
    PROVE  LogInv'
<1> DEFINE n == writing[mon]
           k == newname
<1>1. /\ pc = "rename" /\ pc' \in {"sync open", "idle"} /\ mon' = mon
      /\ k \notin DOMAIN fs[mon]
      /\ fs' = [fs EXCEPT ![mon] = Renamed(fs[mon], n, k)]
      /\ writing' = [writing EXCEPT ![mon] = k]
      /\ reading' = [reading EXCEPT ![mon] = IF reading[mon] = n THEN k ELSE reading[mon]]
      /\ newname' = NoName
      /\ UNCHANGED <<metafile, simon, upload, env>>
  BY Zenon DEF Rename, Goto, NameTaken, Exists, SameFile
<1>2. mon \in Mon /\ n \in DOMAIN fs[mon]
  BY <1>1 DEF LogInv, Place, FileWritten
<1>3. /\ fs' = [m \in Mon |-> fs'[m]]
      /\ fs'[mon] = Renamed(fs[mon], n, k)
      /\ \A m \in Mon \ {mon} : fs'[m] = fs[m]
  BY <1>1, <1>2 DEF LogInv, LogTypes
<1>4. /\ DOMAIN fs'[mon] = (DOMAIN fs[mon] \ {n}) \cup {k}
      /\ fs'[mon][k] = fs[mon][n]
      /\ \A x \in DOMAIN fs[mon] \ {n} : fs'[mon][x] = fs[mon][x]
  BY <1>1, <1>3, ZenonT(40) DEF Renamed
<1>5. \A m \in Mon : \A x \in DOMAIN fs'[m] : \E y \in DOMAIN fs[m] : fs'[m][x] = fs[m][y]
  <2>1. ASSUME NEW x \in DOMAIN fs'[mon]
        PROVE  \E y \in DOMAIN fs[mon] : fs'[mon][x] = fs[mon][y]
    BY <1>2, <1>4
  <2> QED  BY <1>3, <2>1
<1>6. \A m \in Mon : \A x \in DOMAIN fs'[m] : fs'[m][x] \in File
  BY <1>5 DEF LogInv, LogTypes
<1>7. writing' \in [Mon -> Int] /\ reading' \in [Mon -> Int]
  BY <1>1 DEF LogInv, LogTypes
<1>8. LogTypes'
  BY <1>1, <1>3, <1>6, <1>7, Names DEF LogInv, LogTypes, simon, upload, env
<1>9. Place' /\ Uploading'
  BY <1>1, <1>2 DEF LogInv, Place, FileWritten, upload, Uploading, Booting, InReader
<1>10. \A m : AtServer(m)' = AtServer(m)
  BY <1>1 DEF AtServer, upload
<1>11. FilesOK'
  <2>1. IndexesInFile'
    BY <1>5 DEF LogInv, IndexesInFile, Files
  <2>2. ConfirmedWasReceived'
    BY <1>5, <1>10 DEF LogInv, ConfirmedWasReceived, Files
  <2> QED  BY <2>1, <2>2 DEF FilesOK
<1>12. ASSUME NEW m \in sending' PROVE NextToSend(m)'
  <2>1. m \in sending /\ m \in Mon /\ NextToSend(m) /\ reading[m] \in DOMAIN fs[m]
    BY <1>1 DEF LogInv, LogTypes, upload, NextToSend
  <2>2. reading'[m] \in DOMAIN fs'[m] /\ fs'[m][reading'[m]] = fs[m][reading[m]]
    <3>1. CASE m = mon /\ reading[mon] = n
      BY <1>1, <1>4, <2>1, <3>1 DEF LogInv, LogTypes
    <3>2. CASE m = mon /\ reading[mon] # n
      BY <1>1, <1>4, <2>1, <3>2 DEF LogInv, LogTypes
    <3>3. CASE m # mon
      BY <1>1, <1>3, <2>1, <3>3 DEF LogInv, LogTypes
    <3> QED  BY <3>1, <3>2, <3>3
  <2> QED  BY <1>1, <2>1, <2>2 DEF NextToSend, upload
<1> QED  BY <1>8, <1>9, <1>11, <1>12, Together

-----------------------------------------------------------------------------
\* The reader.

\* Nothing is waiting for the server when a pass of the reader starts.
LEMMA StartReadStep ==
    ASSUME LogInv, StartRead
    PROVE  LogInv'
<1>1. /\ pc = "idle" /\ batch = {} /\ pc' = "read" /\ mon' = 1
      /\ UNCHANGED <<disk, names, simon, upload, newname, env>>
      /\ sending = {}
  BY DEF StartRead, ReadersTurn, monitor_sending, LogInv, Uploading
<1>2. mon' \in 0 .. num_monitores + 1
  BY <1>1, MonitorAssumption
<1>3. LogTypes'
  BY <1>1, <1>2 DEF LogInv, LogTypes, disk, names, simon, upload, env
<1>4. Place' /\ Uploading'
  BY <1>1 DEF Place, FileWritten, upload, Uploading, Booting, InReader
<1>5. FilesOK' /\ \A m \in sending' : NextToSend(m)'
  BY <1>1, Kept DEF disk, names, upload
<1> QED  BY <1>3, <1>4, <1>5, Together

\* The next entry of the file goes into the batch.
LEMMA ReadEntryStep ==
    ASSUME LogInv, ReadEntry
    PROVE  LogInv'
<1> DEFINE r == reading[mon]
           h == fs[mon][r]
           e == [mon |-> mon, sample |-> NextLine(h), ts |-> EntryTime(h)]
<1>1. /\ pc = "read" /\ pc' = "read" /\ mon \in Mon /\ mon' = mon + 1
      /\ r \in DOMAIN fs[mon] /\ h.ok /\ h.last_idx < h.count
      /\ batch' = batch \cup {e} /\ sending' = sending \cup {mon}
      /\ UNCHANGED <<disk, names, simon, server, newname, env>>
  BY DEF ReadEntry, Reading, NextRead, Readable, monitor_getheader
<1>2. /\ h.last_idx \in Nat /\ h.count \in Nat /\ h.count <= Len(h.lines)
      /\ h.lines \in Seq(Int) /\ Len(h.lines) \in Nat /\ h.start \in Int
  BY <1>1, SMTT(30) DEF LogInv, LogTypes, File, IndexesInFile, Files
<1>3. e \in Entry
  <2>1. h.last_idx + 1 \in 1 .. Len(h.lines)
    <3>1. h.last_idx < h.count
      BY <1>1
    <3> HIDE DEF h
    <3> QED  BY <1>2, <3>1
  <2>2. NextLine(h) \in Int
    BY <1>2, <2>1 DEF NextLine
  <2>3. EntryTime(h) \in Int
    <3> DEFINE a == h.start
               b == h.last_idx
               c == time_interv[mon]
    <3>1. a \in Int /\ b \in Nat /\ c \in Nat
      BY <1>1, <1>2, MonitorAssumption
    <3> HIDE DEF a, b, c
    <3>2. a + b * c \in Int
      BY <3>1
    <3> QED  BY <3>2 DEF EntryTime, a, b, c
  <2> QED  BY <1>1, <2>2, <2>3 DEF Entry
<1>4. mon' \in 0 .. num_monitores + 1
  BY <1>1, MonitorAssumption DEF Mon
<1>5. LogTypes'
  BY <1>1, <1>3, <1>4 DEF LogInv, LogTypes, disk, names, simon, env
<1>6. Place'
  BY <1>1 DEF LogInv, Place, FileWritten
<1>7. Uploading'
  <2>1. \A m \in sending' : m < mon'
    BY <1>1 DEF LogInv, LogTypes, Uploading, InReader, Mon
  <2> QED  BY <1>1, <2>1 DEF Uploading, Booting, InReader
<1>8. \A m : AtServer(m)' = AtServer(m)
  BY <1>1 DEF AtServer
<1>9. FilesOK'
  BY <1>1, <1>8 DEF LogInv, FilesOK, IndexesInFile, ConfirmedWasReceived, Files, disk
<1>10. ASSUME NEW m \in sending' PROVE NextToSend(m)'
  <2>1. CASE m = mon
    <3>1. h.last_idx < Len(h.lines)
      BY <1>1, <1>2
    <3>2. e \in batch' /\ e.mon = mon /\ e.sample = h.lines[h.last_idx + 1]
      BY <1>1, <3>1 DEF NextLine
    <3> HIDE DEF e
    <3> QED  BY <1>1, <2>1, <3>2 DEF NextToSend, disk, names
  <2>2. CASE m \in sending
    BY <1>1, <2>2 DEF LogInv, NextToSend, disk, names
  <2> QED  BY <1>1, <2>1, <2>2
<1> QED  BY <1>5, <1>6, <1>7, <1>9, <1>10, Together

\* A monitor that changes its file has no entry in the batch.
LEMMA SwitchFileStep ==
    ASSUME LogInv, SwitchFile
    PROVE  LogInv'
<1>1. /\ pc = "read" /\ pc' = "switch open" /\ mon \in Mon /\ mon' = mon
      /\ reading' = [reading EXCEPT ![mon] = writing[mon]]
      /\ UNCHANGED <<disk, writing, simon, upload, newname, env>>
  BY DEF SwitchFile, Reading, Goto
<1>2. mon \notin sending
  <2>1. mon \in sending => mon < mon
    BY <1>1 DEF LogInv, Uploading, InReader
  <2>2. mon \in Int
    BY <1>1, MonInt
  <2> QED  BY <2>1, <2>2
<1>3. reading' \in [Mon -> Int] /\ \A m \in sending : reading'[m] = reading[m]
  BY <1>1, <1>2 DEF LogInv, LogTypes
<1>4. LogTypes'
  BY <1>1, <1>3 DEF LogInv, LogTypes, disk, simon, upload, env
<1>5. \A m \in sending : m < mon
  BY <1>1 DEF LogInv, Uploading, InReader
<1>6. Place' /\ Uploading'
  BY <1>1, <1>2, <1>5 DEF LogInv, Place, FileWritten, upload, Uploading, Booting, InReader
<1>7. FilesOK' /\ \A m \in sending' : NextToSend(m)'
  BY <1>1, <1>3, Kept DEF disk, upload
<1> QED  BY <1>4, <1>6, <1>7, Together

\* On to the next monitor.
LEMMA NextReadStep ==
    ASSUME LogInv, ReadNothing \/ SwitchDone
    PROVE  LogInv'
<1>1. /\ pc \in {"read", "switched"} /\ pc' = "read" /\ mon \in Mon /\ mon' = mon + 1
      /\ UNCHANGED <<disk, names, simon, upload, newname, env>>
  BY DEF ReadNothing, SwitchDone, Reading, NextRead, LogInv, Place
<1>2. mon' \in 0 .. num_monitores + 1
  BY <1>1, MonitorAssumption DEF Mon
<1>3. \A m \in sending : m < mon'
  <2>1. /\ mon \in Int
        /\ \A m \in sending : m \in Int
        /\ pc = "read" => \A m \in sending : m < mon
        /\ pc = "switched" => \A m \in sending : m < mon
    BY <1>1, MonInt DEF LogInv, LogTypes, Uploading, InReader
  <2> QED  BY <1>1, <2>1
<1>4. LogTypes'
  BY <1>1, <1>2 DEF LogInv, LogTypes, disk, names, simon, upload, env
<1>5. Place' /\ Uploading'
  BY <1>1, <1>3 DEF LogInv, Place, FileWritten, upload, Uploading, Booting, InReader
<1>6. FilesOK' /\ \A m \in sending' : NextToSend(m)'
  BY <1>1, Kept DEF disk, names, upload
<1> QED  BY <1>4, <1>5, <1>6, Together

\* The batch, if any, is sent.
LEMMA EndReadStep ==
    ASSUME LogInv, EndRead
    PROVE  LogInv'
<1>1. /\ pc = "read" /\ pc' \in {"send", "idle"} /\ mon' = 0
      /\ UNCHANGED <<disk, names, simon, upload, newname, env>>
  BY DEF EndRead
<1>2. mon' \in 0 .. num_monitores + 1
  BY <1>1, MonitorAssumption
<1>3. LogTypes'
  BY <1>1, <1>2 DEF LogInv, LogTypes, disk, names, simon, upload, env
<1>4. Place' /\ Uploading'
  BY <1>1 DEF LogInv, Place, FileWritten, upload, Uploading, Booting, InReader
<1>5. FilesOK' /\ \A m \in sending' : NextToSend(m)'
  BY <1>1, Kept DEF disk, names, upload
<1> QED  BY <1>3, <1>4, <1>5, Together

-----------------------------------------------------------------------------
\* The upload.

\* The same batch again.
LEMMA RetryStep ==
    ASSUME LogInv, Retry
    PROVE  LogInv'
<1>1. /\ pc = "idle" /\ pc' = "send" /\ mon' = 0
      /\ UNCHANGED <<disk, names, simon, upload, newname, env>>
  BY DEF Retry, ReadersTurn
<1>2. LogTypes'
  BY <1>1, MonitorAssumption DEF LogInv, LogTypes, disk, names, simon, upload, env
<1>3. Place' /\ Uploading'
  BY <1>1 DEF LogInv, Place, FileWritten, upload, Uploading, Booting, InReader
<1>4. FilesOK' /\ \A m \in sending' : NextToSend(m)'
  BY <1>1, Kept DEF disk, names, upload
<1> QED  BY <1>2, <1>3, <1>4, Together

\* What the server has of a monitor only grows.
LEMMA ServerGrows ==
    ASSUME LogInv, server \subseteq server', UNCHANGED fs
    PROVE  FilesOK'
<1>1. \A m : AtServer(m) \subseteq AtServer(m)'
  BY DEF AtServer
<1> QED  BY <1>1 DEF LogInv, FilesOK, IndexesInFile, ConfirmedWasReceived, Files

\* Without a confirmation the batch stays.
LEMMA SendFailsStep ==
    ASSUME LogInv, NEW arrives \in BOOLEAN, SendFails(arrives)
    PROVE  LogInv'
<1>1. /\ pc = "send" /\ pc' = "idle" /\ server \subseteq server' /\ Request
      /\ UNCHANGED <<mon, disk, names, batch, sending, newname>>
  BY DEF SendFails, Goto
<1>2. LogTypes'
  BY <1>1, RequestTimes DEF LogInv, LogTypes, disk, names
<1>3. Place' /\ Uploading'
  BY <1>1 DEF LogInv, Place, FileWritten, Uploading, Booting, InReader
<1>4. FilesOK'
  BY <1>1, ServerGrows DEF disk
<1>5. \A m \in sending' : NextToSend(m)'
  BY <1>1 DEF LogInv, NextToSend, disk, names
<1> QED  BY <1>2, <1>3, <1>4, <1>5, Together

\* With one, the server has every entry of the batch.
LEMMA SendOkStep ==
    ASSUME LogInv, SendOk
    PROVE  LogInv'
<1>1. /\ pc = "send" /\ pc' = "confirm" /\ server' = server \cup Received /\ Request
      /\ batch' = {}
      /\ UNCHANGED <<mon, disk, names, sending, newname>>
  BY DEF SendOk, Goto
<1>2. LogTypes'
  BY <1>1, RequestTimes DEF LogInv, LogTypes, disk, names
<1>3. Place' /\ Uploading'
  BY <1>1 DEF LogInv, Place, FileWritten, Uploading, Booting, InReader
<1>4. FilesOK'
  BY <1>1, ServerGrows DEF disk
<1>5. ASSUME NEW e \in batch PROVE e.sample \in AtServer(e.mon)'
  <2> DEFINE f == [e EXCEPT !.ts = time_start + int16(e.ts - time_start)]
  <2>1. e \in Entry
    BY DEF LogInv, LogTypes
  <2>2. f.mon = e.mon /\ f.sample = e.sample
    BY <2>1 DEF Entry
  <2>3. f \in server'
    BY <1>1 DEF Received
  <2> HIDE DEF f
  <2> QED  BY <2>2, <2>3 DEF AtServer
<1>6. ASSUME NEW m \in sending' PROVE NextToSend(m)'
  <2>1. NextToSend(m)
    BY <1>1 DEF LogInv
  <2>2. fs[m][reading[m]].lines[fs[m][reading[m]].last_idx + 1] \in AtServer(m)'
    BY <1>1, <1>5, <2>1 DEF NextToSend
  <2> QED  BY <1>1, <2>1, <2>2 DEF NextToSend, disk, names
<1> QED  BY <1>2, <1>3, <1>4, <1>6, Together

\* A non-empty set of monitors has a least one.
LEMMA LeastOf ==
    ASSUME NEW S, S \subseteq Mon, S # {}
    PROVE  \E x \in S : \A y \in S : x <= y
<1> DEFINE Less == OpToRel(<, Nat)
<1>1. S \subseteq Nat
  BY DEF Mon
<1>2. \E x \in S : \A y \in S : ~ (<<y, x>> \in Less)
  <2> HIDE DEF Less
  <2> QED  BY <1>1, NatLessThanWellFounded, WFMin DEF Less
<1>3. PICK x \in S : \A y \in S : ~ (<<y, x>> \in Less)
  BY <1>2
<1>4. \A y \in S : ~ (y < x)
  BY <1>1, <1>3 DEF OpToRel
<1>5. \A y \in S : x <= y
  BY <1>1, <1>4
<1> QED  BY <1>5

LEMMA LeastMonitor ==
    ASSUME NEW S, S \subseteq Mon, S # {}
    PROVE  (CHOOSE m \in S : \A n \in S : m <= n) \in S
BY LeastOf

\* The entry that is marked as sent is the one the server has.
LEMMA ConfirmStep ==
    ASSUME LogInv, ~ CardErrors, Confirm
    PROVE  LogInv'
<1> DEFINE m == CHOOSE k \in sending : \A n \in sending : k <= n
           r == reading[m]
           h == fs[m][r]
           f == [h EXCEPT !.last_idx = @ + 1]
<1>1. m \in sending
  <2>1. sending \subseteq Mon /\ sending # {}
    BY DEF Confirm, LogInv, LogTypes
  <2> QED  BY <2>1, LeastMonitor
<1>2. /\ pc = "confirm" /\ pc' = "confirm" /\ mon' = mon
      /\ sending' = sending \ {m}
      /\ \/ monitor_getheader(m, r) /\ fs' = [fs EXCEPT ![m][r] = Sent(fs[m][r])]
         \/ ~ monitor_getheader(m, r) /\ UNCHANGED fs
      /\ UNCHANGED <<metafile, names, simon, batch, server, newname, env>>
  BY DEF Confirm, Goto
<1> HIDE DEF m
<1>3. m \in Mon /\ NextToSend(m)
  BY <1>1 DEF LogInv, LogTypes
<1>4. /\ r \in DOMAIN fs[m] /\ h.ok /\ h.last_idx < h.count
      /\ h.lines[h.last_idx + 1] \in AtServer(m)
      /\ h \in File /\ h.count <= Len(h.lines)
  BY <1>2, <1>3 DEF NextToSend, LogInv, LogTypes, IndexesInFile, Files
<1>5. fs' = [fs EXCEPT ![m][r] = f]
  BY <1>2, <1>4 DEF monitor_getheader, Sent
<1>6. /\ f \in File /\ f.last_idx = h.last_idx + 1
      /\ f.count = h.count /\ f.lines = h.lines
  <2>1. h \in File
    BY <1>4
  <2> HIDE DEF h
  <2> QED  BY <2>1 DEF File
<1> HIDE DEF f
<1>7. /\ fs' = [k \in Mon |-> fs'[k]]
      /\ DOMAIN fs'[m] = DOMAIN fs[m] /\ fs'[m][r] = f
      /\ \A x \in DOMAIN fs[m] \ {r} : fs'[m][x] = fs[m][x]
      /\ \A k \in Mon \ {m} : fs'[k] = fs[k]
  BY <1>3, <1>4, <1>5 DEF LogInv, LogTypes
<1>8. \A k \in Mon : \A x \in DOMAIN fs'[k] : fs'[k][x] \in File
  BY <1>3, <1>6, <1>7 DEF LogInv, LogTypes
<1>9. LogTypes'
  BY <1>2, <1>7, <1>8 DEF LogInv, LogTypes, names, simon, env
<1>10. Place' /\ Uploading'
  BY <1>2 DEF LogInv, Place, FileWritten, Uploading, Booting, InReader
<1>11. \A k : AtServer(k)' = AtServer(k)
  BY <1>2 DEF AtServer
<1>12. /\ h.last_idx \in Nat /\ h.count \in Nat /\ Len(h.lines) \in Nat
  BY <1>4 DEF File
<1>13. f.last_idx <= f.count /\ f.count <= Len(f.lines)
  <2> HIDE DEF h
  <2> QED  BY <1>4, <1>6, <1>12
<1>14. \A i \in 1 .. f.last_idx : i <= Len(f.lines) /\ f.lines[i] \in AtServer(m)
  <2>1. \A i \in 1 .. h.last_idx : h.lines[i] \in AtServer(m)
    BY <1>3, <1>4 DEF LogInv, ConfirmedWasReceived, Files
  <2> HIDE DEF h
  <2>2. ASSUME NEW i \in 1 .. f.last_idx
        PROVE  i <= Len(f.lines) /\ (i \in 1 .. h.last_idx \/ i = h.last_idx + 1)
    BY <1>4, <1>6, <1>12
  <2> QED  BY <1>4, <1>6, <2>1, <2>2
<1>15. IndexesInFile'
  BY <1>3, <1>7, <1>13 DEF LogInv, IndexesInFile, Files
<1>16. ConfirmedWasReceived'
  BY <1>3, <1>7, <1>11, <1>14 DEF LogInv, ConfirmedWasReceived, Files
<1>17. ASSUME NEW k \in sending' PROVE NextToSend(k)'
  <2>1. k \in Mon /\ k # m /\ NextToSend(k) /\ fs'[k] = fs[k]
    BY <1>2, <1>7 DEF LogInv, LogTypes
  <2> QED  BY <1>2, <1>11, <2>1 DEF NextToSend, names
<1> QED  BY <1>9, <1>10, <1>15, <1>16, <1>17, Together DEF FilesOK

\* Every entry of the batch is marked.
LEMMA ConfirmDoneStep ==
    ASSUME LogInv, ConfirmDone
    PROVE  LogInv'
<1>1. /\ pc = "confirm" /\ pc' = "idle" /\ sending = {}
      /\ UNCHANGED <<mon, disk, names, simon, upload, newname, env>>
  BY DEF ConfirmDone, Goto
<1>2. LogTypes'
  BY <1>1 DEF LogInv, LogTypes, disk, names, simon, upload, env
<1>3. Place' /\ Uploading'
  BY <1>1 DEF LogInv, Place, FileWritten, upload, Uploading, Booting, InReader
<1>4. FilesOK'
  BY <1>1, ServerGrows DEF disk, upload
<1> QED  BY <1>1, <1>2, <1>3, <1>4, Together DEF upload

-----------------------------------------------------------------------------
\* Power failures, the initial states, and the theorems.

\* A power failure leaves the card and the server as they are.
LEMMA CrashStep ==
    ASSUME LogInv, Crash
    PROVE  LogInv'
<1>1. /\ now' \in Int /\ mon' = 1 /\ pc' = "boot"
      /\ writing' = [m \in Mon |-> NoName] /\ reading' = [m \in Mon |-> NoName]
      /\ clock' = 0 /\ batch' = {} /\ sending' = {} /\ newname' = NoName
      /\ UNCHANGED <<disk, server>>
  BY MonitorAssumption DEF Crash, LogInv, LogTypes
<1>2. 1 \in Mon /\ 1 \in 0 .. num_monitores + 1
  BY MonitorAssumption DEF Mon
<1>3. LogTypes'
  BY <1>1, <1>2, Names DEF LogInv, LogTypes, disk
<1>4. Place' /\ Uploading'
  BY <1>1, <1>2 DEF Place, FileWritten, Uploading, Booting, InReader
<1>5. FilesOK'
  BY <1>1, ServerGrows DEF disk
<1> QED  BY <1>1, <1>3, <1>4, <1>5, Together

\* An empty card.
LEMMA InitLog == Init => LogInv
<1> SUFFICES ASSUME Init PROVE LogInv
  OBVIOUS
<1>1. 1 \in Mon /\ 1 \in 0 .. num_monitores + 1 /\ StartTime \in Int
  BY MonitorAssumption DEF Mon
<1>2. \A m \in Mon : DOMAIN fs[m] = {}
  BY DEF Init
<1>3. LogTypes
  BY <1>1, <1>2, Names DEF Init, LogTypes
<1>4. Place /\ Uploading
  BY <1>1 DEF Init, Place, FileWritten, Uploading, Booting, InReader
<1>5. IndexesInFile /\ ConfirmedWasReceived
  BY <1>2 DEF IndexesInFile, ConfirmedWasReceived, Files
<1>6. sending = {}
  BY DEF Init
<1> QED  BY <1>3, <1>4, <1>5, <1>6 DEF LogInv

\* Every step keeps the invariant.
LEMMA NextLog ==
    ASSUME ~ CardErrors, ~ WriteFailures, LogInv, RollsAway, [Next]_vars
    PROVE  LogInv'
<1>1. CASE Boot
  BY <1>1, BootLogStep, BootReadStep, BootNextStep, NewHeaderStep, MetaStep DEF Boot
<1>2. CASE Tick
  BY <1>2, TickStep
<1>3. CASE Write
  BY <1>3, SampleStep, OpenWriteStep, NewHeaderStep, AppendLineStep, CountEntryStep,
     RollStampStep DEF Write, LineRefused, HeaderFails
<1>4. CASE Sync
  BY <1>4, SyncFailsStep, SyncStampStep, RenameFailsStep, RenameStep, MetaStep DEF Sync, DateAgain
<1>5. CASE Read
  BY <1>5, StartReadStep, ReadEntryStep, SwitchFileStep, NextReadStep, EndReadStep,
     MetaStep DEF Read
<1>6. CASE Send
  BY <1>6, RetryStep, SendOkStep, ConfirmStep, ConfirmDoneStep, SendFailsStep DEF Send
<1>7. CASE Crash
  BY <1>7, CrashStep
<1>8. CASE \E m \in Mon : SampleLost(m)
  BY <1>8, SampleLostStep
<1>9. CASE UNCHANGED vars
  <2>1. UNCHANGED <<fs, metafile, writing, reading, clock, batch, sending, pc, mon,
                    newname, now, server>>
    BY <1>9 DEF vars, disk, names, simon, upload, env
  <2>2. LogTypes' /\ Place' /\ Uploading'
    BY <2>1 DEF LogInv, LogTypes, Place, FileWritten, Uploading, Booting, InReader
  <2>3. FilesOK'
    BY <2>1, ServerGrows
  <2>4. \A m \in sending' : NextToSend(m)'
    BY <2>1 DEF LogInv, NextToSend, AtServer
  <2> QED  BY <2>2, <2>3, <2>4, Together
<1> QED  BY <1>1, <1>2, <1>3, <1>4, <1>5, <1>6, <1>7, <1>8, <1>9 DEF Next

-----------------------------------------------------------------------------
\* What stays on the card.

\* A full file is left for one that is not there.
RollsFree == pc = "roll" => writing[mon] \notin DOMAIN fs[mon]

\* The lines s are the first ones of t.
Begins(s, t) == Len(s) <= Len(t) /\ \A i \in 1 .. Len(s) : t[i] = s[i]

\* The next state has the lines of file n of monitor m, on the card or at the server.
Survives(m, n) ==
    \/ \E k \in DOMAIN fs'[m] : Begins(fs[m][n].lines, fs'[m][k].lines)
    \/ \A i \in 1 .. Len(fs[m][n].lines) : fs[m][n].lines[i] \in AtServer(m)'

\* What NothingErased says of a step.
Erasing == \A m \in Mon : OnDisk(m) \subseteq OnDisk(m)' \cup AtServer(m)'

\* The lines of a file are those of the card.
LEMMA FilesSurvive ==
    ASSUME LogTypes, LogTypes', \A m \in Mon : \A n \in DOMAIN fs[m] : Survives(m, n)
    PROVE  Erasing
<1> SUFFICES ASSUME NEW m \in Mon, NEW s \in OnDisk(m)
             PROVE  s \in OnDisk(m)' \/ s \in AtServer(m)'
  BY DEF Erasing
<1>1. PICK n \in DOMAIN fs[m] : \E i \in 1 .. Len(fs[m][n].lines) : s = fs[m][n].lines[i]
  BY DEF OnDisk, Files
<1>2. PICK i \in 1 .. Len(fs[m][n].lines) : s = fs[m][n].lines[i]
  BY <1>1
<1>3. CASE \E k \in DOMAIN fs'[m] : Begins(fs[m][n].lines, fs'[m][k].lines)
  <2>1. PICK k \in DOMAIN fs'[m] : Begins(fs[m][n].lines, fs'[m][k].lines)
    BY <1>3
  <2>2. fs[m][n].lines \in Seq(Int) /\ fs'[m][k].lines \in Seq(Int)
    BY <1>1, <2>1 DEF LogTypes, File
  <2>3. i \in 1 .. Len(fs'[m][k].lines) /\ fs'[m][k].lines[i] = s
    <3> DEFINE a == fs[m][n].lines
               b == fs'[m][k].lines
    <3>1. /\ a \in Seq(Int) /\ b \in Seq(Int) /\ Begins(a, b)
          /\ i \in 1 .. Len(a) /\ s = a[i]
      BY <1>2, <2>1, <2>2
    <3> HIDE DEF a, b
    <3>2. Len(a) \in Nat /\ Len(b) \in Nat
      BY <3>1
    <3>3. i \in 1 .. Len(b) /\ b[i] = s
      BY <3>1, <3>2 DEF Begins
    <3> QED  BY <3>3 DEF b
  <2>4. s \in {fs'[m][k].lines[j] : j \in 1 .. Len(fs'[m][k].lines)}
    BY <2>3
  <2> QED  BY <2>1, <2>4 DEF OnDisk, Files
<1>4. CASE \A j \in 1 .. Len(fs[m][n].lines) : fs[m][n].lines[j] \in AtServer(m)'
  BY <1>2, <1>4
<1>5. Survives(m, n)
  BY <1>1
<1> QED  BY <1>3, <1>4, <1>5 DEF Survives

\* A file that is not written survives.
LEMMA SameLines ==
    ASSUME LogTypes, NEW m \in Mon, NEW n \in DOMAIN fs[m], NEW k \in DOMAIN fs'[m],
           fs'[m][k].lines = fs[m][n].lines
    PROVE  Survives(m, n)
<1>1. Len(fs[m][n].lines) \in Nat
  BY DEF LogTypes, File
<1> QED  BY <1>1 DEF Survives, Begins

\* Steps that leave the card alone.
LEMMA CardKept ==
    ASSUME LogTypes, LogTypes', UNCHANGED fs
    PROVE  Erasing
<1>1. ASSUME NEW m \in Mon, NEW n \in DOMAIN fs[m] PROVE Survives(m, n)
  BY SameLines
<1> QED  BY <1>1, FilesSurvive

\* Steps that write one file, with its lines kept.
LEMMA LinesKept ==
    ASSUME LogTypes, LogTypes', mon \in Mon, NEW n, NEW f \in File, Store(n, f),
           \A m \in Mon : m = mon /\ n \in DOMAIN fs[m] =>
             \/ Begins(fs[m][n].lines, f.lines)
             \/ \A i \in 1 .. Len(fs[m][n].lines) : fs[m][n].lines[i] \in AtServer(m)'
    PROVE  Erasing
<1>1. /\ DOMAIN fs'[mon] = DOMAIN fs[mon] \cup {n}
      /\ fs'[mon][n] = f
      /\ \A x \in DOMAIN fs[mon] \ {n} : fs'[mon][x] = fs[mon][x]
      /\ \A m \in Mon \ {mon} : fs'[m] = fs[m]
  BY StoreWrites
<1>2. ASSUME NEW m \in Mon, NEW x \in DOMAIN fs[m]
      PROVE  Survives(m, x)
  <2>1. CASE m = mon /\ x = n
    <3>1. n \in DOMAIN fs'[m] /\ fs'[m][n] = f
      BY <1>1, <2>1
    <3>2. \/ Begins(fs[m][n].lines, f.lines)
          \/ \A i \in 1 .. Len(fs[m][n].lines) : fs[m][n].lines[i] \in AtServer(m)'
      BY <1>2, <2>1
    <3> QED  BY <2>1, <3>1, <3>2 DEF Survives
  <2>2. CASE m # mon \/ x # n
    <3>1. x \in DOMAIN fs'[m] /\ fs'[m][x] = fs[m][x]
      BY <1>1, <1>2, <2>2
    <3> QED  BY <1>2, <3>1, SameLines
  <2> QED  BY <2>1, <2>2
<1> QED  BY <1>2, FilesSurvive

\* A start makes its log file only if it is not there.
LEMMA BootLogKeeps ==
    ASSUME LogInv, LogTypes', BootLog
    PROVE  Erasing
<1>1. CASE UNCHANGED fs
  BY <1>1, CardKept DEF LogInv
<1>2. CASE Store(LOG_FILENAME_START, Empty) /\ LOG_FILENAME_START \notin DOMAIN fs[mon]
  <2>1. mon \in Mon
    BY DEF BootLog
  <2> QED  BY <1>2, <2>1, EmptyFile, LinesKept DEF LogInv
<1> QED  BY <1>1, <1>2 DEF BootLog, Exists

\* The file being written is written with its lines, or one more.
LEMMA WriterKeeps ==
    ASSUME LogInv, LogTypes', mon \in Mon, writing[mon] \in DOMAIN fs[mon],
           NEW f \in File, Store(writing[mon], f),
           \/ f.lines = fs[mon][writing[mon]].lines
           \/ f.lines = Append(fs[mon][writing[mon]].lines, now)
    PROVE  Erasing
<1> DEFINE g == fs[mon][writing[mon]]
<1>1. g.lines \in Seq(Int) /\ now \in Int
  BY DEF LogInv, LogTypes, File
<1>2. Begins(g.lines, f.lines)
  <2>1. f.lines = g.lines \/ f.lines = Append(g.lines, now)
    OBVIOUS
  <2> HIDE DEF g
  <2> QED  BY <1>1, <2>1 DEF Begins
<1>3. \A m \in Mon : m = mon => Begins(fs[m][writing[mon]].lines, f.lines)
  BY <1>2
<1> QED  BY <1>3, LinesKept DEF LogInv

\* A new header keeps the lines that are there.
LEMMA NewHeaderKeeps ==
    ASSUME LogInv, LogTypes', NEW from, NEW to, NewHeader(from, to),
           from \in {"boot header", "roll header", "new header"}
    PROVE  Erasing
<1> DEFINE f == [Empty EXCEPT !.ok = TRUE, !.lines = Current.lines]
<1>1. mon \in Mon /\ writing[mon] \in DOMAIN fs[mon] /\ Store(writing[mon], f)
  BY DEF NewHeader, LogInv, Place, FileWritten
<1>2. Current.lines \in Seq(Int)
  BY <1>1 DEF LogInv, LogTypes, Current, File
<1>3. f \in File
  BY <1>2, HeaderOf
<1>4. f.lines = fs[mon][writing[mon]].lines
  BY DEF Empty, Current
<1> HIDE DEF f
<1> QED  BY <1>1, <1>3, <1>4, WriterKeeps

\* The writer adds a line, counts it, or dates the file.
LEMMA UpdateKeeps ==
    ASSUME LogInv, ~ CardErrors, LogTypes', AppendLine \/ CountEntry \/ RollStamp \/ SyncStamp
    PROVE  Erasing
<1> DEFINE n == writing[mon]
           g == fs[mon][n]
<1>1. mon \in Mon /\ n \in DOMAIN fs[mon] /\ g \in File
  BY DEF AppendLine, CountEntry, RollStamp, SyncStamp, LogInv, LogTypes, Place, FileWritten
<1>2. /\ fs' = [m \in Mon |-> fs'[m]]
      /\ \A x \in DOMAIN fs'[mon] : fs'[mon][x] \in File
  BY <1>1 DEF LogTypes
<1>3. ASSUME NEW f, Store(n, f),
             f.lines = g.lines \/ f.lines = Append(g.lines, now)
      PROVE  Erasing
  <2>1. fs'[mon] = With(fs[mon], n, f)
    BY <1>1, <1>3 DEF Store, LogInv, LogTypes
  <2>2. n \in DOMAIN fs'[mon] /\ fs'[mon][n] = f
    BY <2>1 DEF With
  <2>3. f \in File
    BY <1>2, <2>2
  <2> QED  BY <1>1, <1>3, <2>3, WriterKeeps
<1>4. CASE AppendLine
  <2> DEFINE f == [g EXCEPT !.lines = Append(g.lines, now)]
  <2>1. Store(n, f)
    BY <1>4 DEF AppendLine, Current
  <2>2. f.lines = Append(g.lines, now)
    BY <1>1 DEF File
  <2> HIDE DEF f, g
  <2> QED  BY <1>3, <2>1, <2>2
<1>5. CASE CountEntry
  <2> DEFINE f == [g EXCEPT !.count = @ + 1]
  <2>1. Store(n, f)
    BY <1>5, Zenon DEF CountEntry, Current, StoreHeader
  <2>2. f.lines = g.lines
    BY <1>1 DEF File
  <2> HIDE DEF f, g
  <2> QED  BY <1>3, <2>1, <2>2
<1>6. ASSUME NEW t, Store(n, [g EXCEPT !.start = t, !.synched = TRUE])
      PROVE  Erasing
  <2> DEFINE e == [g EXCEPT !.start = t]
             f == [e EXCEPT !.synched = TRUE]
  <2>1. f = [g EXCEPT !.start = t, !.synched = TRUE]
    BY Zenon
  <2>2. e.lines = g.lines /\ DOMAIN e = DOMAIN g /\ "synched" \in DOMAIN g
    BY <1>1 DEF File
  <2>3. f.lines = e.lines
    <3> HIDE DEF e
    <3> QED  BY <2>2
  <2>4. Store(n, f)
    BY <1>6, <2>1, Zenon
  <2> HIDE DEF e, f
  <2> HIDE DEF g
  <2> QED  BY <1>3, <2>2, <2>3, <2>4
<1>7. CASE RollStamp
  BY <1>6, <1>7, Zenon DEF RollStamp, Current
<1>8. CASE SyncStamp
  BY <1>6, <1>8, Zenon DEF SyncStamp, Current, StoreHeader
<1> QED  BY <1>4, <1>5, <1>7, <1>8

\* The next file takes no file's name.
LEMMA OpenWriteKeeps ==
    ASSUME LogInv, LogTypes', RollsFree, NEW to, OpenWrite("roll", to)
    PROVE  Erasing
<1>1. pc = "roll" /\ mon \in Mon /\ Store(writing[mon], Empty)
  BY DEF OpenWrite, LogInv, Place
<1>2. writing[mon] \notin DOMAIN fs[mon]
  BY <1>1 DEF RollsFree
<1> QED  BY <1>1, <1>2, EmptyFile, LinesKept DEF LogInv

\* A file is renamed to a name that is free.
LEMMA RenameKeeps ==
    ASSUME LogInv, LogTypes', Rename
    PROVE  Erasing
<1> DEFINE n == writing[mon]
           k == newname
<1>1. /\ k \notin DOMAIN fs[mon]
      /\ fs' = [fs EXCEPT ![mon] = Renamed(fs[mon], n, k)]
      /\ mon \in Mon
  BY Zenon DEF Rename, NameTaken, Exists, LogInv, Place
<1>2. /\ fs'[mon] = Renamed(fs[mon], n, k)
      /\ \A m \in Mon \ {mon} : fs'[m] = fs[m]
  BY <1>1 DEF LogInv, LogTypes
<1>3. /\ DOMAIN fs'[mon] = (DOMAIN fs[mon] \ {n}) \cup {k}
      /\ fs'[mon][k] = fs[mon][n]
      /\ \A x \in DOMAIN fs[mon] \ {n} : fs'[mon][x] = fs[mon][x]
  BY <1>1, <1>2, ZenonT(40) DEF Renamed
<1>4. ASSUME NEW m \in Mon, NEW x \in DOMAIN fs[m]
      PROVE  Survives(m, x)
  <2>1. \E y \in DOMAIN fs'[m] : fs'[m][y] = fs[m][x]
    <3>1. CASE m = mon /\ x = n
      BY <1>3, <3>1
    <3>2. CASE m = mon /\ x # n
      BY <1>3, <3>2
    <3>3. CASE m # mon
      BY <1>2, <3>3
    <3> QED  BY <3>1, <3>2, <3>3
  <2> QED  BY <2>1, SameLines DEF LogInv
<1> QED  BY <1>4, FilesSurvive DEF LogInv

\* Marking an entry as sent keeps the lines.
LEMMA ConfirmKeeps ==
    ASSUME LogInv, LogTypes', Confirm
    PROVE  Erasing
<1>1. CASE UNCHANGED fs
  BY <1>1, CardKept DEF LogInv
<1>2. ASSUME NEW m \in Mon, fs' = [fs EXCEPT ![m][reading[m]] = Sent(@)],
             reading[m] \in DOMAIN fs[m]
      PROVE  Erasing
  <2> DEFINE r == reading[m]
             f == Sent(fs[m][r])
  <2>1. f.lines = fs[m][r].lines
    BY <1>2 DEF LogInv, LogTypes, File, Sent
  <2>2. fs' = [fs EXCEPT ![m][r] = f]
    BY <1>2
  <2> HIDE DEF f
  <2>3. /\ DOMAIN fs'[m] = DOMAIN fs[m] /\ fs'[m][r] = f
        /\ \A x \in DOMAIN fs[m] \ {r} : fs'[m][x] = fs[m][x]
        /\ \A k \in Mon \ {m} : fs'[k] = fs[k]
    BY <1>2, <2>2 DEF LogInv, LogTypes
  <2>4. ASSUME NEW k \in Mon, NEW x \in DOMAIN fs[k]
        PROVE  Survives(k, x)
    <3>1. x \in DOMAIN fs'[k] /\ fs'[k][x].lines = fs[k][x].lines
      BY <2>1, <2>3
    <3> QED  BY <3>1, SameLines DEF LogInv
  <2> QED  BY <2>4, FilesSurvive DEF LogInv
<1>3. (CHOOSE m \in sending : \A n \in sending : m <= n) \in Mon
  BY LeastMonitor DEF Confirm, LogInv, LogTypes
<1> QED  BY <1>1, <1>2, <1>3 DEF Confirm, monitor_getheader

\* Then it is not the file an entry of which is being uploaded.
LEMMA FreeRollsAway ==
    ASSUME LogInv, RollsFree
    PROVE  RollsAway
BY DEF LogInv, LogTypes, NextToSend, RollsFree, RollsAway

\* No step erases an entry the server lacks.
LEMMA NextErases ==
    ASSUME ~ CardErrors, ~ WriteFailures, LogInv, RollsFree, [Next]_vars
    PROVE  Erasing
<1>1. LogTypes /\ LogTypes'
  BY NextLog, FreeRollsAway DEF LogInv
<1>2. CASE UNCHANGED fs
  BY <1>1, <1>2, CardKept
<1>3. pc \notin {"recreate", "new header"}
  BY DEF LogInv, Place
<1>4. CASE Boot
  <2>1. BootRead \/ BootNext \/ OpenMeta("boot open", "boot write")
          \/ WriteMeta("boot write", "booted") => UNCHANGED fs
    BY DEF BootRead, BootNext, OpenMeta, WriteMeta, disk
  <2> QED  BY <1>1, <1>2, <1>4, <2>1, BootLogKeeps, NewHeaderKeeps DEF Boot
<1>5. CASE Write
  <2>1. (\E m \in Mon : Sample(m)) => UNCHANGED fs
    BY DEF Sample, disk
  <2>2. ~ OpenWrite("recreate", "new header")
    BY <1>3 DEF OpenWrite
  <2> QED  BY <1>1, <1>2, <1>5, <2>1, <2>2, NewHeaderKeeps, UpdateKeeps, OpenWriteKeeps
           DEF Write, LineRefused, HeaderFails
<1>6. CASE Sync
  <2>1. SyncUnread \/ SyncFails \/ RenameFails \/ OpenMeta("sync open", "sync write")
          \/ WriteMeta("sync write", "idle") => UNCHANGED fs
    BY DEF SyncUnread, SyncFails, RenameFails, OpenMeta, WriteMeta, disk
  <2> QED  BY <1>1, <1>2, <1>6, <2>1, UpdateKeeps, RenameKeeps DEF Sync, DateAgain
<1>7. CASE Read
  BY <1>2, <1>7 DEF Read, StartRead, ReadEntry, SwitchFile, SwitchDone, ReadNothing, EndRead,
     OpenMeta, WriteMeta, disk
<1>8. CASE Send
  <2>1. Retry \/ SendOk \/ ConfirmDone \/ (\E arrives \in BOOLEAN : SendFails(arrives))
          => UNCHANGED fs
    BY DEF Retry, SendOk, ConfirmDone, SendFails, disk
  <2> QED  BY <1>1, <1>2, <1>8, <2>1, ConfirmKeeps DEF Send
<1>9. CASE Tick \/ Crash \/ (\E m \in Mon : SampleLost(m)) \/ UNCHANGED vars
  BY <1>2, <1>9 DEF Tick, Crash, SampleLost, vars, disk
<1> QED  BY <1>4, <1>5, <1>6, <1>7, <1>8, <1>9 DEF Next

\* If headers can be read, every entry is taken and a rollover takes no file's name,
\* the inductive invariant holds and no step erases an entry the server lacks.
LEMMA FreeKeepsEntries ==
    ASSUME ~ CardErrors, ~ WriteFailures
    PROVE  Spec /\ []RollsFree => []LogInv /\ NothingErased
<1>1. LogInv /\ RollsFree /\ [Next]_vars => LogInv'
  BY NextLog, FreeRollsAway
<1>2. LogInv /\ RollsFree /\ [Next]_vars =>
        [\A m \in Mon : OnDisk(m) \subseteq OnDisk(m)' \cup AtServer(m)']_vars
  BY NextErases DEF Erasing
<1> QED  BY <1>1, <1>2, InitLog, PTL DEF Spec, NothingErased

-----------------------------------------------------------------------------
\* The names, in memory and on the card, without any premise.

NamesTypes ==
    /\ fs = [m \in Mon |-> fs[m]] /\ metafile = [m \in Mon |-> metafile[m]]
    /\ writing = [m \in Mon |-> writing[m]] /\ reading = [m \in Mon |-> reading[m]]
    /\ mon \in 0 .. num_monitores + 1
    /\ pc \notin {"read", "confirm", "send", "idle"} => mon \in Mon

\* When monitor m has a log file, a file to read, and a metafile.txt that names it.
HasLog(m) ==
    IF pc \in Booting THEN m < mon \/ (m = mon /\ pc # "boot")
                      ELSE m # mon \/ pc # "roll"
HasReader(m) ==
    pc \in Booting => m < mon \/ (m = mon /\ pc \in {"boot open", "boot write", "booted"})
Recorded(m) ==
    IF pc \in Booting
    THEN m < mon \/ (m = mon /\ pc = "booted")
    ELSE m # mon \/ pc \notin {"sync open", "sync write", "switch open", "switch write"}

NamesFound(m) ==
    /\ HasLog(m)    => writing[m] \in DOMAIN fs[m]
    /\ HasReader(m) => reading[m] \in DOMAIN fs[m]
    /\ Recorded(m)  => metafile[m] = reading[m]

NamesInv == NamesTypes /\ \A m \in Mon : NamesFound(m)

\* The operations that write a file of the monitor, or none.
LEMMA StoreGrows ==
    ASSUME NamesTypes, mon \in Mon, NEW n, NEW f, Store(n, f) \/ UNCHANGED fs
    PROVE  /\ fs' = [m \in Mon |-> fs'[m]]
           /\ \A m \in Mon : DOMAIN fs[m] \subseteq DOMAIN fs'[m]
           /\ Store(n, f) => n \in DOMAIN fs'[mon]
<1>1. CASE Store(n, f)
  <2>1. /\ fs' = [m \in Mon |-> fs'[m]]
        /\ fs'[mon] = With(fs[mon], n, f)
        /\ \A m \in Mon \ {mon} : fs'[m] = fs[m]
    BY <1>1 DEF Store, NamesTypes
  <2>2. DOMAIN fs'[mon] = DOMAIN fs[mon] \cup {n}
    BY <2>1 DEF With
  <2>3. \A m \in Mon : DOMAIN fs[m] \subseteq DOMAIN fs'[m]
    BY <2>1, <2>2
  <2> QED  BY <2>1, <2>2, <2>3
<1>2. CASE UNCHANGED fs /\ ~ Store(n, f)
  BY <1>2 DEF NamesTypes
<1> QED  BY <1>1, <1>2

\* The log file is there after the first step of a start, the file to read after
\* the second, the metafile after that.
LEMMA BootNames ==
    ASSUME NamesInv, Boot
    PROVE  NamesInv'
<1>1. mon \in Mon /\ mon \in Nat /\ \A m \in Mon : m \in Nat
  <2>1. pc \in {"boot", "meta", "booted", "boot header", "boot open", "boot write"}
    BY Zenon DEF Boot, BootLog, BootRead, BootNext, NewHeader, OpenMeta, WriteMeta
  <2>2. mon \in Mon
    BY <2>1 DEF NamesInv, NamesTypes
  <2>3. \A m \in Mon : m \in Nat
    BY MonitorAssumption DEF Mon
  <2> QED  BY <2>2, <2>3
<1>2. CASE BootLog
  <2>1. /\ pc = "boot" /\ pc' \in {"meta", "boot header"} /\ mon' = mon
        /\ writing' = [writing EXCEPT ![mon] = LOG_FILENAME_START]
        /\ \/ UNCHANGED fs /\ LOG_FILENAME_START \in DOMAIN fs[mon]
           \/ Store(LOG_FILENAME_START, Empty)
        /\ UNCHANGED <<metafile, reading>>
    BY <1>2 DEF BootLog, Goto, Exists
  <2>2. /\ fs' = [m \in Mon |-> fs'[m]]
        /\ \A m \in Mon : DOMAIN fs[m] \subseteq DOMAIN fs'[m]
        /\ LOG_FILENAME_START \in DOMAIN fs'[mon]
    BY <1>1, <2>1, StoreGrows DEF NamesInv
  <2>3. /\ writing' = [m \in Mon |-> writing'[m]]
        /\ writing'[mon] = LOG_FILENAME_START
        /\ \A m \in Mon \ {mon} : writing'[m] = writing[m]
    BY <1>1, <2>1 DEF NamesInv, NamesTypes
  <2>4. NamesTypes'
    BY <1>1, <2>1, <2>2, <2>3 DEF NamesInv, NamesTypes
  <2>5. ASSUME NEW m \in Mon PROVE NamesFound(m)'
    BY <1>1, <2>1, <2>2, <2>3
       DEF NamesInv, NamesFound, HasLog, HasReader, Recorded, Booting
  <2> QED  BY <2>4, <2>5 DEF NamesInv
<1>3. CASE BootRead
  <2>1. /\ pc = "meta" /\ mon' = mon /\ UNCHANGED <<fs, metafile, writing>>
        /\ \/ /\ metafile[mon] \in DOMAIN fs[mon] /\ pc' = "booted"
              /\ reading' = [reading EXCEPT ![mon] = metafile[mon]]
           \/ pc' = "boot open" /\ reading' = [reading EXCEPT ![mon] = writing[mon]]
    BY <1>3 DEF BootRead, Goto, Exists, disk
  <2>2. /\ reading' = [m \in Mon |-> reading'[m]]
        /\ \A m \in Mon \ {mon} : reading'[m] = reading[m]
        /\ \/ metafile[mon] \in DOMAIN fs[mon] /\ pc' = "booted" /\ reading'[mon] = metafile[mon]
           \/ pc' = "boot open" /\ reading'[mon] = writing[mon]
    BY <1>1, <2>1 DEF NamesInv, NamesTypes
  <2>3. NamesTypes'
    BY <1>1, <2>1, <2>2 DEF NamesInv, NamesTypes
  <2>4. ASSUME NEW m \in Mon PROVE NamesFound(m)'
    <3>1. CASE m = mon
      <4>1. writing[mon] \in DOMAIN fs[mon]
        BY <1>1, <2>1 DEF NamesInv, NamesFound, HasLog, Booting
      <4>2. writing'[m] \in DOMAIN fs'[m] /\ reading'[m] \in DOMAIN fs'[m]
        BY <2>1, <2>2, <3>1, <4>1
      <4>3. Recorded(m)' => metafile'[m] = reading'[m]
        <5>1. m \in Nat /\ mon' \in Nat /\ mon' = m
          BY <1>1, <2>1, <3>1
        <5>2. Recorded(m)' => pc' = "booted"
          <6>1. pc' \in Booting
            BY <2>2 DEF Booting
          <6>2. ~ (m < mon')
            BY <5>1
          <6> QED  BY <6>1, <6>2 DEF Recorded
        <5>3. pc' = "booted" => metafile'[m] = reading'[m]
          BY <2>1, <2>2, <3>1
        <5> QED  BY <5>2, <5>3
      <4> QED  BY <4>2, <4>3 DEF NamesFound
    <3>2. CASE m # mon
      BY <1>1, <2>1, <2>2, <3>2
         DEF NamesInv, NamesFound, HasLog, HasReader, Recorded, Booting
    <3> QED  BY <3>1, <3>2
  <2> QED  BY <2>3, <2>4 DEF NamesInv
<1>4. CASE BootNext
  <2>1. /\ pc = "booted" /\ UNCHANGED <<fs, metafile, writing, reading>>
        /\ \/ mon < num_monitores /\ mon' = mon + 1 /\ pc' = "boot"
           \/ mon = num_monitores /\ mon' = 0 /\ pc' = "idle"
    BY <1>4 DEF BootNext, disk, names
  <2>2. (pc' = "boot" => mon' \in Mon) /\ mon' \in 0 .. num_monitores + 1
    BY <1>1, <2>1, MonitorAssumption DEF Mon
  <2>3. NamesTypes'
    BY <2>1, <2>2 DEF NamesInv, NamesTypes
  <2>4. ASSUME NEW m \in Mon PROVE NamesFound(m)'
    <3>1. pc' = "idle" => m <= mon
      BY <2>1, MonitorAssumption DEF Mon
    <3>2. pc' = "boot" => (m < mon' <=> m <= mon)
      BY <1>1, <2>1
    <3>3. m <= mon => m < mon \/ m = mon
      BY <1>1
    <3> QED  BY <2>1, <3>1, <3>2, <3>3
             DEF NamesInv, NamesFound, HasLog, HasReader, Recorded, Booting
  <2> QED  BY <2>3, <2>4 DEF NamesInv
<1>5. CASE NewHeader("boot header", "meta")
  <2>1. /\ pc = "boot header" /\ pc' = "meta" /\ mon' = mon
        /\ UNCHANGED <<metafile, writing, reading>>
        /\ \E f : Store(writing[mon], f)
    BY <1>5 DEF NewHeader, Goto, names
  <2>2. /\ fs' = [m \in Mon |-> fs'[m]]
        /\ \A m \in Mon : DOMAIN fs[m] \subseteq DOMAIN fs'[m]
    BY <1>1, <2>1, StoreGrows DEF NamesInv
  <2>3. NamesTypes'
    BY <1>1, <2>1, <2>2 DEF NamesInv, NamesTypes
  <2>4. ASSUME NEW m \in Mon PROVE NamesFound(m)'
    BY <1>1, <2>1, <2>2 DEF NamesInv, NamesFound, HasLog, HasReader, Recorded, Booting
  <2> QED  BY <2>3, <2>4 DEF NamesInv
<1>6. CASE OpenMeta("boot open", "boot write") \/ WriteMeta("boot write", "booted")
  <2>1. /\ mon' = mon /\ UNCHANGED <<fs, writing, reading>>
        /\ \/ /\ pc = "boot open" /\ pc' = "boot write"
              /\ metafile' = [metafile EXCEPT ![mon] = NoName]
           \/ /\ pc = "boot write" /\ pc' = "booted"
              /\ metafile' = [metafile EXCEPT ![mon] = reading[mon]]
    BY <1>6 DEF OpenMeta, WriteMeta, Goto, names
  <2>2. /\ metafile' = [m \in Mon |-> metafile'[m]]
        /\ \A m \in Mon \ {mon} : metafile'[m] = metafile[m]
        /\ pc' = "booted" => metafile'[mon] = reading[mon]
    BY <1>1, <2>1 DEF NamesInv, NamesTypes
  <2>3. NamesTypes'
    BY <1>1, <2>1, <2>2 DEF NamesInv, NamesTypes
  <2>4. ASSUME NEW m \in Mon PROVE NamesFound(m)'
    <3>1. NamesFound(m)
      BY DEF NamesInv
    <3>2. (HasLog(m)' <=> HasLog(m)) /\ (HasReader(m)' <=> HasReader(m))
      BY <2>1 DEF HasLog, HasReader, Booting
    <3>3. Recorded(m)' => metafile'[m] = reading'[m]
      <4>1. CASE m = mon
        <5>1. m \in Nat /\ mon' \in Nat /\ mon' = m
          BY <1>1, <2>1, <4>1
        <5>2. Recorded(m)' => pc' = "booted"
          <6>1. pc' \in Booting
            BY <2>1 DEF Booting
          <6>2. ~ (m < mon')
            BY <5>1
          <6> QED  BY <6>1, <6>2 DEF Recorded
        <5>3. pc' = "booted" => metafile'[m] = reading'[m]
          BY <2>1, <2>2, <4>1
        <5> QED  BY <5>2, <5>3
      <4>2. CASE m # mon
        <5>1. Recorded(m)' => Recorded(m)
          BY <2>1, <4>2 DEF Recorded, Booting
        <5>2. metafile'[m] = metafile[m] /\ reading'[m] = reading[m]
          BY <2>1, <2>2, <4>2
        <5> QED  BY <3>1, <5>1, <5>2 DEF NamesFound
      <4> QED  BY <4>1, <4>2
    <3> QED  BY <2>1, <3>1, <3>2, <3>3 DEF NamesFound
  <2> QED  BY <2>3, <2>4 DEF NamesInv
<1> QED  BY <1>2, <1>3, <1>4, <1>5, <1>6 DEF Boot

\* Afterwards a step that takes no file away and changes no name finds them all.
LEMMA SameNames ==
    ASSUME NamesInv, UNCHANGED <<metafile, writing, reading>>,
           fs' = [m \in Mon |-> fs'[m]],
           \A m \in Mon : DOMAIN fs[m] \subseteq DOMAIN fs'[m],
           pc \notin Booting, pc' \notin Booting,
           mon' \in 0 .. num_monitores + 1,
           pc' \notin {"read", "confirm", "send", "idle"} => mon' \in Mon,
           pc = "roll" => mon' = mon /\ (pc' = "roll" \/ writing[mon] \in DOMAIN fs'[mon]),
           pc \notin {"sync open", "sync write", "switch open", "switch write"}
    PROVE  NamesInv'
<1>1. NamesTypes'
  BY DEF NamesInv, NamesTypes
<1>2. ASSUME NEW m \in Mon PROVE NamesFound(m)'
  <2>1. CASE pc = "roll" /\ m = mon
    BY <2>1 DEF NamesInv, NamesFound, HasLog, HasReader, Recorded
  <2>2. CASE pc # "roll" \/ m # mon
    BY <2>2 DEF NamesInv, NamesFound, HasLog, HasReader, Recorded
  <2> QED  BY <2>1, <2>2
<1> QED  BY <1>1, <1>2 DEF NamesInv

\* Every operation of the writer is on a file it has just found or makes.
LEMMA WriteNames ==
    ASSUME NamesInv, Write
    PROVE  NamesInv'
<1>1. CASE \E m \in Mon : Sample(m)
  <2>1. /\ pc = "idle" /\ pc' \in {"append", "recreate"} /\ mon' \in Mon
        /\ UNCHANGED <<fs, metafile, writing, reading>>
    BY <1>1 DEF Sample, disk, names
  <2>2. mon' \in 0 .. num_monitores + 1
    BY <2>1, MonitorAssumption DEF Mon
  <2>3. fs' = [m \in Mon |-> fs'[m]] /\ \A m \in Mon : DOMAIN fs[m] \subseteq DOMAIN fs'[m]
    BY <2>1 DEF NamesInv, NamesTypes
  <2> QED  BY <2>1, <2>2, <2>3, SameNames, Zenon DEF Booting
<1>2. ASSUME NEW from, NEW to, pc = from, pc' = to, mon' = mon,
             NEW f, Store(writing[mon], f) \/ (from # "roll" /\ UNCHANGED fs),
             UNCHANGED <<metafile, writing, reading>>,
             from \in {"recreate", "new header", "append", "roll", "roll header",
                       "roll stamp", "count", "sync"},
             to \in {"new header", "append", "count", "roll header", "roll stamp",
                     "idle", "sync", "rename"}
      PROVE  NamesInv'
  <2>1. mon \in Mon
    BY <1>2 DEF NamesInv, NamesTypes
  <2>2. /\ fs' = [m \in Mon |-> fs'[m]]
        /\ \A m \in Mon : DOMAIN fs[m] \subseteq DOMAIN fs'[m]
        /\ pc = "roll" => writing[mon] \in DOMAIN fs'[mon]
    BY <1>2, <2>1, StoreGrows DEF NamesInv
  <2>3. /\ pc \notin Booting /\ pc' \notin Booting
        /\ pc \notin {"sync open", "sync write", "switch open", "switch write"}
    BY <1>2 DEF Booting
  <2>4. mon' \in 0 .. num_monitores + 1
    BY <1>2 DEF NamesInv, NamesTypes
  <2> QED  BY <1>2, <2>1, <2>2, <2>3, <2>4, SameNames, Zenon
<1>3. CASE \/ OpenWrite("recreate", "new header") \/ NewHeader("new header", "append")
           \/ OpenWrite("roll", "roll header") \/ NewHeader("roll header", "roll stamp")
  <2>1. /\ mon' = mon /\ UNCHANGED <<metafile, writing, reading>>
        /\ \E f : Store(writing[mon], f)
        /\ \/ pc = "recreate" /\ pc' = "new header"
           \/ pc = "new header" /\ pc' = "append"
           \/ pc = "roll" /\ pc' = "roll header"
           \/ pc = "roll header" /\ pc' = "roll stamp"
    BY <1>3, Zenon DEF OpenWrite, NewHeader, Goto, names
  <2>2. PICK f : Store(writing[mon], f)
    BY <2>1
  <2> QED  BY <1>2, <2>1, <2>2, Zenon
<1>4. CASE AppendLine
  <2>1. PICK f : f = [Current EXCEPT !.lines = Append(@, now)]
    OBVIOUS
  <2>2. Store(writing[mon], f)
    BY <1>4, <2>1 DEF AppendLine
  <2> QED  BY <1>2, <1>4, <2>2, Zenon DEF AppendLine, Goto, names
<1>5. CASE RollStamp
  <2>1. PICK f : f = [Current EXCEPT !.start = clock, !.synched = TRUE]
    OBVIOUS
  <2>2. Store(writing[mon], f)
    BY <1>5, <2>1, Zenon DEF RollStamp
  <2>3. pc = "roll stamp" /\ pc' = "idle" /\ mon' = mon /\ UNCHANGED <<metafile, writing, reading>>
    BY <1>5, Zenon DEF RollStamp, Goto, names
  <2> QED  BY <1>2, <2>2, <2>3, Zenon
<1>6. CASE CountEntry
  <2> DEFINE n == writing[mon]
  <2>1. PICK h : h = [Current EXCEPT !.count = @ + 1]
    OBVIOUS
  <2>2. /\ pc = "count" /\ mon' = mon /\ (Store(n, h) \/ UNCHANGED fs)
        /\ UNCHANGED <<metafile, reading>>
        /\ \/ /\ Full(h.count) /\ pc' = "roll"
              /\ writing' = [writing EXCEPT ![mon] = Hour(clock)]
           \/ /\ pc' \in {"idle", "sync"}
              /\ writing' = [writing EXCEPT ![mon] = n]
    BY <1>6, <2>1, Zenon DEF CountEntry, StoreHeader, Goto
  <2>3. mon \in Mon
    BY <2>2 DEF NamesInv, NamesTypes
  <2>4. CASE pc' \in {"idle", "sync"} /\ writing' = [writing EXCEPT ![mon] = n]
    <3>1. UNCHANGED writing
      BY <2>3, <2>4 DEF NamesInv, NamesTypes
    <3>2. pc' \in {"new header", "append", "count", "roll header", "roll stamp",
                   "idle", "sync", "rename"}
      BY <2>4
    <3>3. pc \in {"recreate", "new header", "append", "roll", "roll header",
                  "roll stamp", "count", "sync"}
      BY <2>2
    <3>4. Store(n, h) \/ (pc # "roll" /\ UNCHANGED fs)
      BY <2>2
    <3> QED  BY <1>2, <2>2, <3>1, <3>2, <3>3, <3>4, Zenon
  <2>5. CASE pc' = "roll" /\ writing' = [writing EXCEPT ![mon] = Hour(clock)]
    <3>1. /\ fs' = [m \in Mon |-> fs'[m]]
          /\ \A m \in Mon : DOMAIN fs[m] \subseteq DOMAIN fs'[m]
      BY <2>2, <2>3, StoreGrows DEF NamesInv
    <3>2. /\ writing' = [m \in Mon |-> writing'[m]]
          /\ \A m \in Mon \ {mon} : writing'[m] = writing[m]
      BY <2>3, <2>5 DEF NamesInv, NamesTypes
    <3>3. NamesTypes'
      BY <2>2, <2>3, <3>1, <3>2 DEF NamesInv, NamesTypes
    <3>4. ASSUME NEW m \in Mon PROVE NamesFound(m)'
      <4>1. /\ reading[m] \in DOMAIN fs[m] /\ metafile[m] = reading[m]
            /\ m # mon => writing[m] \in DOMAIN fs[m]
        BY <2>2 DEF NamesInv, NamesFound, HasLog, HasReader, Recorded, Booting
      <4>2. HasLog(m)' => m # mon
        BY <2>2, <2>5 DEF HasLog, Booting
      <4> QED  BY <2>2, <3>1, <3>2, <4>1, <4>2 DEF NamesFound
    <3> QED  BY <3>3, <3>4 DEF NamesInv
  <2> QED  BY <2>2, <2>4, <2>5
<1>7. CASE LineRefused \/ HeaderFails
  <2>1. /\ pc \in {"append", "new header", "roll header", "roll stamp"}
        /\ pc' \in {"count", "idle", "sync"} /\ mon' = mon
        /\ UNCHANGED <<fs, metafile, writing, reading>>
    BY <1>7 DEF LineRefused, HeaderFails, Goto, disk, names
  <2> QED  BY <1>2, <2>1, Zenon
<1> QED  BY <1>1, <1>3, <1>4, <1>5, <1>6, <1>7 DEF Write

\* Opening and writing metafile.txt after a start.
LEMMA MetaNames ==
    ASSUME NamesInv, NEW from, NEW to, OpenMeta(from, to) \/ WriteMeta(from, to),
           \/ from = "sync open" /\ to = "sync write" /\ OpenMeta(from, to)
           \/ from = "sync write" /\ to = "idle" /\ WriteMeta(from, to)
           \/ from = "switch open" /\ to = "switch write" /\ OpenMeta(from, to)
           \/ from = "switch write" /\ to = "switched" /\ WriteMeta(from, to)
    PROVE  NamesInv'
<1>1. /\ pc = from /\ pc' = to /\ mon' = mon /\ UNCHANGED <<fs, writing, reading>>
      /\ \/ metafile' = [metafile EXCEPT ![mon] = NoName]
         \/ metafile' = [metafile EXCEPT ![mon] = reading[mon]]
      /\ pc' \in {"idle", "switched"} => metafile' = [metafile EXCEPT ![mon] = reading[mon]]
  BY DEF OpenMeta, WriteMeta, Goto, names
<1>2. mon \in Mon
  BY <1>1 DEF NamesInv, NamesTypes
<1>3. /\ metafile' = [m \in Mon |-> metafile'[m]]
      /\ \A m \in Mon \ {mon} : metafile'[m] = metafile[m]
      /\ pc' \in {"idle", "switched"} => metafile'[mon] = reading[mon]
  BY <1>1, <1>2 DEF NamesInv, NamesTypes
<1>4. NamesTypes'
  BY <1>1, <1>2, <1>3 DEF NamesInv, NamesTypes
<1>5. ASSUME NEW m \in Mon PROVE NamesFound(m)'
  <2>1. /\ reading[m] \in DOMAIN fs[m] /\ writing[m] \in DOMAIN fs[m]
        /\ m # mon => metafile[m] = reading[m]
    BY <1>1 DEF NamesInv, NamesFound, HasLog, HasReader, Recorded, Booting
  <2>2. Recorded(m)' => m # mon \/ pc' \in {"idle", "switched"}
    BY <1>1 DEF Recorded, Booting
  <2> QED  BY <1>1, <1>3, <2>1, <2>2 DEF NamesFound
<1> QED  BY <1>4, <1>5 DEF NamesInv

\* A renamed file keeps its place in the names.
LEMMA SyncNames ==
    ASSUME NamesInv, Sync
    PROVE  NamesInv'
<1>1. CASE SyncUnread \/ SyncFails \/ RenameFails
  <2>1. /\ pc \in {"sync", "rename"} /\ pc' \in {"idle", "rename"} /\ mon' = mon
        /\ pc' = "rename" => pc = "rename"
        /\ UNCHANGED <<fs, metafile, writing, reading>>
    BY <1>1 DEF SyncUnread, SyncFails, RenameFails, Goto, disk, names
  <2>2. /\ fs' = [m \in Mon |-> fs'[m]] /\ \A m \in Mon : DOMAIN fs[m] \subseteq DOMAIN fs'[m]
        /\ mon \in Mon /\ mon' \in 0 .. num_monitores + 1
    BY <2>1 DEF NamesInv, NamesTypes
  <2> QED  BY <2>1, <2>2, SameNames, Zenon DEF Booting
<1>2. CASE SyncStamp
  <2>1. PICK f : f = [Current EXCEPT !.start = now' - TimeElapsed, !.synched = TRUE]
    OBVIOUS
  <2>2. Store(writing[mon], f) \/ UNCHANGED fs
    BY <1>2, <2>1, Zenon DEF SyncStamp, StoreHeader
  <2>3. /\ pc = "sync" /\ pc' = "rename" /\ mon' = mon
        /\ UNCHANGED <<metafile, writing, reading>>
    BY <1>2, Zenon DEF SyncStamp, Goto, names
  <2>4. mon \in Mon /\ mon' \in 0 .. num_monitores + 1
    BY <2>3 DEF NamesInv, NamesTypes
  <2>5. fs' = [m \in Mon |-> fs'[m]] /\ \A m \in Mon : DOMAIN fs[m] \subseteq DOMAIN fs'[m]
    BY <2>2, <2>4, StoreGrows DEF NamesInv
  <2> QED  BY <2>3, <2>4, <2>5, SameNames, Zenon DEF Booting
<1>4. CASE DateAgain
  <2>1. PICK f : f = [Current EXCEPT !.start = now - TimeElapsed, !.synched = TRUE]
    OBVIOUS
  <2>2. /\ Store(writing[mon], f)
        /\ pc = "rename" /\ pc' = "rename" /\ mon' = mon
        /\ UNCHANGED <<metafile, writing, reading>>
    BY <1>4, <2>1, Zenon DEF DateAgain, names
  <2>3. mon \in Mon /\ mon' \in 0 .. num_monitores + 1
    BY <2>2 DEF NamesInv, NamesTypes
  <2>4. fs' = [m \in Mon |-> fs'[m]] /\ \A m \in Mon : DOMAIN fs[m] \subseteq DOMAIN fs'[m]
    BY <2>2, <2>3, StoreGrows DEF NamesInv
  <2> QED  BY <2>2, <2>3, <2>4, SameNames, Zenon DEF Booting
<1>3. CASE Rename
  <2> DEFINE n == writing[mon]
             k == newname
  <2>1. /\ pc = "rename" /\ mon' = mon /\ UNCHANGED metafile
        /\ fs' = [fs EXCEPT ![mon] = Renamed(fs[mon], n, k)]
        /\ writing' = [writing EXCEPT ![mon] = k]
        /\ reading' = [reading EXCEPT ![mon] = IF reading[mon] = n THEN k ELSE reading[mon]]
        /\ pc' = IF reading[mon] = n THEN "sync open" ELSE "idle"
    BY <1>3, Zenon DEF Rename, Goto, SameFile
  <2>2. mon \in Mon
    BY <2>1 DEF NamesInv, NamesTypes
  <2>3. /\ fs' = [m \in Mon |-> fs'[m]] /\ fs'[mon] = Renamed(fs[mon], n, k)
        /\ \A m \in Mon \ {mon} : fs'[m] = fs[m]
    BY <2>1, <2>2 DEF NamesInv, NamesTypes
  <2>4. /\ writing' = [m \in Mon |-> writing'[m]] /\ writing'[mon] = k
        /\ \A m \in Mon \ {mon} : writing'[m] = writing[m]
    BY <2>1, <2>2 DEF NamesInv, NamesTypes
  <2>5. /\ reading' = [m \in Mon |-> reading'[m]]
        /\ reading'[mon] = IF reading[mon] = n THEN k ELSE reading[mon]
        /\ \A m \in Mon \ {mon} : reading'[m] = reading[m]
    BY <2>1, <2>2 DEF NamesInv, NamesTypes
  <2>6. DOMAIN fs'[mon] = (DOMAIN fs[mon] \ {n}) \cup {k}
    BY <2>3 DEF Renamed
  <2>7. NamesTypes'
    BY <2>1, <2>2, <2>3, <2>4, <2>5 DEF NamesInv, NamesTypes
  <2>8. ASSUME NEW m \in Mon PROVE NamesFound(m)'
    <3>1. /\ reading[m] \in DOMAIN fs[m] /\ writing[m] \in DOMAIN fs[m]
          /\ metafile[m] = reading[m]
      BY <2>1 DEF NamesInv, NamesFound, HasLog, HasReader, Recorded, Booting
    <3>2. CASE m # mon
      BY <2>1, <2>3, <2>4, <2>5, <3>1, <3>2 DEF NamesFound
    <3>3. CASE m = mon
      <4>1. writing'[m] \in DOMAIN fs'[m] /\ reading'[m] \in DOMAIN fs'[m]
        BY <2>2, <2>4, <2>5, <2>6, <3>1, <3>3
      <4>2. Recorded(m)' => pc' # "sync open"
        BY <2>1, <3>3 DEF Recorded, Booting
      <4>3. pc' # "sync open" => metafile'[m] = reading'[m]
        BY <2>1, <2>5, <3>1, <3>3
      <4> QED  BY <4>1, <4>2, <4>3 DEF NamesFound
    <3> QED  BY <3>2, <3>3
  <2> QED  BY <2>7, <2>8 DEF NamesInv
<1> QED  BY <1>1, <1>2, <1>3, <1>4, MetaNames DEF Sync

\* A reader that changes its file goes to the one being written.
LEMMA ReadNames ==
    ASSUME NamesInv, Read
    PROVE  NamesInv'
<1>1. CASE StartRead \/ ReadEntry \/ ReadNothing \/ EndRead \/ SwitchDone
  <2>1. /\ pc \in {"idle", "read", "switched"} /\ pc' \in {"read", "send", "idle"}
        /\ UNCHANGED <<fs, metafile, writing, reading>>
    BY <1>1 DEF StartRead, ReadersTurn, ReadEntry, ReadNothing, EndRead, SwitchDone, NextRead,
       Reading, disk, names
  <2>2. mon' \in {0, 1} \/ (mon' = mon + 1 /\ mon \in Mon)
    BY <1>1 DEF StartRead, ReadEntry, ReadNothing, EndRead, SwitchDone, NextRead, Reading,
       NamesInv, NamesTypes
  <2>3. mon' \in 0 .. num_monitores + 1
    BY <2>2, MonitorAssumption DEF Mon
  <2>4. fs' = [m \in Mon |-> fs'[m]] /\ \A m \in Mon : DOMAIN fs[m] \subseteq DOMAIN fs'[m]
    BY <2>1 DEF NamesInv, NamesTypes
  <2> QED  BY <2>1, <2>3, <2>4, SameNames, Zenon DEF Booting
<1>2. CASE SwitchFile
  <2>1. /\ pc = "read" /\ pc' = "switch open" /\ mon' = mon /\ mon \in Mon
        /\ reading' = [reading EXCEPT ![mon] = writing[mon]]
        /\ UNCHANGED <<fs, metafile, writing>>
    BY <1>2 DEF SwitchFile, Reading, Goto, disk
  <2>2. /\ reading' = [m \in Mon |-> reading'[m]] /\ reading'[mon] = writing[mon]
        /\ \A m \in Mon \ {mon} : reading'[m] = reading[m]
    BY <2>1 DEF NamesInv, NamesTypes
  <2>3. NamesTypes'
    BY <2>1, <2>2 DEF NamesInv, NamesTypes
  <2>4. ASSUME NEW m \in Mon PROVE NamesFound(m)'
    <3>1. /\ reading[m] \in DOMAIN fs[m] /\ writing[m] \in DOMAIN fs[m]
          /\ metafile[m] = reading[m]
      BY <2>1 DEF NamesInv, NamesFound, HasLog, HasReader, Recorded, Booting
    <3>2. Recorded(m)' => m # mon
      BY <2>1 DEF Recorded, Booting
    <3> QED  BY <2>1, <2>2, <3>1, <3>2 DEF NamesFound
  <2> QED  BY <2>3, <2>4 DEF NamesInv
<1> QED  BY <1>1, <1>2, MetaNames DEF Read

\* The upload changes no name and takes no file away.
LEMMA SendNames ==
    ASSUME NamesInv, Send
    PROVE  NamesInv'
<1>1. /\ pc \in {"idle", "send", "confirm"} /\ pc' \in {"send", "confirm", "idle"}
      /\ mon' \in {0, mon} /\ UNCHANGED <<metafile, writing, reading>>
  BY Zenon DEF Send, Retry, ReadersTurn, SendOk, SendFails, Confirm, ConfirmDone, Goto, disk,
     names
<1>2. fs' = [m \in Mon |-> fs'[m]] /\ \A m \in Mon : DOMAIN fs[m] \subseteq DOMAIN fs'[m]
  <2>1. CASE UNCHANGED fs
    BY <2>1 DEF NamesInv, NamesTypes
  <2>2. ASSUME NEW m, NEW v, fs' = [fs EXCEPT ![m] = v], DOMAIN v = DOMAIN fs[m]
        PROVE  fs' = [k \in Mon |-> fs'[k]] /\ \A k \in Mon : DOMAIN fs[k] \subseteq DOMAIN fs'[k]
    BY <2>2 DEF NamesInv, NamesTypes
  <2>3. CASE Confirm
    <3>1. PICK m : m = CHOOSE k \in sending : \A n \in sending : k <= n
      OBVIOUS
    <3>2. fs' = [fs EXCEPT ![m][reading[m]] = Sent(@)] \/ UNCHANGED fs
      BY <2>3, <3>1, Zenon DEF Confirm
    <3>3. PICK v : v = [fs[m] EXCEPT ![reading[m]] = Sent(@)]
      OBVIOUS
    <3>4. fs' = [fs EXCEPT ![m] = v] \/ UNCHANGED fs
      BY <3>2, <3>3
    <3>5. DOMAIN v = DOMAIN fs[m]
      BY <3>3
    <3> QED  BY <2>1, <2>2, <3>4, <3>5
  <2> QED  BY <2>1, <2>3 DEF Send, Retry, SendOk, SendFails, ConfirmDone, disk
<1>3. mon' \in 0 .. num_monitores + 1
  BY <1>1, MonitorAssumption DEF NamesInv, NamesTypes
<1> QED  BY <1>1, <1>2, <1>3, SameNames, Zenon DEF Booting

\* A power failure leaves the card, and nothing is claimed of it until a start
\* has found its files.
LEMMA CrashNames ==
    ASSUME NamesInv, Crash
    PROVE  NamesInv'
<1>1. /\ pc' = "boot" /\ mon' = 1 /\ UNCHANGED <<fs, metafile>>
      /\ writing' = [m \in Mon |-> NoName] /\ reading' = [m \in Mon |-> NoName]
  BY DEF Crash, disk
<1>2. 1 \in Mon /\ 1 \in 0 .. num_monitores + 1 /\ \A m \in Mon : ~ (m < 1)
  BY MonitorAssumption DEF Mon
<1>3. /\ writing' = [m \in Mon |-> writing'[m]] /\ reading' = [m \in Mon |-> reading'[m]]
  BY <1>1
<1>4. NamesTypes'
  BY <1>1, <1>2, <1>3 DEF NamesInv, NamesTypes
<1>5. ASSUME NEW m \in Mon PROVE NamesFound(m)'
  BY <1>1, <1>2 DEF NamesFound, HasLog, HasReader, Recorded, Booting
<1> QED  BY <1>4, <1>5 DEF NamesInv

LEMMA InitNames == Init => NamesInv
<1> SUFFICES ASSUME Init PROVE NamesInv
  OBVIOUS
<1>1. 1 \in Mon /\ 1 \in 0 .. num_monitores + 1 /\ \A m \in Mon : ~ (m < 1)
  BY MonitorAssumption DEF Mon
<1>2. pc = "boot" /\ mon = 1
  BY DEF Init
<1>3. NamesTypes
  BY <1>1 DEF Init, NamesTypes
<1>4. ASSUME NEW m \in Mon PROVE NamesFound(m)
  BY <1>1, <1>2 DEF NamesFound, HasLog, HasReader, Recorded, Booting
<1> QED  BY <1>3, <1>4 DEF NamesInv

\* Every step keeps the names.
LEMMA NextNames ==
    ASSUME NamesInv, [Next]_vars
    PROVE  NamesInv'
<1>1. CASE UNCHANGED vars
  <2>1. UNCHANGED <<fs, metafile, writing, reading, pc, mon>>
    BY <1>1 DEF vars, disk, names
  <2>2. NamesTypes'
    BY <2>1 DEF NamesInv, NamesTypes
  <2>3. ASSUME NEW m \in Mon PROVE NamesFound(m)'
    BY <2>1 DEF NamesInv, NamesFound, HasLog, HasReader, Recorded
  <2> QED  BY <2>2, <2>3 DEF NamesInv
<1>2. CASE Tick \/ (\E m \in Mon : SampleLost(m))
  <2>1. /\ pc = "idle" /\ mon' \in {0} \cup Mon
        /\ UNCHANGED <<fs, metafile, writing, reading, pc>>
    BY <1>2 DEF Tick, SampleLost, disk, names
  <2>2. mon' \in 0 .. num_monitores + 1
    BY <2>1, MonitorAssumption DEF Mon
  <2>3. fs' = [m \in Mon |-> fs'[m]] /\ \A m \in Mon : DOMAIN fs[m] \subseteq DOMAIN fs'[m]
    BY <2>1 DEF NamesInv, NamesTypes
  <2> QED  BY <2>1, <2>2, <2>3, SameNames, Zenon DEF Booting
<1> QED  BY <1>1, <1>2, BootNames, WriteNames, SyncNames, ReadNames, SendNames, CrashNames DEF Next

\* Between passes of the main loop the names in memory and in metafile.txt are
\* those of existing files, for any sizes and intervals, wherever power failed and
\* whatever header could not be read (monitor_init, monitor_settimestamp,
\* monitor_writeentry, monitor_reader_multiple).
THEOREM NamesAreFiles == Spec => []NamesOnDisk
<1>1. NamesInv /\ [Next]_vars => NamesInv'
  BY NextNames
<1>2. NamesInv => NamesOnDisk
  BY DEF NamesInv, NamesFound, HasLog, HasReader, Recorded, Booting, NamesOnDisk, Files
<1> QED  BY <1>1, <1>2, InitNames, PTL DEF Spec

-----------------------------------------------------------------------------
\* Times: entries are an interval apart, whatever power failures, refused entries
\* and late passes did to the writers.

Log == [ok : BOOLEAN, synched : BOOLEAN, start : Nat,
        last_idx : Nat, count : Nat, lines : Seq(StartTime .. MaxTime)]

\* The entries a file has or claims.
Larger(a, b) == IF a < b THEN b ELSE a
Entries(f)   == Larger(Len(f.lines), f.count)

\* A file of monitor m whose entries had the time to be taken by time t.
FitsIn(m, f, t) ==
    /\ f \in Log /\ (WriteFailures \/ f.count <= Len(f.lines))
    /\ StartTime + time_interv[m] * Entries(f) <= t

Dated == [mon : Mon, sample : (StartTime .. MaxTime) \cup {NoEntry}, ts : Nat]

RestTyped ==
    /\ metafile \in [Mon -> Nat] /\ writing \in [Mon -> Nat]
    /\ reading \in [Mon -> Nat] /\ newname \in Nat
    /\ clock \in Nat /\ clock <= now /\ clockSynched \in BOOLEAN
    /\ batch \cup server \subseteq Dated
    /\ sending \subseteq Mon /\ write_timer \in [Mon -> Nat]
    /\ now \in StartTime .. MaxTime /\ crashes \in 0 .. MaxCrashes

\* The entries of the file monitor m writes, and when its next one is due.
Counted(f) == Larger(Len(f.lines), f.count + 1)
Held(m)    == IF pc = "roll" /\ m = mon THEN 0
              ELSE IF pc = "count" /\ m = mon THEN Counted(fs[m][writing[m]])
              ELSE Entries(fs[m][writing[m]])
Taking     == pc \in {"append", "recreate", "new header"}
NextDue(m) == IF Taking /\ m = mon THEN write_timer[m] - time_interv[m] ELSE write_timer[m]

\* The next entry is not due before one more interval has gone by.
Timely(m) ==
    /\ StartTime + time_interv[m] * (Held(m) + 1) <= NextDue(m)
    /\ Taking /\ m = mon => StartTime + time_interv[m] * (Held(m) + 1) <= now

CardTyped == \A m \in Mon : \A n \in DOMAIN fs[m] : FitsIn(m, fs[m][n], now)
Uncounted ==
    pc = "count" => /\ WriteFailures \/ Current.count < Len(Current.lines)
                    /\ StartTime + time_interv[mon] * Counted(Current) <= now
AllTimely == pc \notin Booting => \A m \in Mon : Timely(m)

InTime   == RestTyped /\ CardTyped /\ Uncounted /\ AllTimely
TimesInv == NamesInv /\ InTime

\* A batch whose times are all within the reach of a 16-bit offset.
OffsetsFit == \A e, f \in batch : e.ts - f.ts \in -OffsetRange .. OffsetRange - 1

-----------------------------------------------------------------------------
\* What a step that writes, renames or keeps files leaves true of times.

LEMMA Interval ==
    ASSUME NEW m \in Mon
    PROVE  /\ time_interv[m] \in Nat /\ time_interv[m] > 0
           /\ \A k \in Nat : /\ time_interv[m] * k \in Nat
                             /\ time_interv[m] * (k + 1) = time_interv[m] * k + time_interv[m]
           /\ \A j, k \in Nat : j <= k => time_interv[m] * j <= time_interv[m] * k
<1> DEFINE p == time_interv[m]
<1>1. p \in Nat /\ p > 0
  BY MonitorAssumption
<1> HIDE DEF p
<1>2. \A k \in Nat : p * k \in Nat /\ p * (k + 1) = p * k + p
  BY <1>1
<1>3. ASSUME NEW j \in Nat, NEW k \in Nat, j <= k PROVE p * j <= p * k
  <2>1. k - j \in Nat /\ p * (k - j) \in Nat /\ p * k = p * j + p * (k - j)
    BY <1>1, <1>3
  <2>2. p * j \in Nat /\ p * k \in Nat
    BY <1>1
  <2> QED  BY <2>1, <2>2
<1> QED  BY <1>1, <1>2, <1>3 DEF p

LEMMA Times == /\ StartTime \in Nat /\ MaxTime \in Nat /\ StartTime < MaxTime
               /\ num_monitores \in Nat /\ HourLen \in Nat /\ HourLen > 0
BY MonitorAssumption

\* Hours are names.
LEMMA HourIsName == ASSUME NEW t \in Nat PROVE Hour(t) \in Nat
BY MonitorAssumption DEF Hour

LEMMA NamesAreNat == NoName \in Nat /\ LOG_FILENAME_START \in Nat
BY SMT DEF NoName, LOG_FILENAME_START

LEMMA EntriesOf ==
    ASSUME NEW f \in Log
    PROVE  /\ f.lines \in Seq(StartTime .. MaxTime) /\ Len(f.lines) \in Nat
           /\ f.count \in Nat /\ f.last_idx \in Nat /\ f.start \in Nat
           /\ Entries(f) \in Nat /\ Len(f.lines) <= Entries(f) /\ f.count <= Entries(f)
           /\ Counted(f) \in Nat /\ Entries(f) <= Counted(f) /\ Counted(f) <= Entries(f) + 1
<1> DEFINE l == Len(f.lines)
           c == f.count
<1>1. /\ f.lines \in Seq(StartTime .. MaxTime) /\ l \in Nat /\ c \in Nat
      /\ f.last_idx \in Nat /\ f.start \in Nat
  BY DEF Log
<1>2. Entries(f) = (IF l < c THEN c ELSE l) /\ Counted(f) = (IF l < c + 1 THEN c + 1 ELSE l)
  BY DEF Entries, Counted, Larger
<1> HIDE DEF l, c
<1>3. /\ Entries(f) \in Nat /\ l <= Entries(f) /\ c <= Entries(f)
      /\ Counted(f) \in Nat /\ Entries(f) <= Counted(f) /\ Counted(f) <= Entries(f) + 1
  BY <1>1, <1>2
<1> QED  BY <1>1, <1>3 DEF l, c

\* Files with the same lines and the same count.
LEMMA AsMany ==
    ASSUME NEW f, NEW g, f.lines = g.lines, f.count = g.count
    PROVE  Entries(f) = Entries(g) /\ Counted(f) = Counted(g)
BY DEF Entries, Counted

LEMMA FitsLater ==
    ASSUME NEW m \in Mon, NEW f, NEW t \in Nat, NEW u \in Nat, t <= u, FitsIn(m, f, t)
    PROVE  FitsIn(m, f, u)
<1>1. f \in Log /\ Entries(f) \in Nat
  BY EntriesOf DEF FitsIn
<1>2. time_interv[m] * Entries(f) \in Nat
  BY <1>1, Interval
<1> QED  BY <1>2, Times DEF FitsIn

\* The card after a file of the monitor is written.
LEMMA CardStores ==
    ASSUME TimesInv, mon \in Mon, NEW n, NEW f, Store(n, f), FitsIn(mon, f, now'),
           now' \in Nat, now <= now'
    PROVE  /\ CardTyped'
           /\ fs'[mon][n] = f /\ n \in DOMAIN fs'[mon]
           /\ \A m \in Mon \ {mon} : fs'[m] = fs[m]
<1>1. fs' = [fs EXCEPT ![mon] = With(fs[mon], n, f)]
  BY DEF Store
<1>2. /\ fs'[mon] = With(fs[mon], n, f)
      /\ \A m \in Mon \ {mon} : fs'[m] = fs[m]
  BY <1>1 DEF TimesInv, NamesInv, NamesTypes
<1>3. /\ DOMAIN fs'[mon] = DOMAIN fs[mon] \cup {n}
      /\ fs'[mon][n] = f
      /\ \A x \in DOMAIN fs[mon] \ {n} : fs'[mon][x] = fs[mon][x]
  BY <1>2 DEF With
<1>4. now \in Nat
  BY Times DEF TimesInv, InTime, RestTyped
<1>5. ASSUME NEW m \in Mon, NEW x \in DOMAIN fs'[m] PROVE FitsIn(m, fs'[m][x], now')
  <2>1. CASE m = mon /\ x = n
    BY <1>3, <2>1
  <2>2. CASE ~ (m = mon /\ x = n)
    <3>1. x \in DOMAIN fs[m] /\ fs'[m][x] = fs[m][x]
      BY <1>2, <1>3, <2>2
    <3>2. FitsIn(m, fs[m][x], now)
      BY <3>1 DEF TimesInv, InTime, CardTyped
    <3> QED  BY <1>4, <3>1, <3>2, FitsLater
  <2> QED  BY <2>1, <2>2
<1>6. CardTyped'
  BY <1>5 DEF CardTyped
<1> QED  BY <1>2, <1>3, <1>6

\* The card when nothing is written.
LEMMA CardStays ==
    ASSUME TimesInv, UNCHANGED fs, now' \in Nat, now <= now'
    PROVE  CardTyped'
<1>1. now \in Nat
  BY Times DEF TimesInv, InTime, RestTyped
<1>2. ASSUME NEW m \in Mon, NEW x \in DOMAIN fs'[m] PROVE FitsIn(m, fs'[m][x], now')
  <2>1. x \in DOMAIN fs[m] /\ FitsIn(m, fs[m][x], now) /\ fs'[m][x] = fs[m][x]
    BY DEF TimesInv, InTime, CardTyped
  <2> QED  BY <1>1, <2>1, FitsLater
<1> QED  BY <1>2 DEF CardTyped

\* The file being written is one of the card's.
LEMMA CurrentFits ==
    ASSUME TimesInv, mon \in Mon, pc \notin Booting, pc # "roll"
    PROVE  /\ writing[mon] \in DOMAIN fs[mon] /\ Current = fs[mon][writing[mon]]
           /\ FitsIn(mon, Current, now)
           /\ Current.lines \in Seq(StartTime .. MaxTime)
           /\ Len(Current.lines) \in Nat /\ Current.count \in Nat /\ Entries(Current) \in Nat
           /\ pc # "count" => Held(mon) = Entries(Current)
           /\ pc = "count" => Held(mon) = Counted(Current)
<1>1. writing[mon] \in DOMAIN fs[mon]
  BY DEF TimesInv, NamesInv, NamesFound, HasLog
<1>2. FitsIn(mon, Current, now)
  BY <1>1 DEF TimesInv, InTime, CardTyped, Current
<1>3. Current \in Log
  BY <1>2 DEF FitsIn
<1>4. Held(mon) = IF pc = "count" THEN Counted(Current) ELSE Entries(Current)
  BY DEF Held, Current
<1> QED  BY <1>1, <1>2, <1>3, <1>4, EntriesOf DEF Current

\* How many entries there are in the files being written.
LEMMA HeldNat ==
    ASSUME TimesInv, pc \notin Booting, NEW m \in Mon
    PROVE  Held(m) \in Nat
<1>1. CASE pc = "roll" /\ m = mon
  BY <1>1 DEF Held
<1>2. CASE ~ (pc = "roll" /\ m = mon)
  <2>1. writing[m] \in DOMAIN fs[m]
    BY <1>2 DEF TimesInv, NamesInv, NamesFound, HasLog
  <2>2. fs[m][writing[m]] \in Log
    BY <2>1 DEF TimesInv, InTime, CardTyped, FitsIn
  <2> QED  BY <1>2, <2>2, EntriesOf DEF Held
<1> QED  BY <1>1, <1>2

\* The other writers' files are not touched.
LEMMA OthersHeld ==
    ASSUME NEW m \in Mon, m # mon, mon' = mon,
           fs'[m] = fs[m], writing'[m] = writing[m]
    PROVE  Held(m)' = Held(m)
BY DEF Held

\* No entry is due earlier, or taken.
LEMMA WritersWait ==
    ASSUME TimesInv, pc \notin Booting,
           \A m \in Mon : Held(m)' \in Nat /\ Held(m)' <= Held(m),
           write_timer' \in [Mon -> Nat],
           \A m \in Mon : write_timer[m] <= write_timer'[m],
           now' \in Nat, now <= now',
           Taking' => Taking /\ mon' = mon
    PROVE  AllTimely'
<1>1. ASSUME NEW m \in Mon PROVE Timely(m)'
  <2> DEFINE p == time_interv[m]
             h == Held(m)
             k == Held(m)'
             d == NextDue(m)
             e == NextDue(m)'
  <2>1. h \in Nat /\ k \in Nat /\ k <= h
    BY HeldNat
  <2>2. now \in Nat /\ write_timer[m] \in Nat /\ write_timer'[m] \in Nat
    BY Times DEF TimesInv, InTime, RestTyped
  <2>3. p * (k + 1) \in Nat /\ p * (h + 1) \in Nat /\ p * (k + 1) <= p * (h + 1)
    <3>1. k + 1 \in Nat /\ h + 1 \in Nat /\ k + 1 <= h + 1
      BY <2>1
    <3> QED  BY <3>1, Interval
  <2>4. p \in Nat
    BY Interval
  <2>5. d \in Int /\ e \in Int /\ d <= e
    BY <2>2, <2>4 DEF NextDue
  <2>6. /\ StartTime + p * (h + 1) <= d
        /\ Taking /\ m = mon => StartTime + p * (h + 1) <= now
    BY DEF TimesInv, InTime, AllTimely, Timely
  <2>7. Taking' /\ m = mon' => Taking /\ m = mon
    OBVIOUS
  <2> HIDE DEF p, h, k, d, e
  <2>8. StartTime + p * (k + 1) <= e
    BY <2>3, <2>5, <2>6, Times
  <2>9. Taking' /\ m = mon' => StartTime + p * (k + 1) <= now'
    <3>1. SUFFICES ASSUME Taking' /\ m = mon' PROVE StartTime + p * (k + 1) <= now'
      OBVIOUS
    <3>2. StartTime + p * (h + 1) <= now
      BY <2>6, <2>7, <3>1
    <3> QED  BY <2>2, <2>3, <3>2, Times
  <2> QED  BY <2>8, <2>9 DEF Timely, p, k, e
<1> QED  BY <1>1 DEF AllTimely

\* Steps that write no file and set no timer.
LEMMA TimesKept ==
    ASSUME TimesInv, pc \notin Booting, UNCHANGED <<fs, writing, write_timer>>,
           now' \in Nat, now <= now', pc # "roll", ~ Taking', pc' # "roll",
           pc # "count", pc' # "count"
    PROVE  CardTyped' /\ AllTimely'
<1>1. \A m \in Mon : Held(m)' \in Nat /\ Held(m)' <= Held(m)
  <2>1. ASSUME NEW m \in Mon PROVE Held(m)' \in Nat /\ Held(m)' <= Held(m)
    <3>1. Held(m) \in Nat
      BY HeldNat
    <3>2. Held(m)' = Held(m)
      BY DEF Held
    <3> QED  BY <3>1, <3>2
  <2> QED  BY <2>1
<1>2. /\ write_timer' \in [Mon -> Nat]
      /\ \A m \in Mon : write_timer[m] <= write_timer'[m]
  BY DEF TimesInv, InTime, RestTyped
<1>3. AllTimely'
  BY <1>1, <1>2, WritersWait
<1> QED  BY <1>3, CardStays

-----------------------------------------------------------------------------
\* Times while starting.

LEMMA EmptyFits ==
    ASSUME NEW m \in Mon, NEW t \in Nat, StartTime <= t
    PROVE  FitsIn(m, Empty, t) /\ Entries(Empty) = 0
<1>1. Empty \in Log /\ Empty.count = 0 /\ Empty.lines = <<>>
  BY DEF Empty, Log
<1>2. Len(Empty.lines) = 0 /\ Entries(Empty) = 0
  BY <1>1 DEF Entries, Larger
<1>3. time_interv[m] * 0 = 0
  BY Interval
<1> QED  BY <1>1, <1>2, <1>3, Times DEF FitsIn

\* The lines alone had the time to be taken.
LEMMA LinesFit ==
    ASSUME NEW m \in Mon, NEW f, NEW t \in Nat, FitsIn(m, f, t)
    PROVE  /\ f.lines \in Seq(StartTime .. MaxTime)
           /\ StartTime + time_interv[m] * Len(f.lines) <= t
           /\ StartTime + time_interv[m] * f.count <= t
<1> DEFINE p == time_interv[m]
           e == Entries(f)
           l == Len(f.lines)
           c == f.count
<1>1. f \in Log /\ StartTime + p * e <= t
  BY DEF FitsIn
<1>2. /\ f.lines \in Seq(StartTime .. MaxTime) /\ l \in Nat /\ c \in Nat
      /\ e \in Nat /\ l <= e /\ c <= e
  BY <1>1, EntriesOf
<1> HIDE DEF e, l, c
<1>3. /\ p * l \in Nat /\ p * c \in Nat /\ p * e \in Nat
      /\ p * l <= p * e /\ p * c <= p * e
  BY <1>2, Interval
<1> HIDE DEF p
<1>4. StartTime + p * l <= t /\ StartTime + p * c <= t
  BY <1>1, <1>3, Times
<1> QED  BY <1>2, <1>4 DEF p, l, c

LEMMA HeaderFits ==
    ASSUME NEW m \in Mon, NEW l \in Seq(StartTime .. MaxTime), NEW t \in Nat,
           StartTime + time_interv[m] * Len(l) <= t,
           NEW f, f = [Empty EXCEPT !.ok = TRUE, !.lines = l]
    PROVE  FitsIn(m, f, t) /\ f.lines = l /\ Entries(f) = Len(l)
<1> DEFINE e == Empty
           g == [e EXCEPT !.ok = TRUE]
           h == [g EXCEPT !.lines = l]
<1>1. e \in Log /\ e.last_idx = 0 /\ e.count = 0
  BY DEF Empty, Log
<1> HIDE DEF e
<1>2. g \in Log /\ g.last_idx = 0 /\ g.count = 0
  BY <1>1 DEF Log
<1> HIDE DEF g
<1>3. h \in Log /\ h.last_idx = 0 /\ h.count = 0 /\ h.lines = l
  BY <1>2 DEF Log
<1> HIDE DEF h
<1>4. f = h
  BY Zenon DEF e, g, h
<1>5. h.count <= Len(h.lines) /\ StartTime + time_interv[m] * Len(h.lines) <= t
  <2>1. Len(l) \in Nat
    OBVIOUS
  <2> QED  BY <1>3, <2>1
<1>6. Entries(h) = Len(l)
  <2>1. Len(l) \in Nat
    OBVIOUS
  <2> QED  BY <1>3, <2>1 DEF Entries, Larger
<1>7. FitsIn(m, f, t)
  <2>1. StartTime + time_interv[m] * Entries(h) <= t
    BY <1>3, <1>5, <1>6, Zenon
  <2> QED  BY <1>3, <1>4, <1>5, <2>1, Zenon DEF FitsIn
<1> QED  BY <1>3, <1>4, <1>6, <1>7, Zenon

LEMMA NowTimes ==
    ASSUME TimesInv
    PROVE  now \in Nat /\ StartTime <= now /\ clock \in Nat /\ clock <= now
BY Times DEF TimesInv, InTime, RestTyped

LEMMA BootTimes ==
    ASSUME TimesInv, Boot, NamesInv'
    PROVE  InTime'
<1>1. mon \in Mon /\ pc \in Booting
  <2>1. pc \in {"boot", "meta", "booted", "boot header", "boot open", "boot write"}
    BY Zenon DEF Boot, BootLog, BootRead, BootNext, NewHeader, OpenMeta, WriteMeta
  <2> QED  BY <2>1 DEF TimesInv, NamesInv, NamesTypes, Booting
<1>2. now \in Nat /\ StartTime <= now
  BY NowTimes
<1>3. CASE BootLog
  <2>1. /\ pc' \in Booting /\ pc' # "count"
        /\ writing' = [writing EXCEPT ![mon] = LOG_FILENAME_START]
        /\ UNCHANGED fs \/ Store(LOG_FILENAME_START, Empty)
        /\ UNCHANGED <<metafile, reading, simon, upload, newname, env>>
    BY <1>3 DEF BootLog, Goto, Booting
  <2>2. RestTyped'
    BY <2>1, NamesAreNat DEF TimesInv, InTime, RestTyped, simon, upload, env
  <2>3. now' = now
    BY <2>1 DEF env
  <2>4. CardTyped'
    BY <1>1, <1>2, <2>1, <2>3, EmptyFits, CardStays, CardStores
  <2>5. Uncounted' /\ AllTimely'
    BY <2>1 DEF Uncounted, AllTimely
  <2> QED  BY <2>2, <2>4, <2>5 DEF InTime
<1>4. CASE BootRead \/ OpenMeta("boot open", "boot write") \/ WriteMeta("boot write", "booted")
  <2>1. /\ pc' \in Booting /\ pc' # "count"
        /\ \/ /\ UNCHANGED metafile
              /\ \/ reading' = [reading EXCEPT ![mon] = metafile[mon]]
                 \/ reading' = [reading EXCEPT ![mon] = writing[mon]]
           \/ /\ UNCHANGED reading
              /\ \/ metafile' = [metafile EXCEPT ![mon] = NoName]
                 \/ metafile' = [metafile EXCEPT ![mon] = reading[mon]]
        /\ UNCHANGED <<fs, writing, simon, upload, newname, env>>
    BY <1>4 DEF BootRead, OpenMeta, WriteMeta, Goto, Booting, disk, names
  <2>2. metafile' \in [Mon -> Nat] /\ reading' \in [Mon -> Nat]
    BY <1>1, <2>1, NamesAreNat DEF TimesInv, InTime, RestTyped
  <2>3. RestTyped'
    BY <2>1, <2>2 DEF TimesInv, InTime, RestTyped, simon, upload, env
  <2>4. CardTyped'
    BY <1>2, <2>1, CardStays DEF env
  <2>5. Uncounted' /\ AllTimely'
    BY <2>1 DEF Uncounted, AllTimely
  <2> QED  BY <2>3, <2>4, <2>5 DEF InTime
<1>5. CASE NewHeader("boot header", "meta")
  <2> DEFINE f == [Empty EXCEPT !.ok = TRUE, !.lines = Current.lines]
  <2>1. /\ pc = "boot header" /\ pc' = "meta" /\ Store(writing[mon], f)
        /\ UNCHANGED <<metafile, names, simon, upload, newname, env>>
    BY <1>5 DEF NewHeader, Goto
  <2>2. writing[mon] \in DOMAIN fs[mon]
    BY <1>1, <2>1 DEF TimesInv, NamesInv, NamesFound, HasLog, Booting
  <2>3. FitsIn(mon, Current, now)
    BY <1>1, <2>2 DEF TimesInv, InTime, CardTyped, Current
  <2>4. /\ Current.lines \in Seq(StartTime .. MaxTime)
        /\ StartTime + time_interv[mon] * Len(Current.lines) <= now
    BY <1>1, <1>2, <2>3, LinesFit
  <2>5. FitsIn(mon, f, now)
    BY <1>1, <1>2, <2>4, HeaderFits
  <2> HIDE DEF f
  <2>6. CardTyped'
    <3>1. now' = now
      BY <2>1, Zenon DEF env
    <3>2. now' \in Nat /\ now <= now'
      BY <1>2, <3>1
    <3>3. FitsIn(mon, f, now')
      BY <2>5, <3>1
    <3> QED  BY <1>1, <2>1, <3>2, <3>3, CardStores
  <2>7. RestTyped'
    BY <2>1 DEF TimesInv, InTime, RestTyped, names, simon, upload, env
  <2>8. Uncounted' /\ AllTimely'
    BY <2>1 DEF Uncounted, AllTimely, Booting
  <2> QED  BY <2>6, <2>7, <2>8 DEF InTime
<1>6. CASE BootNext
  <2>1. /\ UNCHANGED <<disk, names, simon, upload, newname, now, crashes>>
        /\ \/ /\ pc' = "boot" /\ UNCHANGED write_timer
           \/ /\ mon = num_monitores /\ pc' = "idle"
              /\ write_timer' = [m \in Mon |-> now + time_interv[m]]
        /\ pc = "booted"
    BY <1>6 DEF BootNext
  <2>2. write_timer' \in [Mon -> Nat]
    <3>1. \A m \in Mon : now + time_interv[m] \in Nat
      BY <1>2, MonitorAssumption
    <3> QED  BY <2>1, <3>1 DEF TimesInv, InTime, RestTyped
  <2>3. RestTyped'
    BY <2>1, <2>2 DEF TimesInv, InTime, RestTyped, disk, names, simon, upload
  <2>4. CardTyped'
    BY <1>2, <2>1, CardStays DEF disk
  <2>5. Uncounted'
    BY <2>1 DEF Uncounted
  <2>6. ASSUME pc' = "idle", NEW m \in Mon PROVE Timely(m)'
    <3>1. mon = num_monitores /\ write_timer' = [k \in Mon |-> now + time_interv[k]]
      BY <2>1, <2>6
    <3>2. m < mon \/ m = mon
      BY <3>1, MonitorAssumption DEF Mon
    <3>3. writing[m] \in DOMAIN fs[m]
      BY <2>1, <3>2 DEF TimesInv, NamesInv, NamesFound, HasLog, Booting
    <3> DEFINE l == Entries(fs[m][writing[m]])
               p == time_interv[m]
    <3>4. FitsIn(m, fs[m][writing[m]], now)
      BY <3>3 DEF TimesInv, InTime, CardTyped
    <3>5. l \in Nat /\ StartTime + p * l <= now
      BY <3>4, EntriesOf DEF FitsIn
    <3>6. Held(m)' = l
      BY <2>1, <2>6 DEF Held, disk, names
    <3>7. NextDue(m)' = now + p /\ ~ Taking'
      BY <2>6, <3>1 DEF NextDue, Taking
    <3> HIDE DEF l
    <3>8. p * (l + 1) = p * l + p /\ p * l \in Nat /\ p \in Nat
      BY <3>5, Interval
    <3> HIDE DEF p
    <3>9. StartTime + p * (l + 1) <= now + p
      BY <1>2, <3>5, <3>8, Times
    <3> QED  BY <3>6, <3>7, <3>9 DEF Timely, p
  <2>7. AllTimely'
    BY <2>1, <2>6 DEF AllTimely, Booting
  <2> QED  BY <2>3, <2>4, <2>5, <2>7 DEF InTime
<1> QED  BY <1>3, <1>4, <1>5, <1>6 DEF Boot

-----------------------------------------------------------------------------
\* Times in the writer.

\* However late a writer is, and whatever of its lateness 16 bits lose, its next
\* entry is due an interval or more after this one was.
LEMMA TimerSet ==
    ASSUME TimesInv, NEW m \in Mon, m \in Due, timer_set(m)
    PROVE  /\ write_timer' \in [Mon -> Nat]
           /\ \A k \in Mon \ {m} : write_timer'[k] = write_timer[k]
           /\ write_timer[m] + time_interv[m] <= write_timer'[m]
           /\ write_timer[m] <= now
<1> DEFINE w == write_timer[m]
           p == time_interv[m]
           d == now - w
           e == d % LateRange
<1>1. w \in Nat /\ now \in Nat /\ w <= now /\ p \in Nat
  BY NowTimes, Interval DEF TimesInv, InTime, RestTyped, Due
<1>2. d \in Nat
  BY <1>1
<1>3. e \in Nat /\ e <= d
  <2> HIDE DEF d
  <2> QED  BY <1>2, MonitorAssumption
<1>4. timer_elapsed(m) = e
  BY DEF timer_elapsed
<1>5. Remaining(m) = IF e < p THEN p - e ELSE p \div 10
  BY <1>4 DEF Remaining
<1> HIDE DEF e, p
<1>6. /\ now + Remaining(m) \in Nat /\ w + p <= now + Remaining(m)
  <2>1. p \div 10 \in Nat
    BY <1>1
  <2>2. CASE e < p
    <3>1. Remaining(m) = p - e
      BY <1>5, <2>2
    <3> QED  BY <1>1, <1>3, <2>2, <3>1
  <2>3. CASE ~ (e < p)
    <3>1. Remaining(m) = p \div 10 /\ p <= e
      BY <1>1, <1>3, <1>5, <2>3
    <3> QED  BY <1>1, <1>3, <2>1, <3>1
  <2> QED  BY <2>2, <2>3
<1>7. write_timer' = [write_timer EXCEPT ![m] = now + Remaining(m)]
  BY DEF timer_set
<1>8. write_timer \in [Mon -> Nat]
  BY DEF TimesInv, InTime, RestTyped
<1> HIDE DEF w
<1>9. /\ write_timer' \in [Mon -> Nat]
      /\ \A k \in Mon \ {m} : write_timer'[k] = write_timer[k]
      /\ write_timer'[m] = now + Remaining(m)
  BY <1>6, <1>7, <1>8
<1> QED  BY <1>1, <1>6, <1>9 DEF w, p

\* A writer's step that leaves no more in its file than there was.
LEMMA StoresInTime ==
    ASSUME TimesInv, pc \notin Booting, pc' # "roll",
           mon \in Mon, mon' = mon, UNCHANGED <<writing, write_timer>>,
           NEW f, Store(writing[mon], f), FitsIn(mon, f, now'), Entries(f) <= Held(mon),
           pc' # "count",
           \/ ~ Taking /\ ~ Taking'
           \/ Taking /\ Taking',
           now' \in Nat, now <= now'
    PROVE  CardTyped' /\ AllTimely'
<1>1. /\ CardTyped' /\ fs'[mon][writing[mon]] = f
      /\ \A m \in Mon \ {mon} : fs'[m] = fs[m]
  BY CardStores
<1>2. ASSUME NEW m \in Mon PROVE Held(m)' \in Nat /\ Held(m)' <= Held(m)
  <2>1. CASE m = mon
    <3>1. Held(m)' = Entries(f)
      BY <1>1, <2>1 DEF Held
    <3>2. Entries(f) \in Nat
      BY EntriesOf DEF FitsIn
    <3> QED  BY <2>1, <3>1, <3>2
  <2>2. CASE m # mon
    <3>1. Held(m)' = Held(m)
      BY <1>1, <2>2, OthersHeld
    <3>2. Held(m) \in Nat
      BY HeldNat
    <3> QED  BY <3>1, <3>2
  <2> QED  BY <2>1, <2>2
<1>3. /\ write_timer' \in [Mon -> Nat]
      /\ \A m \in Mon : write_timer[m] <= write_timer'[m]
  BY DEF TimesInv, InTime, RestTyped
<1>4. AllTimely'
  BY <1>2, <1>3, WritersWait
<1> QED  BY <1>1, <1>4

\* A file with another date.
LEMMA StampFits ==
    ASSUME mon \in Mon, NEW t \in Nat, FitsIn(mon, Current, t), NEW s \in Nat
    PROVE  LET f == [Current EXCEPT !.start = s, !.synched = TRUE] IN
           FitsIn(mon, f, t) /\ f.lines = Current.lines /\ Entries(f) = Entries(Current)
<1> DEFINE e == Current
           g == [e EXCEPT !.start = s]
           f == [g EXCEPT !.synched = TRUE]
<1>1. e \in Log /\ FitsIn(mon, e, t)
  BY DEF FitsIn
<1> HIDE DEF e
<1>2. g \in Log /\ g.lines = e.lines /\ g.count = e.count
  BY <1>1 DEF Log
<1> HIDE DEF g
<1>3. f \in Log /\ f.lines = e.lines /\ f.count = e.count
  BY <1>2 DEF Log
<1> HIDE DEF f
<1>4. f = [Current EXCEPT !.start = s, !.synched = TRUE]
  BY Zenon DEF e, f, g
<1>5. Entries(f) = Entries(e)
  BY <1>3, AsMany
<1>6. FitsIn(mon, f, t)
  BY <1>1, <1>3, <1>5 DEF FitsIn
<1>7. f.lines = Current.lines /\ Entries(f) = Entries(Current)
  BY <1>3, <1>5 DEF e
<1> QED  BY <1>4, <1>6, <1>7

LEMMA SampleTimes ==
    ASSUME TimesInv, NEW m \in Mon, Sample(m)
    PROVE  InTime'
<1>1. /\ pc = "idle" /\ pc' \in {"append", "recreate"} /\ mon' = m
      /\ m \in Due /\ timer_set(m)
      /\ UNCHANGED <<disk, names, simon, upload, newname, now, crashes>>
  BY DEF Sample, Turn
<1>2. /\ write_timer' \in [Mon -> Nat]
      /\ \A k \in Mon \ {m} : write_timer'[k] = write_timer[k]
      /\ write_timer[m] + time_interv[m] <= write_timer'[m]
      /\ write_timer[m] <= now
  BY <1>1, TimerSet
<1>3. RestTyped'
  BY <1>1, <1>2 DEF TimesInv, InTime, RestTyped, disk, names, simon, upload
<1>4. CardTyped'
  BY <1>1, NowTimes, CardStays DEF disk
<1>5. Uncounted'
  BY <1>1 DEF Uncounted
<1>6. pc \notin Booting /\ ~ Taking /\ Taking'
  BY <1>1, Zenon DEF Booting, Taking
<1>7. ASSUME NEW k \in Mon PROVE Timely(k)'
  <2> DEFINE p == time_interv[k]
             h == Held(k)
             w == write_timer[k]
             v == write_timer'[k]
  <2>1. Held(k)' = h
    BY <1>1 DEF Held, disk, names
  <2>2. StartTime + p * (h + 1) <= w
    BY <1>6, Zenon DEF TimesInv, InTime, AllTimely, Timely, NextDue
  <2>3. h \in Nat /\ p * (h + 1) \in Nat /\ p \in Nat
    <3>1. h \in Nat
      BY <1>6, HeldNat
    <3>2. h + 1 \in Nat
      BY <3>1
    <3> QED  BY <3>1, <3>2, Interval
  <2>4. w \in Nat /\ v \in Nat /\ now \in Nat
    BY <1>2, NowTimes DEF TimesInv, InTime, RestTyped
  <2>5. CASE k = m
    <3>1. w + p <= v /\ w <= now
      BY <1>2, <2>5
    <3>2. NextDue(k)' = v - p
      BY <1>1, <1>6, <2>5 DEF NextDue
    <3> HIDE DEF p, h, w, v
    <3>3. StartTime + p * (h + 1) <= v - p
      BY <2>2, <2>3, <2>4, <3>1, Times
    <3>4. StartTime + p * (h + 1) <= now
      BY <2>2, <2>3, <2>4, <3>1, Times
    <3>5. now' = now
      BY <1>1
    <3> QED  BY <2>1, <3>2, <3>3, <3>4, <3>5 DEF Timely, p
  <2>6. CASE k # m
    <3>1. NextDue(k)' = w /\ k # mon'
      BY <1>1, <1>2, <2>6 DEF NextDue
    <3> HIDE DEF h, w
    <3> QED  BY <2>1, <2>2, <3>1 DEF Timely
  <2> QED  BY <2>5, <2>6
<1>8. AllTimely'
  BY <1>7 DEF AllTimely
<1> QED  BY <1>3, <1>4, <1>5, <1>8 DEF InTime

LEMMA AppendTimes ==
    ASSUME TimesInv, AppendLine \/ LineRefused, NamesInv'
    PROVE  InTime'
<1> DEFINE n == writing[mon]
           g == fs[mon][n]
           p == time_interv[mon]
<1>1. /\ pc = "append" /\ pc' = "count" /\ mon' = mon
      /\ UNCHANGED <<metafile, names, simon, upload, newname, env>>
  BY DEF AppendLine, LineRefused, Goto, disk
<1>2. mon \in Mon /\ pc \notin Booting /\ pc # "roll" /\ pc' # "roll" /\ Taking /\ ~ Taking'
  BY <1>1 DEF TimesInv, NamesInv, NamesTypes, Booting, Taking
<1>3. /\ FitsIn(mon, g, now) /\ g \in Log /\ n \in DOMAIN fs[mon]
      /\ WriteFailures \/ g.count <= Len(g.lines)
      /\ Held(mon) = Entries(g) /\ Entries(g) \in Nat
  BY <1>1, <1>2, CurrentFits DEF FitsIn
<1>4. /\ StartTime + p * (Held(mon) + 1) <= NextDue(mon)
      /\ StartTime + p * (Held(mon) + 1) <= now
  BY <1>2 DEF TimesInv, InTime, AllTimely, Timely
<1>5. UNCHANGED <<metafile, writing, reading, clock, clockSynched, batch, sending, server,
                  newname, now, write_timer, crashes>>
  BY <1>1 DEF names, simon, upload, env
<1>6. now \in Nat /\ now' = now /\ now <= now' /\ now \in StartTime .. MaxTime
  BY <1>5, NowTimes DEF TimesInv, InTime, RestTyped
<1>7. PICK f \in Log :
        /\ Store(n, f) \/ (UNCHANGED fs /\ f = g)
        /\ WriteFailures \/ f.count < Len(f.lines)
        /\ Entries(f) <= Entries(g) + 1 /\ Counted(f) <= Entries(g) + 1
  <2>1. CASE AppendLine
    <3> DEFINE l == Append(g.lines, now)
               f == [g EXCEPT !.lines = l]
    <3>1. Store(n, f)
      BY <2>1 DEF AppendLine, Current
    <3> HIDE DEF g
    <3>2. /\ g.lines \in Seq(StartTime .. MaxTime) /\ Len(g.lines) \in Nat /\ g.count \in Nat
          /\ Len(g.lines) <= Entries(g) /\ g.count <= Entries(g)
      BY <1>3, EntriesOf
    <3>3. l \in Seq(StartTime .. MaxTime) /\ Len(l) = Len(g.lines) + 1
      BY <1>6, <3>2
    <3> HIDE DEF l
    <3>4. f \in Log /\ f.count = g.count /\ f.lines = l
      BY <1>3, <3>3 DEF Log
    <3> HIDE DEF f
    <3>5. WriteFailures \/ f.count < Len(f.lines)
      BY <1>3, <3>2, <3>3, <3>4
    <3>6. Entries(f) <= Entries(g) + 1 /\ Counted(f) <= Entries(g) + 1
      <4>1. /\ Entries(f) = Larger(Len(g.lines) + 1, g.count)
            /\ Counted(f) = Larger(Len(g.lines) + 1, g.count + 1)
        BY <3>3, <3>4 DEF Entries, Counted
      <4> QED  BY <1>3, <3>2, <4>1 DEF Larger
    <3> QED  BY <3>1, <3>4, <3>5, <3>6 DEF g
  <2>2. CASE LineRefused
    <3>1. UNCHANGED fs /\ WriteFailures
      BY <2>2 DEF LineRefused, disk
    <3> HIDE DEF g
    <3>2. Entries(g) <= Entries(g) + 1 /\ Counted(g) <= Entries(g) + 1
      BY <1>3, EntriesOf
    <3> QED  BY <1>3, <3>1, <3>2
  <2> QED  BY <2>1, <2>2
<1>8. /\ Entries(f) \in Nat /\ Counted(f) \in Nat
      /\ Entries(f) <= Counted(f)
  BY <1>7, EntriesOf
<1>9. /\ StartTime + p * Counted(f) <= now
      /\ StartTime + p * Entries(f) <= now
  <2> DEFINE a == Counted(f)
             b == Entries(g)
             c == Entries(f)
  <2>1. a \in Nat /\ b \in Nat /\ c \in Nat /\ a <= b + 1 /\ c <= b + 1 /\ b + 1 \in Nat
    BY <1>3, <1>7, <1>8
  <2>2. StartTime + p * (b + 1) <= now
    BY <1>3, <1>4
  <2> HIDE DEF a, b, c
  <2>3. p * a \in Nat /\ p * (b + 1) \in Nat /\ p * a <= p * (b + 1)
    BY <1>2, <2>1, Interval
  <2>4. p * c \in Nat /\ p * c <= p * (b + 1)
    BY <1>2, <2>1, Interval
  <2> HIDE DEF p
  <2>5. StartTime + p * a <= now /\ StartTime + p * c <= now
    BY <1>6, <2>2, <2>3, <2>4, Times
  <2> QED  BY <2>5 DEF a, c
<1>10. FitsIn(mon, f, now')
  <2>1. WriteFailures \/ f.count <= Len(f.lines)
    BY <1>7, EntriesOf
  <2> QED  BY <1>6, <1>7, <1>9, <2>1 DEF FitsIn
<1>11. /\ CardTyped' /\ fs'[mon][n] = f
       /\ \A m \in Mon \ {mon} : fs'[m] = fs[m]
  <2>1. CASE Store(n, f)
    BY <1>2, <1>6, <1>10, <2>1, CardStores
  <2>2. CASE UNCHANGED fs /\ f = g
    BY <1>6, <2>2, CardStays
  <2> QED  BY <1>7, <2>1, <2>2
<1>12. Uncounted'
  <2>1. Current' = f
    BY <1>1, <1>5, <1>11 DEF Current
  <2> QED  BY <1>1, <1>6, <1>7, <1>9, <2>1 DEF Uncounted
<1>13. RestTyped'
  BY <1>5 DEF TimesInv, InTime, RestTyped
<1>14. ASSUME NEW m \in Mon PROVE Timely(m)'
  <2>1. CASE m = mon
    <3> DEFINE h == Entries(g)
               k == Counted(f)
               w == write_timer[mon]
    <3>1. Held(m)' = k
      BY <1>1, <1>5, <1>11, <2>1 DEF Held
    <3>2. NextDue(m)' = w /\ NextDue(mon) = w - p
      BY <1>2, <1>5, <2>1 DEF NextDue
    <3>3. h \in Nat /\ h + 1 \in Nat /\ w \in Nat /\ k \in Nat /\ k + 1 <= h + 1 + 1 /\ k + 1 \in Nat
      BY <1>2, <1>3, <1>7, <1>8 DEF TimesInv, InTime, RestTyped
    <3>4. StartTime + p * (h + 1) <= w - p
      BY <1>3, <1>4, <3>2
    <3> HIDE DEF h, k, w
    <3>5. p * (h + 1 + 1) = p * (h + 1) + p /\ p * (h + 1) \in Nat /\ p \in Nat
      BY <1>2, <3>3, Interval
    <3>6. p * (k + 1) \in Nat /\ p * (h + 1 + 1) \in Nat /\ p * (k + 1) <= p * (h + 1 + 1)
      <4>1. h + 1 + 1 \in Nat
        BY <3>3
      <4> QED  BY <1>2, <3>3, <4>1, Interval
    <3> HIDE DEF p
    <3>7. StartTime + p * (k + 1) <= w
      BY <3>3, <3>4, <3>5, <3>6, Times
    <3> QED  BY <1>2, <2>1, <3>1, <3>2, <3>7 DEF Timely, p
  <2>2. CASE m # mon
    <3>1. Held(m)' = Held(m)
      BY <1>1, <1>5, <1>11, <2>2, OthersHeld
    <3>2. NextDue(m)' = NextDue(m)
      BY <1>1, <1>5, <2>2 DEF NextDue
    <3>3. Timely(m)
      BY <1>2 DEF TimesInv, InTime, AllTimely
    <3> QED  BY <1>1, <2>2, <3>1, <3>2, <3>3 DEF Timely
  <2> QED  BY <2>1, <2>2
<1>15. AllTimely'
  BY <1>14 DEF AllTimely
<1> QED  BY <1>11, <1>12, <1>13, <1>15 DEF InTime

LEMMA CountTimes ==
    ASSUME TimesInv, CountEntry, NamesInv'
    PROVE  InTime'
<1> DEFINE n == writing[mon]
           g == fs[mon][n]
           h == [g EXCEPT !.count = @ + 1]
           w == IF Full(h.count) THEN Hour(clock) ELSE n
<1>1. /\ pc = "count" /\ pc' \in {"roll", "sync", "idle"} /\ mon' = mon
      /\ Store(n, h) \/ UNCHANGED fs
      /\ writing' = [writing EXCEPT ![mon] = w]
      /\ UNCHANGED <<metafile, reading, simon, upload, newname, env>>
      /\ pc' # "roll" => ~ Full(h.count)
  BY DEF CountEntry, StoreHeader, Goto, Current
<1>2. /\ mon \in Mon /\ pc \notin Booting /\ pc # "roll" /\ pc' # "count"
      /\ ~ Taking /\ ~ Taking'
  BY <1>1 DEF TimesInv, NamesInv, NamesTypes, Booting, Taking
<1>3. FitsIn(mon, g, now) /\ g \in Log /\ Held(mon) = Counted(g)
  BY <1>1, <1>2, CurrentFits DEF FitsIn
<1>4. /\ WriteFailures \/ g.count < Len(g.lines)
      /\ StartTime + time_interv[mon] * Counted(g) <= now
  BY <1>1 DEF TimesInv, InTime, Uncounted, Current
<1>5. w \in Nat
  <2> HIDE DEF h
  <2>1. Hour(clock) \in Nat
    BY NowTimes, HourIsName
  <2>2. n \in Nat
    BY <1>2 DEF TimesInv, InTime, RestTyped
  <2> QED  BY <2>1, <2>2
<1>6. h \in Log /\ h.count = g.count + 1 /\ h.lines = g.lines /\ g.count \in Nat
  <2> HIDE DEF g
  <2> QED  BY <1>3 DEF Log
<1>7. pc' # "roll" => writing'[mon] = n
  BY <1>1, <1>2 DEF TimesInv, NamesInv, NamesTypes
<1>8. writing' \in [Mon -> Nat] /\ \A m \in Mon \ {mon} : writing'[m] = writing[m]
  BY <1>1, <1>2, <1>5 DEF TimesInv, InTime, RestTyped
<1> HIDE DEF h, w
<1>9. UNCHANGED <<metafile, reading, clock, clockSynched, batch, sending, server,
                  newname, now, write_timer, crashes>>
  BY <1>1 DEF simon, upload, env
<1>10. now' \in Nat /\ now <= now' /\ now' = now
  BY <1>9, NowTimes
<1>11. PICK f \in Log : /\ Store(n, f) \/ (UNCHANGED fs /\ f = g)
                        /\ FitsIn(mon, f, now') /\ Entries(f) <= Counted(g)
  <2>1. CASE Store(n, h)
    <3>1. Entries(h) = Counted(g)
      BY <1>6 DEF Entries, Counted
    <3>2. WriteFailures \/ h.count <= Len(h.lines)
      <4> HIDE DEF g
      <4> QED  BY <1>3, <1>4, <1>6, EntriesOf
    <3>3. FitsIn(mon, h, now')
      BY <1>4, <1>6, <1>10, <3>1, <3>2 DEF FitsIn
    <3>4. Counted(g) \in Nat
      BY <1>3, EntriesOf
    <3> QED  BY <1>6, <2>1, <3>1, <3>3, <3>4
  <2>2. CASE UNCHANGED fs
    <3> HIDE DEF g
    <3>1. Entries(g) <= Counted(g) /\ FitsIn(mon, g, now')
      BY <1>3, <1>10, EntriesOf
    <3> QED  BY <1>3, <2>2, <3>1
  <2> QED  BY <1>1, <2>1, <2>2
<1>12. /\ CardTyped' /\ fs'[mon][n] = f
       /\ \A m \in Mon \ {mon} : fs'[m] = fs[m]
  <2>1. CASE Store(n, f)
    BY <1>2, <1>10, <1>11, <2>1, CardStores
  <2>2. CASE UNCHANGED fs /\ f = g
    BY <1>10, <2>2, CardStays
  <2> QED  BY <1>11, <2>1, <2>2
<1>13. RestTyped'
  BY <1>8, <1>9 DEF TimesInv, InTime, RestTyped
<1>14. ASSUME NEW m \in Mon PROVE Held(m)' \in Nat /\ Held(m)' <= Held(m)
  <2>1. Held(m) \in Nat
    BY <1>2, HeldNat
  <2>2. CASE m = mon /\ pc' = "roll"
    <3>1. Held(m)' = 0
      BY <1>1, <2>2 DEF Held
    <3> QED  BY <2>1, <3>1
  <2>3. CASE m = mon /\ pc' # "roll"
    <3>1. Held(m)' = Entries(f)
      BY <1>2, <1>7, <1>12, <2>3 DEF Held
    <3>2. Entries(f) \in Nat
      BY <1>11, EntriesOf
    <3> QED  BY <1>3, <1>11, <2>3, <3>1, <3>2
  <2>4. CASE m # mon
    <3>1. Held(m)' = Held(m)
      BY <1>1, <1>8, <1>12, <2>4, OthersHeld
    <3> QED  BY <2>1, <3>1
  <2> QED  BY <2>2, <2>3, <2>4
<1>15. AllTimely'
  <2>1. /\ write_timer' \in [Mon -> Nat]
        /\ \A m \in Mon : write_timer[m] <= write_timer'[m]
    BY <1>9 DEF TimesInv, InTime, RestTyped
  <2> QED  BY <1>2, <1>10, <1>14, <2>1, WritersWait
<1>16. Uncounted'
  BY <1>2 DEF Uncounted
<1> QED  BY <1>12, <1>13, <1>15, <1>16 DEF InTime

\* The steps of the writer that make a file or a header, or date it.
FileMade ==
    \/ OpenWrite("recreate", "new header") \/ NewHeader("new header", "append")
    \/ OpenWrite("roll", "roll header") \/ NewHeader("roll header", "roll stamp")
    \/ RollStamp

LEMMA FileTimes ==
    ASSUME TimesInv, FileMade
    PROVE  InTime'
<1>1. /\ pc \in {"recreate", "new header", "roll", "roll header", "roll stamp"}
      /\ pc' \in {"new header", "append", "roll header", "roll stamp", "idle"}
      /\ mon' = mon
      /\ UNCHANGED <<metafile, names, simon, upload, newname, env>>
      /\ \/ ~ Taking /\ ~ Taking'
         \/ Taking /\ Taking'
  BY Zenon DEF FileMade, OpenWrite, NewHeader, RollStamp, Goto, Taking
<1>2. /\ mon \in Mon /\ pc \notin Booting /\ pc' # "roll" /\ pc' # "count"
  BY <1>1 DEF TimesInv, NamesInv, NamesTypes, Booting
<1>3. UNCHANGED <<metafile, writing, reading, clock, clockSynched, batch, sending, server,
                  newname, now, write_timer, crashes>>
  BY <1>1, Zenon DEF names, simon, upload, env
<1>4. now' \in Nat /\ now <= now' /\ now' = now /\ now \in Nat /\ StartTime <= now
  BY <1>3, NowTimes
<1>5. PICK f : Store(writing[mon], f) /\ FitsIn(mon, f, now) /\ Entries(f) <= Held(mon)
  <2>1. CASE OpenWrite("recreate", "new header") \/ OpenWrite("roll", "roll header")
    <3>1. Store(writing[mon], Empty)
      BY <2>1 DEF OpenWrite
    <3>2. FitsIn(mon, Empty, now) /\ Entries(Empty) = 0
      BY <1>2, <1>4, EmptyFits
    <3>3. Held(mon) \in Nat
      BY <1>2, HeldNat
    <3>4. Entries(Empty) <= Held(mon)
      BY <3>2, <3>3
    <3> QED  BY <3>1, <3>2, <3>4
  <2>2. CASE NewHeader("new header", "append") \/ NewHeader("roll header", "roll stamp")
    <3> DEFINE h == [Empty EXCEPT !.ok = TRUE, !.lines = Current.lines]
    <3>1. Store(writing[mon], h) /\ pc # "roll"
      BY <2>2, Zenon DEF NewHeader
    <3>2. /\ FitsIn(mon, Current, now) /\ Current.lines \in Seq(StartTime .. MaxTime)
          /\ Held(mon) = Entries(Current) /\ Current \in Log
      BY <1>1, <1>2, <3>1, CurrentFits DEF FitsIn
    <3>3. StartTime + time_interv[mon] * Len(Current.lines) <= now
      BY <1>2, <1>4, <3>2, LinesFit
    <3>4. FitsIn(mon, h, now) /\ Entries(h) = Len(Current.lines)
      BY <1>2, <1>4, <3>2, <3>3, HeaderFits
    <3> HIDE DEF h
    <3>5. Entries(h) <= Held(mon)
      BY <3>2, <3>4, EntriesOf
    <3> QED  BY <3>1, <3>4, <3>5
  <2>3. CASE RollStamp
    <3> DEFINE h == [Current EXCEPT !.start = clock, !.synched = TRUE]
    <3>1. Store(writing[mon], h) /\ pc # "roll"
      BY <2>3, Zenon DEF RollStamp
    <3>2. FitsIn(mon, Current, now) /\ Held(mon) = Entries(Current) /\ Entries(Current) \in Nat
      BY <1>1, <1>2, <3>1, CurrentFits
    <3>3. clock \in Nat
      BY NowTimes
    <3>4. FitsIn(mon, h, now) /\ Entries(h) = Entries(Current)
      BY <1>2, <1>4, <3>2, <3>3, StampFits
    <3> HIDE DEF h
    <3>5. Entries(h) <= Held(mon)
      BY <3>2, <3>4
    <3> QED  BY <3>1, <3>4, <3>5
  <2> QED  BY <2>1, <2>2, <2>3 DEF FileMade
<1>6. FitsIn(mon, f, now')
  BY <1>4, <1>5
<1>7. CardTyped' /\ AllTimely'
  BY <1>1, <1>2, <1>3, <1>4, <1>5, <1>6, StoresInTime, Zenon
<1>8. RestTyped'
  BY <1>3 DEF TimesInv, InTime, RestTyped
<1>9. Uncounted'
  BY <1>2 DEF Uncounted
<1> QED  BY <1>7, <1>8, <1>9 DEF InTime

\* A tick, and an entry that is refused.
LEMMA IdleTimes ==
    ASSUME TimesInv, Tick \/ \E m \in Mon : SampleLost(m)
    PROVE  InTime'
<1>1. /\ pc = "idle" /\ UNCHANGED <<pc, disk, names, clockSynched, upload, newname, crashes>>
      /\ \/ /\ UNCHANGED write_timer
            /\ now < MaxTime /\ now' = now + 1 /\ clock' = clock + 1
         \/ /\ \E m \in Mon : m \in Due /\ timer_set(m)
            /\ UNCHANGED <<now, clock>>
  BY Zenon DEF Tick, SampleLost, Turn, simon
<1>2. /\ now' \in StartTime .. MaxTime /\ clock' \in Nat /\ clock' <= now'
      /\ now' \in Nat /\ now <= now'
  <2>1. now \in StartTime .. MaxTime
    BY DEF TimesInv, InTime, RestTyped
  <2> QED  BY <1>1, <2>1, NowTimes, Times
<1>3. /\ write_timer' \in [Mon -> Nat]
      /\ \A m \in Mon : write_timer[m] <= write_timer'[m]
  <2>1. write_timer \in [Mon -> Nat]
    BY DEF TimesInv, InTime, RestTyped
  <2>2. ASSUME NEW m \in Mon, m \in Due, timer_set(m)
        PROVE  /\ write_timer' \in [Mon -> Nat]
               /\ \A k \in Mon : write_timer[k] <= write_timer'[k]
    <3>1. /\ write_timer' \in [Mon -> Nat]
          /\ \A k \in Mon \ {m} : write_timer'[k] = write_timer[k]
          /\ write_timer[m] + time_interv[m] <= write_timer'[m]
      BY <2>2, TimerSet
    <3>2. write_timer[m] <= write_timer'[m]
      BY <2>1, <3>1, Interval
    <3>3. \A k \in Mon \ {m} : write_timer[k] <= write_timer'[k]
      BY <2>1, <3>1
    <3> QED  BY <3>1, <3>2, <3>3
  <2> QED  BY <1>1, <2>1, <2>2
<1>4. RestTyped'
  BY <1>1, <1>2, <1>3 DEF TimesInv, InTime, RestTyped, disk, names, upload
<1>5. pc \notin Booting /\ ~ Taking /\ ~ Taking' /\ pc' # "roll" /\ pc # "roll" /\ pc' # "count"
  BY <1>1, Zenon DEF Booting, Taking
<1>6. CardTyped'
  BY <1>1, <1>2, CardStays DEF disk
<1>7. ASSUME NEW m \in Mon PROVE Held(m)' \in Nat /\ Held(m)' <= Held(m)
  <2>1. Held(m) \in Nat
    BY <1>5, HeldNat
  <2>2. Held(m)' = Held(m)
    BY <1>1 DEF Held, disk, names
  <2> QED  BY <2>1, <2>2
<1>8. AllTimely'
  BY <1>2, <1>3, <1>5, <1>7, WritersWait
<1>9. Uncounted'
  BY <1>5 DEF Uncounted
<1> QED  BY <1>4, <1>6, <1>8, <1>9 DEF InTime

-----------------------------------------------------------------------------
\* Times in the dating of a file.

LEMMA SyncStampTimes ==
    ASSUME TimesInv, SyncStamp
    PROVE  InTime'
<1> DEFINE start == now' - TimeElapsed
           f == [Current EXCEPT !.start = start, !.synched = TRUE]
<1>1. /\ pc = "sync" /\ pc' = "rename" /\ mon' = mon
      /\ Store(writing[mon], f) \/ UNCHANGED fs
      /\ newname' = Hour(start) /\ clock' = now' /\ clockSynched' = TRUE
      /\ UNCHANGED env \/ Busy
      /\ UNCHANGED <<metafile, names, upload>>
  BY DEF SyncStamp, StoreHeader, Goto
<1>2. /\ mon \in Mon /\ pc \notin Booting /\ pc # "roll" /\ pc' # "roll"
      /\ ~ Taking /\ ~ Taking' /\ pc' # "count"
  BY <1>1 DEF TimesInv, NamesInv, NamesTypes, Booting, Taking
<1>3. /\ now' \in StartTime .. MaxTime /\ now' \in Nat /\ now <= now'
      /\ UNCHANGED <<write_timer, crashes>>
  <2>1. now \in StartTime .. MaxTime
    BY DEF TimesInv, InTime, RestTyped
  <2>2. UNCHANGED <<write_timer, crashes>>
    BY <1>1 DEF Busy, env
  <2>3. now' = now \/ (now' = now + MaxBusy /\ now' <= MaxTime)
    BY <1>1 DEF Busy, env
  <2>4. now' \in StartTime .. MaxTime /\ now' \in Nat /\ now <= now'
    BY <2>1, <2>3, Times, MonitorAssumption
  <2> QED  BY <2>2, <2>4
<1>4. /\ FitsIn(mon, Current, now) /\ Held(mon) = Entries(Current)
      /\ Entries(Current) \in Nat
  BY <1>1, <1>2, CurrentFits
<1>5. start \in Nat
  <2> DEFINE c == Current.count
             p == time_interv[mon]
  <2>1. c \in Nat /\ StartTime + p * c <= now
    BY <1>2, <1>4, NowTimes, LinesFit, EntriesOf DEF FitsIn
  <2>2. TimeElapsed = p * c
    BY DEF TimeElapsed
  <2>3. p * c \in Nat
    BY <1>2, <2>1, Interval
  <2> HIDE DEF c, p
  <2> QED  BY <1>3, <2>1, <2>2, <2>3, NowTimes, Times
<1> HIDE DEF start
<1>6. FitsIn(mon, f, now') /\ Entries(f) = Entries(Current)
  <2>1. FitsIn(mon, Current, now')
    BY <1>2, <1>3, <1>4, NowTimes, FitsLater
  <2> QED  BY <1>2, <1>3, <1>5, <2>1, StampFits
<1> HIDE DEF f
<1>7. Entries(f) <= Held(mon)
  BY <1>4, <1>6
<1>8. CardTyped' /\ AllTimely'
  <2>1. UNCHANGED <<writing, write_timer>>
    BY <1>1, <1>3 DEF names
  <2>2. CASE Store(writing[mon], f)
    BY <1>1, <1>2, <1>3, <1>6, <1>7, <2>1, <2>2, StoresInTime
  <2>3. CASE UNCHANGED fs
    BY <1>1, <1>2, <1>3, <2>1, <2>3, TimesKept
  <2> QED  BY <1>1, <2>2, <2>3
<1>9. newname' \in Nat /\ clock' \in Nat /\ clock' <= now'
  BY <1>1, <1>3, <1>5, HourIsName
<1>10. RestTyped'
  BY <1>1, <1>3, <1>9 DEF TimesInv, InTime, RestTyped, names, upload
<1>11. Uncounted'
  BY <1>2 DEF Uncounted
<1> QED  BY <1>8, <1>10, <1>11 DEF InTime

LEMMA DateAgainTimes ==
    ASSUME TimesInv, DateAgain
    PROVE  InTime'
<1> DEFINE start == now - TimeElapsed
           f == [Current EXCEPT !.start = start, !.synched = TRUE]
<1>1. /\ pc = "rename" /\ pc' = "rename" /\ mon' = mon
      /\ Store(writing[mon], f)
      /\ newname' = newname + 1
      /\ UNCHANGED <<metafile, names, simon, upload, env>>
  BY Zenon DEF DateAgain
<1>2. /\ mon \in Mon /\ pc \notin Booting /\ pc # "roll" /\ pc' # "roll"
      /\ ~ Taking /\ ~ Taking' /\ pc' # "count"
  BY <1>1 DEF TimesInv, NamesInv, NamesTypes, Booting, Taking
<1>3. now' = now /\ now \in Nat /\ UNCHANGED <<writing, write_timer>>
  BY <1>1, NowTimes DEF env, names
<1>4. /\ FitsIn(mon, Current, now) /\ Held(mon) = Entries(Current)
      /\ Entries(Current) \in Nat
  BY <1>1, <1>2, CurrentFits
<1>5. start \in Nat
  <2> DEFINE c == Current.count
             p == time_interv[mon]
  <2>1. c \in Nat /\ StartTime + p * c <= now
    BY <1>2, <1>4, NowTimes, LinesFit, EntriesOf DEF FitsIn
  <2>2. TimeElapsed = p * c
    BY DEF TimeElapsed
  <2>3. p * c \in Nat
    BY <1>2, <2>1, Interval
  <2> HIDE DEF c, p
  <2> QED  BY <1>3, <2>1, <2>2, <2>3, Times
<1> HIDE DEF start
<1>6. FitsIn(mon, f, now') /\ Entries(f) = Entries(Current)
  BY <1>2, <1>3, <1>4, <1>5, StampFits
<1> HIDE DEF f
<1>7. Entries(f) <= Held(mon)
  BY <1>4, <1>6
<1>8. CardTyped' /\ AllTimely'
  BY <1>1, <1>2, <1>3, <1>6, <1>7, StoresInTime
<1>9. newname' \in Nat
  BY <1>1 DEF TimesInv, InTime, RestTyped
<1>10. RestTyped'
  BY <1>1, <1>9 DEF TimesInv, InTime, RestTyped, names, simon, upload, env
<1>11. Uncounted'
  BY <1>2 DEF Uncounted
<1> QED  BY <1>8, <1>10, <1>11 DEF InTime

LEMMA RenameTimes ==
    ASSUME TimesInv, Rename
    PROVE  InTime'
<1> DEFINE n == writing[mon]
           k == newname
<1>1. /\ pc = "rename" /\ pc' \in {"sync open", "idle"} /\ mon' = mon
      /\ fs' = [fs EXCEPT ![mon] = Renamed(fs[mon], n, k)]
      /\ writing' = [writing EXCEPT ![mon] = k]
      /\ reading' = [reading EXCEPT ![mon] = IF SameFile THEN k ELSE reading[mon]]
      /\ newname' = NoName
      /\ UNCHANGED <<metafile, simon, upload, env>>
  BY Zenon DEF Rename, Goto
<1>2. /\ mon \in Mon /\ pc \notin Booting /\ pc # "roll" /\ pc' # "roll"
      /\ ~ Taking /\ ~ Taking' /\ pc' # "count"
  BY <1>1 DEF TimesInv, NamesInv, NamesTypes, Booting, Taking
<1>3. UNCHANGED <<metafile, clock, clockSynched, batch, sending, server, now,
                  write_timer, crashes>>
  BY <1>1, Zenon DEF simon, upload, env
<1>4. /\ n \in DOMAIN fs[mon] /\ Held(mon) = Entries(fs[mon][n])
  BY <1>1, <1>2, CurrentFits DEF Current
<1>5. /\ fs'[mon] = Renamed(fs[mon], n, k)
      /\ \A m \in Mon \ {mon} : fs'[m] = fs[m]
  BY <1>1, <1>2 DEF TimesInv, NamesInv, NamesTypes
<1>6. /\ DOMAIN fs'[mon] = (DOMAIN fs[mon] \ {n}) \cup {k}
      /\ fs'[mon][k] = fs[mon][n]
      /\ \A x \in DOMAIN fs'[mon] \ {k} : x \in DOMAIN fs[mon] /\ fs'[mon][x] = fs[mon][x]
  BY <1>5 DEF Renamed
<1>7. CardTyped'
  <2>1. ASSUME NEW m \in Mon, NEW x \in DOMAIN fs'[m]
        PROVE  FitsIn(m, fs'[m][x], now')
    <3>1. \E y \in DOMAIN fs[m] : fs'[m][x] = fs[m][y]
      BY <1>4, <1>5, <1>6
    <3> QED  BY <1>3, <3>1 DEF TimesInv, InTime, CardTyped
  <2> QED  BY <2>1 DEF CardTyped
<1>8. /\ k \in Nat /\ NoName \in Nat
      /\ writing' \in [Mon -> Nat] /\ reading' \in [Mon -> Nat]
      /\ writing'[mon] = k /\ \A m \in Mon \ {mon} : writing'[m] = writing[m]
  BY <1>1, <1>2, NamesAreNat DEF TimesInv, InTime, RestTyped
<1>9. RestTyped'
  <2>1. newname' \in Nat
    BY <1>1, <1>8
  <2> QED  BY <1>3, <1>8, <2>1 DEF TimesInv, InTime, RestTyped
<1>10. ASSUME NEW m \in Mon PROVE Held(m)' \in Nat /\ Held(m)' <= Held(m)
  <2>1. Held(m) \in Nat
    BY <1>2, HeldNat
  <2>2. mon' = mon
    BY <1>1
  <2>3. ASSUME m = mon PROVE Held(m)' = Held(m)
    BY <1>2, <1>4, <1>6, <1>8, <2>2, <2>3 DEF Held
  <2>4. ASSUME m # mon PROVE Held(m)' = Held(m)
    BY <1>5, <1>8, <2>2, <2>4, OthersHeld
  <2>5. Held(m)' = Held(m)
    BY <2>3, <2>4
  <2> QED  BY <2>1, <2>5
<1>11. AllTimely'
  <2>1. /\ write_timer' \in [Mon -> Nat]
        /\ \A m \in Mon : write_timer[m] <= write_timer'[m]
    BY <1>3 DEF TimesInv, InTime, RestTyped
  <2>2. now' \in Nat /\ now <= now'
    BY <1>3, NowTimes
  <2> QED  BY <1>2, <1>10, <2>1, <2>2, WritersWait
<1>12. Uncounted'
  BY <1>2 DEF Uncounted
<1> QED  BY <1>7, <1>9, <1>11, <1>12 DEF InTime

\* The other steps of it, and metafile.txt.
NamesMoved ==
    \/ RenameFails
    \/ OpenMeta("sync open", "sync write") \/ WriteMeta("sync write", "idle")
    \/ OpenMeta("switch open", "switch write") \/ WriteMeta("switch write", "switched")

LEMMA NamesTimes ==
    ASSUME TimesInv, NamesMoved
    PROVE  InTime'
<1>1. /\ pc \in {"rename", "sync open", "sync write", "switch open", "switch write"}
      /\ pc' \in {"idle", "rename", "sync write", "switch write", "switched"}
      /\ newname' \in {newname, newname + 1}
      /\ \/ UNCHANGED metafile
         \/ metafile' = [metafile EXCEPT ![mon] = NoName]
         \/ metafile' = [metafile EXCEPT ![mon] = reading[mon]]
      /\ UNCHANGED <<fs, names, simon, upload, env>>
  BY Zenon DEF NamesMoved, RenameFails, OpenMeta, WriteMeta, Goto, disk
<1>2. /\ mon \in Mon /\ pc \notin Booting /\ pc # "roll" /\ pc' # "roll"
      /\ ~ Taking' /\ pc # "count" /\ pc' # "count"
  BY <1>1 DEF TimesInv, NamesInv, NamesTypes, Booting, Taking
<1>3. UNCHANGED <<fs, writing, reading, clock, clockSynched, batch, sending, server, now,
                  write_timer, crashes>>
  BY <1>1, Zenon DEF names, simon, upload, env
<1>4. newname' \in Nat /\ metafile' \in [Mon -> Nat]
  <2>1. newname \in Nat /\ metafile \in [Mon -> Nat] /\ reading[mon] \in Nat /\ NoName \in Nat
    BY <1>2, NamesAreNat DEF TimesInv, InTime, RestTyped
  <2>2. newname + 1 \in Nat
    BY <2>1
  <2>3. newname' \in Nat
    BY <1>1, <2>1, <2>2
  <2>4. metafile' \in [Mon -> Nat]
    BY <1>1, <1>2, <2>1
  <2> QED  BY <2>3, <2>4
<1>5. RestTyped'
  BY <1>3, <1>4 DEF TimesInv, InTime, RestTyped
<1>6. now' \in Nat /\ now <= now'
  BY <1>3, NowTimes
<1>7. CardTyped' /\ AllTimely'
  BY <1>2, <1>3, <1>6, TimesKept
<1>8. Uncounted'
  BY <1>2 DEF Uncounted
<1> QED  BY <1>5, <1>7, <1>8 DEF InTime

-----------------------------------------------------------------------------
\* Times in the upload.

LEMMA LineOrNone ==
    ASSUME NEW h, h.last_idx \in Nat, h.lines \in Seq(StartTime .. MaxTime)
    PROVE  NextLine(h) \in (StartTime .. MaxTime) \cup {NoEntry}
<1> DEFINE U == StartTime .. MaxTime
           l == h.lines
           i == h.last_idx + 1
<1>1. CASE h.last_idx < Len(l)
  <2>1. i \in 1 .. Len(l) /\ l \in Seq(U)
    BY <1>1
  <2>2. NextLine(h) = l[i]
    BY <1>1 DEF NextLine
  <2> HIDE DEF l, i, U
  <2>3. l[i] \in U
    BY <2>1
  <2> QED  BY <2>2, <2>3, Zenon DEF U
<1>2. CASE ~ (h.last_idx < Len(l))
  BY <1>2 DEF NextLine
<1> QED  BY <1>1, <1>2

LEMMA ReadEntryTimes ==
    ASSUME TimesInv, ReadEntry
    PROVE  InTime'
<1> DEFINE r == reading[mon]
           h == fs[mon][r]
           e == [mon |-> mon, sample |-> NextLine(h), ts |-> EntryTime(h)]
<1>1. /\ pc = "read" /\ pc' = "read" /\ mon \in Mon
      /\ r \in DOMAIN fs[mon] /\ h.last_idx < h.count
      /\ batch' = batch \cup {e} /\ sending' = sending \cup {mon}
      /\ UNCHANGED <<disk, names, simon, server, newname, env>>
  BY DEF ReadEntry, Reading, NextRead, Readable, monitor_getheader
<1>2. /\ pc \notin Booting /\ pc # "roll" /\ pc' # "roll"
      /\ ~ Taking' /\ pc # "count" /\ pc' # "count"
  BY <1>1 DEF Booting, Taking
<1>3. UNCHANGED <<fs, metafile, writing, reading, clock, clockSynched, server, newname, now,
                  write_timer, crashes>>
  BY <1>1, Zenon DEF disk, names, simon, env
<1>4. h \in Log
  BY <1>1 DEF TimesInv, InTime, CardTyped, FitsIn
<1>5. /\ h.last_idx \in Nat /\ h.count \in Nat /\ h.start \in Nat
      /\ h.lines \in Seq(StartTime .. MaxTime) /\ Len(h.lines) \in Nat
  <2> HIDE DEF h
  <2> QED  BY <1>4 DEF Log
<1>6. NextLine(h) \in (StartTime .. MaxTime) \cup {NoEntry}
  BY <1>5, LineOrNone
<1>7. EntryTime(h) \in Nat
  <2> DEFINE a == h.start
             b == h.last_idx
             c == time_interv[mon]
  <2>1. a \in Nat /\ b \in Nat /\ c \in Nat
    BY <1>1, <1>5, Interval
  <2> HIDE DEF a, b, c
  <2>2. a + b * c \in Nat
    BY <2>1
  <2> QED  BY <2>2 DEF EntryTime, a, b, c
<1>8. e \in Dated
  <2> HIDE DEF h
  <2> QED  BY <1>1, <1>6, <1>7 DEF Dated
<1> HIDE DEF e, h
<1>9. RestTyped'
  BY <1>1, <1>3, <1>8 DEF TimesInv, InTime, RestTyped
<1>10. now' \in Nat /\ now <= now'
  BY <1>3, NowTimes
<1>11. CardTyped' /\ AllTimely'
  BY <1>2, <1>3, <1>10, TimesKept
<1>12. Uncounted'
  BY <1>2 DEF Uncounted
<1> QED  BY <1>9, <1>11, <1>12 DEF InTime

\* The steps of the reader and of the upload that change a name, or none.
Passing ==
    \/ HeaderFails \/ SyncUnread
    \/ StartRead \/ SwitchFile \/ SwitchDone \/ ReadNothing \/ EndRead
    \/ Retry \/ ConfirmDone

LEMMA PassingTimes ==
    ASSUME TimesInv, Passing
    PROVE  InTime'
<1>1. /\ pc \in {"idle", "read", "switched", "confirm", "sync",
                 "new header", "roll header", "roll stamp"}
      /\ pc' \in {"idle", "read", "switch open", "send", "sync"}
      /\ \/ UNCHANGED reading
         \/ mon \in Mon /\ reading' = [reading EXCEPT ![mon] = writing[mon]]
      /\ UNCHANGED <<disk, writing, simon, upload, newname, env>>
  BY Zenon DEF Passing, HeaderFails, SyncUnread, StartRead, ReadersTurn, SwitchFile, SwitchDone, ReadNothing, EndRead, Retry,
     ConfirmDone, Reading, NextRead, Goto, names
<1>2. /\ pc \notin Booting /\ pc # "roll" /\ pc' # "roll"
      /\ ~ Taking' /\ pc # "count" /\ pc' # "count"
  BY <1>1 DEF Booting, Taking
<1>3. UNCHANGED <<fs, metafile, writing, clock, clockSynched, batch, sending, server,
                  newname, now, write_timer, crashes>>
  BY <1>1, Zenon DEF disk, simon, upload, env
<1>4. reading' \in [Mon -> Nat]
  BY <1>1 DEF TimesInv, InTime, RestTyped
<1>5. RestTyped'
  BY <1>3, <1>4 DEF TimesInv, InTime, RestTyped
<1>6. now' \in Nat /\ now <= now'
  BY <1>3, NowTimes
<1>7. CardTyped' /\ AllTimely'
  BY <1>2, <1>3, <1>6, TimesKept
<1>8. Uncounted'
  BY <1>2 DEF Uncounted
<1> QED  BY <1>5, <1>7, <1>8 DEF InTime

\* With offsets that fit, the server gets the times that were read.
LEMMA OffsetsKept ==
    ASSUME TimesInv, OffsetsFit
    PROVE  Received \subseteq batch
<1>1. batch \subseteq Dated
  BY DEF TimesInv, InTime, RestTyped
<1>2. ASSUME NEW e \in batch
      PROVE  [e EXCEPT !.ts = time_start + int16(e.ts - time_start)] = e
  <2>1. time_start \in Nat /\ e.ts - time_start \in -OffsetRange .. OffsetRange - 1
    <3> DEFINE M == {x.mon : x \in batch}
    <3>1. M \subseteq Mon /\ M # {}
      BY <1>1, <1>2 DEF Dated
    <3>2. PICK m \in M : \A n \in M : m <= n
      BY <3>1, LeastOf
    <3>3. \E x \in batch : \A y \in batch : x.mon <= y.mon
      BY <3>2
    <3>4. PICK x \in batch : x = CHOOSE z \in batch : \A y \in batch : z.mon <= y.mon
      BY <3>3
    <3>5. time_start = x.ts
      BY <3>4 DEF time_start
    <3> QED  BY <1>1, <3>5 DEF OffsetsFit, Dated
  <2> DEFINE t == time_start
             d == e.ts - t
  <2>2. e \in Dated /\ e.ts \in Nat
    BY <1>1 DEF Dated
  <2>3. int16(d) = d
    <3>1. OffsetRange \in Nat /\ OffsetRange > 0 /\ d \in Int /\ d \in -OffsetRange .. OffsetRange - 1
      BY <2>1, <2>2, MonitorAssumption
    <3> HIDE DEF d
    <3>2. d + OffsetRange \in 0 .. 2 * OffsetRange - 1
      BY <3>1
    <3>3. (d + OffsetRange) % (2 * OffsetRange) = d + OffsetRange
      <4> DEFINE a == d + OffsetRange
                 b == 2 * OffsetRange
      <4>1. a \in Nat /\ b \in Nat /\ a < b
        BY <3>1, <3>2
      <4> HIDE DEF a, b
      <4>2. a % b = a
        BY <4>1
      <4> QED  BY <4>2 DEF a, b
    <3> QED  BY <3>1, <3>3 DEF int16
  <2>4. t + int16(d) = e.ts
    BY <2>1, <2>2, <2>3
  <2>5. [e EXCEPT !.ts = t + int16(d)] = [e EXCEPT !.ts = e.ts]
    BY <2>4, Zenon
  <2>6. [e EXCEPT !.ts = e.ts] = e
    BY <2>2 DEF Dated
  <2> QED  BY <2>5, <2>6, Zenon
<1> QED  BY <1>2 DEF Received

LEMMA SendTimes ==
    ASSUME TimesInv, OffsetsFit, SyncFails \/ SendOk \/ \E arrives \in BOOLEAN : SendFails(arrives)
    PROVE  InTime'
<1>1. /\ pc \in {"sync", "send"} /\ pc' \in {"idle", "confirm"}
      /\ server' = server \cup Received \/ server' = server
      /\ batch' = batch \/ batch' = {}
      /\ Request
      /\ UNCHANGED <<disk, names, sending, newname>>
  BY Zenon DEF SyncFails, SendOk, SendFails, upload, Goto
<1>2. /\ pc \notin Booting /\ pc # "roll" /\ pc' # "roll"
      /\ ~ Taking' /\ pc # "count" /\ pc' # "count"
  BY <1>1 DEF Booting, Taking
<1>3. UNCHANGED <<fs, metafile, writing, reading, sending, newname, clockSynched,
                  write_timer, crashes>>
  BY <1>1 DEF disk, names, Request, Busy
<1>4. /\ now' \in StartTime .. MaxTime /\ now' \in Nat /\ now <= now'
      /\ clock' \in Nat /\ clock' <= now'
  <2>1. now \in StartTime .. MaxTime
    BY DEF TimesInv, InTime, RestTyped
  <2>2. /\ now' = now \/ now' = now + MaxBusy
        /\ now' <= MaxTime /\ clock' = clock + now' - now
    BY <1>1 DEF Request, Busy
  <2> QED  BY <2>1, <2>2, NowTimes, Times, MonitorAssumption
<1>5. batch' \cup server' \subseteq Dated
  BY <1>1, OffsetsKept DEF TimesInv, InTime, RestTyped
<1>6. RestTyped'
  BY <1>3, <1>4, <1>5 DEF TimesInv, InTime, RestTyped
<1>7. CardTyped' /\ AllTimely'
  BY <1>2, <1>3, <1>4, TimesKept
<1>8. Uncounted'
  BY <1>2 DEF Uncounted
<1> QED  BY <1>6, <1>7, <1>8 DEF InTime

LEMMA ConfirmTimes ==
    ASSUME TimesInv, Confirm
    PROVE  InTime'
<1> DEFINE r(m) == reading[m]
<1>1. PICK m : m = CHOOSE k \in sending : \A n \in sending : k <= n
  OBVIOUS
<1>2. m \in sending /\ m \in Mon
  <2>1. sending \subseteq Mon /\ sending # {}
    BY DEF Confirm, TimesInv, InTime, RestTyped
  <2> QED  BY <1>1, <2>1, LeastMonitor
<1>3. /\ pc = "confirm" /\ pc' = "confirm" /\ mon' = mon /\ sending' = sending \ {m}
      /\ \/ /\ r(m) \in DOMAIN fs[m]
            /\ fs' = [fs EXCEPT ![m][r(m)] = Sent(fs[m][r(m)])]
         \/ UNCHANGED fs
      /\ UNCHANGED <<metafile, names, simon, batch, server, newname, env>>
  BY <1>1 DEF Confirm, Goto, monitor_getheader
<1>4. /\ pc \notin Booting /\ pc # "roll" /\ pc' # "roll"
      /\ ~ Taking' /\ pc # "count" /\ pc' # "count"
  BY <1>3 DEF Booting, Taking
<1>5. UNCHANGED <<metafile, writing, reading, clock, clockSynched, batch, server,
                  newname, now, write_timer, crashes>>
  BY <1>3, Zenon DEF names, simon, env
<1>6. now' \in Nat /\ now <= now' /\ now' = now
  BY <1>5, NowTimes
<1>7. RestTyped'
  BY <1>3, <1>5 DEF TimesInv, InTime, RestTyped
<1>8. Uncounted'
  BY <1>4 DEF Uncounted
<1>9. CASE UNCHANGED fs
  <2>1. CardTyped' /\ AllTimely'
    BY <1>4, <1>5, <1>6, <1>9, TimesKept
  <2> QED  BY <1>7, <1>8, <2>1 DEF InTime
<1>10. CASE r(m) \in DOMAIN fs[m] /\ fs' = [fs EXCEPT ![m][r(m)] = Sent(fs[m][r(m)])]
  <2> DEFINE n == r(m)
             h == fs[m][n]
             f == Sent(h)
  <2>1. FitsIn(m, h, now)
    BY <1>2, <1>10 DEF TimesInv, InTime, CardTyped
  <2>2. FitsIn(m, f, now) /\ Entries(f) = Entries(h)
    <3>1. h \in Log
      BY <2>1 DEF FitsIn
    <3>2. f = [h EXCEPT !.last_idx = h.last_idx + 1]
      BY DEF Sent
    <3> HIDE DEF h, f
    <3>3. f \in Log /\ f.lines = h.lines /\ f.count = h.count
      BY <3>1, <3>2 DEF Log
    <3>4. Entries(f) = Entries(h)
      BY <3>3, AsMany
    <3> QED  BY <2>1, <3>3, <3>4 DEF FitsIn
  <2> HIDE DEF f
  <2>3. /\ DOMAIN fs'[m] = DOMAIN fs[m] /\ fs'[m][n] = f
        /\ \A x \in DOMAIN fs[m] \ {n} : fs'[m][x] = fs[m][x]
        /\ \A k \in Mon \ {m} : fs'[k] = fs[k]
    BY <1>2, <1>10 DEF TimesInv, NamesInv, NamesTypes, f
  <2>4. ASSUME NEW k \in Mon, NEW x \in DOMAIN fs'[k]
        PROVE  /\ FitsIn(k, fs'[k][x], now)
               /\ x \in DOMAIN fs[k] /\ Entries(fs'[k][x]) = Entries(fs[k][x])
    <3>1. x \in DOMAIN fs[k] /\ FitsIn(k, fs[k][x], now)
      BY <2>3, <2>4 DEF TimesInv, InTime, CardTyped
    <3>2. CASE k = m /\ x = n
      BY <2>2, <2>3, <3>1, <3>2
    <3>3. CASE ~ (k = m /\ x = n)
      <4>1. fs'[k][x] = fs[k][x]
        BY <2>3, <3>1, <3>3
      <4> QED  BY <3>1, <4>1
    <3> QED  BY <3>2, <3>3
  <2>5. CardTyped'
    BY <1>6, <2>4 DEF CardTyped
  <2>6. ASSUME NEW k \in Mon PROVE Held(k)' \in Nat /\ Held(k)' <= Held(k)
    <3>1. writing[k] \in DOMAIN fs[k]
      BY <1>4 DEF TimesInv, NamesInv, NamesFound, HasLog
    <3>2. writing[k] \in DOMAIN fs'[k]
      BY <2>3, <3>1
    <3>3. Held(k)' = Held(k)
      BY <1>4, <1>5, <2>4, <3>2 DEF Held
    <3>4. Held(k) \in Nat
      BY <1>4, HeldNat
    <3> QED  BY <3>3, <3>4
  <2>7. AllTimely'
    <3>1. /\ write_timer' \in [Mon -> Nat]
          /\ \A k \in Mon : write_timer[k] <= write_timer'[k]
      BY <1>5 DEF TimesInv, InTime, RestTyped
    <3> QED  BY <1>4, <1>6, <2>6, <3>1, WritersWait
  <2> QED  BY <1>7, <1>8, <2>5, <2>7 DEF InTime
<1> QED  BY <1>3, <1>9, <1>10

\* A power failure leaves the card, and takes time.
LEMMA CrashTimes ==
    ASSUME TimesInv, Crash
    PROVE  InTime'
<1>1. /\ pc' = "boot" /\ UNCHANGED <<disk, server>>
      /\ crashes < MaxCrashes /\ crashes' = crashes + 1
      /\ now' \in {now, now + HourLen} /\ now' <= MaxTime
      /\ writing' = [m \in Mon |-> NoName] /\ reading' = [m \in Mon |-> NoName]
      /\ clock' = 0 /\ clockSynched' = FALSE
      /\ batch' = {} /\ sending' = {} /\ write_timer' = [m \in Mon |-> 0]
      /\ newname' = NoName
  BY DEF Crash
<1>2. now' \in StartTime .. MaxTime /\ now' \in Nat /\ now <= now'
  BY <1>1, NowTimes, Times
<1>3. crashes' \in 0 .. MaxCrashes
  BY <1>1, MonitorAssumption DEF TimesInv, InTime, RestTyped
<1>4. RestTyped'
  <2>1. /\ writing' \in [Mon -> Nat] /\ reading' \in [Mon -> Nat]
        /\ newname' \in Nat /\ write_timer' \in [Mon -> Nat]
    BY <1>1, NamesAreNat
  <2>2. clock' \in Nat /\ clock' <= now' /\ clockSynched' \in BOOLEAN
    <3>1. clock' = 0 /\ clockSynched' \in BOOLEAN
      BY <1>1
    <3> QED  BY <1>2, <3>1
  <2>3. metafile' \in [Mon -> Nat] /\ batch' \cup server' \subseteq Dated /\ sending' \subseteq Mon
    BY <1>1 DEF TimesInv, InTime, RestTyped, disk
  <2> QED  BY <1>2, <1>3, <2>1, <2>2, <2>3 DEF RestTyped
<1>5. CardTyped'
  BY <1>1, <1>2, CardStays DEF disk
<1>6. Uncounted' /\ AllTimely'
  BY <1>1 DEF Uncounted, AllTimely, Booting
<1> QED  BY <1>4, <1>5, <1>6 DEF InTime

-----------------------------------------------------------------------------
LEMMA InitTimes == Init => TimesInv
<1> SUFFICES ASSUME Init PROVE TimesInv
  OBVIOUS
<1>1. NamesInv
  BY InitNames
<1>2. RestTyped
  <2>1. /\ metafile \in [Mon -> Nat] /\ writing \in [Mon -> Nat] /\ reading \in [Mon -> Nat]
        /\ newname \in Nat /\ write_timer \in [Mon -> Nat]
    BY NamesAreNat DEF Init
  <2>2. now \in StartTime .. MaxTime /\ crashes \in 0 .. MaxCrashes
    BY MonitorAssumption DEF Init
  <2>3. clock \in Nat /\ clock <= now /\ clockSynched \in BOOLEAN
    <3>1. clock = 0 /\ now = StartTime /\ clockSynched \in BOOLEAN
      BY DEF Init
    <3> QED  BY <3>1, Times
  <2>4. batch \cup server \subseteq Dated /\ sending \subseteq Mon
    BY DEF Init
  <2> QED  BY <2>1, <2>2, <2>3, <2>4 DEF RestTyped
<1>3. CardTyped
  BY DEF Init, CardTyped
<1>4. Uncounted /\ AllTimely
  BY DEF Init, Uncounted, AllTimely, Booting
<1> QED  BY <1>1, <1>2, <1>3, <1>4 DEF TimesInv, InTime

LEMMA NextTimes ==
    ASSUME TimesInv, OffsetsFit, [Next]_vars
    PROVE  TimesInv'
<1>1. NamesInv'
  BY NextNames DEF TimesInv
<1>2. CASE Boot
  BY <1>1, <1>2, BootTimes DEF TimesInv
<1>3. CASE Tick \/ \E m \in Mon : SampleLost(m)
  BY <1>1, <1>3, IdleTimes DEF TimesInv
<1>4. CASE Write
  BY <1>1, <1>4, SampleTimes, AppendTimes, CountTimes, FileTimes, PassingTimes
     DEF TimesInv, Write, FileMade, Passing
<1>5. CASE Sync
  BY <1>1, <1>5, SyncStampTimes, DateAgainTimes, RenameTimes, NamesTimes, SendTimes, PassingTimes
     DEF TimesInv, Sync, NamesMoved, Passing
<1>6. CASE Read
  BY <1>1, <1>6, ReadEntryTimes, PassingTimes, NamesTimes DEF TimesInv, Read, Passing, NamesMoved
<1>7. CASE Send
  BY <1>1, <1>7, SendTimes, ConfirmTimes, PassingTimes DEF TimesInv, Send, Passing
<1>8. CASE Crash
  BY <1>1, <1>8, CrashTimes DEF TimesInv
<1>9. CASE UNCHANGED vars
  <2>1. UNCHANGED <<fs, metafile, writing, reading, clock, clockSynched, batch, sending,
                    server, pc, mon, newname, now, write_timer, crashes>>
    BY <1>9 DEF vars, disk, names, simon, upload, env
  <2>2. RestTyped' /\ CardTyped'
    BY <2>1 DEF TimesInv, InTime, RestTyped, CardTyped
  <2>3. Uncounted' /\ AllTimely'
    BY <2>1 DEF TimesInv, InTime, Uncounted, Current, AllTimely, Timely, Held, NextDue, Taking
  <2> QED  BY <1>1, <2>2, <2>3 DEF TimesInv, InTime
<1> QED  BY <1>2, <1>3, <1>4, <1>5, <1>6, <1>7, <1>8, <1>9 DEF Next

\* Every variable has its type, for any intervals, sizes and times, whatever was
\* refused, however late a pass is and wherever power failed, as long as the times
\* of a batch are within 16 bits of each other: no file is dated before the system
\* was first switched on, because no monitor is ever sampled twice within its
\* interval (monitor_write_thread, monitor_settimestamp).
THEOREM MonitorTypeCorrect == Spec /\ []OffsetsFit => []MonitorTypeOK
<1>1. TimesInv /\ OffsetsFit /\ [Next]_vars => TimesInv'
  BY NextTimes
<1>2. TimesInv => MonitorTypeOK
  <2> SUFFICES ASSUME TimesInv PROVE MonitorTypeOK
    OBVIOUS
  <2>1. \A m \in Mon : \A n \in Files(m) : fs[m][n] \in Log
    BY DEF TimesInv, InTime, CardTyped, FitsIn, Files
  <2>2. clock \in 0 .. MaxTime
    BY NowTimes, Times DEF TimesInv, InTime, RestTyped
  <2>3. \A e \in batch \cup server :
          e.mon \in Mon /\ e.sample \in (StartTime .. MaxTime) \cup {NoEntry} /\ e.ts \in Nat
    BY DEF TimesInv, InTime, RestTyped, Dated
  <2>4. mon \in 0 .. num_monitores + 1
    BY DEF TimesInv, NamesInv, NamesTypes
  <2> QED  BY <2>1, <2>2, <2>3, <2>4 DEF MonitorTypeOK, Log, TimesInv, InTime, RestTyped
<1> QED  BY <1>1, <1>2, InitTimes, PTL DEF Spec

-----------------------------------------------------------------------------
\* Dates: when nothing keeps a writer from its entries but requests to the server,
\* one for each monitor taking less than its interval together, and neither the
\* card nor the power fails.

Punctual ==
    /\ MaxCrashes = 0 /\ ~ OpenFailures /\ ~ WriteFailures /\ ~ CardErrors
    /\ Late < LateRange /\ \A m \in Mon : Late < time_interv[m]

\* Every entry of file f was taken when its place in the file says.
Exact(m, f) ==
    \A i \in 1 .. Len(f.lines) :
      f.lines[i] - time_interv[m] * i - f.start \in -Late .. Late

\* Every entry of a file whose next one is due at d was taken late by no more than
\* the requests of a pass take, and so was the file dated.
Began(m, f, d) == d - time_interv[m] * (Len(f.lines) + 1)
OnPace(m, f, d) ==
    /\ \A i \in 1 .. Len(f.lines) :
         f.lines[i] - time_interv[m] * i - Began(m, f, d) \in 0 .. Late
    /\ f.synched => f.start - Began(m, f, d) \in 0 .. Late

\* Where a new file is made, where an entry is being taken, and where the reader is.
Rolls   == pc \in {"roll", "roll header", "roll stamp"}
Takes   == pc \in {"append", "count", "sync", "roll", "roll header", "roll stamp"}
Uploads == pc \in InReader \cup {"send"}
Blanks  == pc \in {"roll header", "roll stamp"}
Remakes == pc \in {"recreate", "new header"}

Rolling(m)  == Rolls /\ m = mon
Counting(m) == pc = "count" /\ m = mon

\* A file without a date is the first one, and is read.
Track(m, f) ==
    /\ OnPace(m, f, NextDue(m))
    /\ ~ Counting(m) => f.count = Len(f.lines)
    /\ Counting(m) => f.count + 1 = Len(f.lines)
    /\ f.synched => clockSynched
    /\ ~ f.synched => /\ writing[m] = LOG_FILENAME_START
                      /\ reading[m] = LOG_FILENAME_START

Tracked(m) ==
    /\ \A n \in DOMAIN fs[m] : fs[m][n].synched => Exact(m, fs[m][n])
    /\ Rolling(m) => clockSynched
    /\ ~ Rolling(m) => Track(m, fs[m][writing[m]])

\* A full first file that was left before it had a date: the reader never gets past it.
LeftBehind(m) ==
    /\ writing[m] # LOG_FILENAME_START /\ reading[m] = LOG_FILENAME_START
    /\ LOG_FILENAME_START \in DOMAIN fs[m] /\ ~ fs[m][LOG_FILENAME_START].synched
    /\ ~ Rolling(m) => fs[m][writing[m]].synched

OnTrack(m) == Tracked(m) \/ LeftBehind(m)

\* How many requests writer m may have to wait for: those of the other writers since
\* it was passed, each to date its file, and once the clock is set that of the reader.
Asking == Takes /\ ~ clockSynched
Served == IF Asking THEN mon - 1 ELSE mon
Requests(m) ==
    IF Uploads THEN num_monitores - m
    ELSE IF m > mon THEN (num_monitores - m) + (IF clockSynched THEN 1 ELSE 0) + Served
    ELSE Served - m

OnTime(m) == now - write_timer[m] <= MaxBusy * Requests(m)

\* How late the entry is that is being taken: its file's dating may make it later.
Lateness == now - (write_timer[mon] - time_interv[mon])
JustTaken ==
    Takes => Lateness \in 0 .. Late /\ (~ clockSynched => Lateness + MaxBusy <= Late)

Blank ==
    /\ ~ clockSynched /\ batch = {} /\ server = {}
    /\ \A m \in Mon : \A n \in DOMAIN fs[m] :
         n = LOG_FILENAME_START /\ fs[m][n].lines = <<>> /\ fs[m][n].count = 0 /\ ~ fs[m][n].synched

Stages ==
    /\ ~ Remakes
    /\ pc \in Booting => Blank
    /\ pc = "idle" => mon <= num_monitores
    /\ pc \in {"send", "confirm"} => mon = 0
    /\ pc = "sync" => ~ Current.synched
    /\ pc = "rename" => writing[mon] = LOG_FILENAME_START /\ Current.synched
    /\ Blanks => Current.lines = <<>> /\ Current.count = 0 /\ ~ Current.synched

ClockSet ==
    /\ clockSynched => clock = now
    /\ batch # {} \/ pc = "send" => clockSynched

AllStamped == \A e \in batch \cup server :
    e.sample - time_interv[e.mon] - e.ts \in -Late .. Late

Writers == pc \notin Booting => \A m \in Mon : OnTime(m) /\ OnTrack(m)

DatesOK  == Stages /\ ClockSet /\ AllStamped /\ JustTaken /\ Writers
DatesInv == TimesInv /\ DatesOK

-----------------------------------------------------------------------------
\* Paces.

LEMMA LateNat ==
    /\ MaxBusy \in Nat /\ num_monitores \in Nat /\ num_monitores > 0
    /\ Late \in Nat /\ MaxBusy * num_monitores = Late
<1> DEFINE a == MaxBusy
           b == num_monitores
<1>1. a \in Nat /\ b \in Nat /\ b > 0
  BY MonitorAssumption
<1> HIDE DEF a, b
<1>2. b * a \in Nat /\ a * b = b * a
  BY <1>1
<1> QED  BY <1>1, <1>2 DEF Late, a, b

\* Times that some requests take.
LEMMA RequestsTake ==
    /\ \A j, k \in Int : j <= k => MaxBusy * j <= MaxBusy * k
    /\ \A k \in Int : MaxBusy * k \in Int /\ MaxBusy * (k + 1) = MaxBusy * k + MaxBusy
    /\ \A k \in Nat : MaxBusy * k \in Nat
<1> DEFINE p == MaxBusy
<1>1. p \in Nat
  BY LateNat
<1> HIDE DEF p
<1>2. \A k \in Int : p * k \in Int /\ p * (k + 1) = p * k + p
  BY <1>1
<1>3. \A k \in Nat : p * k \in Nat
  BY <1>1
<1>4. ASSUME NEW j \in Int, NEW k \in Int, j <= k PROVE p * j <= p * k
  <2>1. k - j \in Nat /\ p * (k - j) \in Nat
    BY <1>3, <1>4
  <2>2. p * k = p * j + p * (k - j) /\ p * j \in Int /\ p * k \in Int
    BY <1>1, <1>2
  <2> QED  BY <2>1, <2>2
<1> QED  BY <1>2, <1>3, <1>4 DEF p

LEMMA RequestsBound ==
    ASSUME NEW r \in Int, r <= num_monitores
    PROVE  MaxBusy * r \in Int /\ MaxBusy * r <= Late /\ MaxBusy * (r - 1) = MaxBusy * r - MaxBusy
<1> DEFINE p == MaxBusy
           n == num_monitores
<1>1. p \in Nat /\ n \in Int /\ p * n = Late
  BY LateNat
<1>2. \A j, k \in Int : j <= k => p * j <= p * k
  BY RequestsTake
<1> HIDE DEF p, n
<1>3. p * r \in Int /\ p * r <= p * n /\ p * (r - 1) = p * r - p
  <2>1. r <= n
    BY DEF n
  <2>2. p * r <= p * n
    BY <1>1, <1>2, <2>1
  <2> QED  BY <1>1, <2>2
<1> QED  BY <1>1, <1>3 DEF p

LEMMA MonRange == \A m \in Mon : m \in Nat /\ m > 0 /\ m <= num_monitores
<1>1. num_monitores \in Nat
  BY LateNat
<1> QED  BY <1>1 DEF Mon

LEMMA FileTypes ==
    ASSUME TimesInv, NEW m \in Mon, NEW n \in DOMAIN fs[m]
    PROVE  /\ fs[m][n] \in Log /\ fs[m][n].lines \in Seq(StartTime .. MaxTime)
           /\ Len(fs[m][n].lines) \in Nat /\ fs[m][n].start \in Nat /\ fs[m][n].count \in Nat
<1> DEFINE f == fs[m][n]
<1>1. f \in Log
  BY DEF TimesInv, InTime, CardTyped, FitsIn
<1> HIDE DEF f
<1>2. f.lines \in Seq(StartTime .. MaxTime) /\ f.start \in Nat /\ f.count \in Nat
  BY <1>1 DEF Log
<1>3. Len(f.lines) \in Nat
  BY <1>2
<1> QED  BY <1>1, <1>2, <1>3 DEF f

\* A file on pace that has a date has the right one.
LEMMA PaceExact ==
    ASSUME NEW m \in Mon, NEW f \in Log, NEW d \in Int, OnPace(m, f, d), f.synched
    PROVE  Exact(m, f)
<1> DEFINE p == time_interv[m]
           l == f.lines
           b == Began(m, f, d)
<1>1. l \in Seq(StartTime .. MaxTime) /\ f.start \in Nat /\ Len(l) \in Nat
  <2>1. f.lines \in Seq(StartTime .. MaxTime) /\ f.start \in Nat
    BY DEF Log
  <2> QED  BY <2>1
<1>2. b \in Int /\ Late \in Nat
  <2>1. Len(l) + 1 \in Nat
    BY <1>1
  <2>2. p * (Len(l) + 1) \in Nat
    BY <2>1, Interval
  <2> QED  BY <2>2, LateNat DEF Began
<1>3. f.start - b \in 0 .. Late
  BY DEF OnPace
<1>4. ASSUME NEW i \in 1 .. Len(l) PROVE l[i] - p * i - f.start \in -Late .. Late
  <2>1. l[i] - p * i - b \in 0 .. Late
    BY <1>4 DEF OnPace
  <2>2. l[i] \in Int /\ p * i \in Int
    <3>1. i \in Nat
      BY <1>1
    <3>2. p * i \in Nat
      BY <3>1, Interval
    <3>3. l[i] \in Int
      <4> DEFINE T == StartTime .. MaxTime
      <4>1. l \in Seq(T) /\ i \in 1 .. Len(l)
        BY <1>1, <1>4
      <4> HIDE DEF l, T
      <4>2. l[i] \in T
        BY <4>1
      <4> QED  BY <4>2, Times DEF T
    <3> QED  BY <3>2, <3>3
  <2> DEFINE x == l[i]
             y == p * i
             s == f.start
  <2> HIDE DEF b, x, y, s
  <2>3. x - y - s \in -Late .. Late
    <3>1. x \in Int /\ y \in Int /\ s \in Int
      BY <1>1, <2>2 DEF x, y, s
    <3>2. x - y - b \in 0 .. Late /\ s - b \in 0 .. Late
      BY <1>3, <2>1 DEF x, y, s
    <3> QED  BY <1>2, <3>1, <3>2
  <2> QED  BY <2>3 DEF x, y, s
<1> QED  BY <1>4 DEF Exact

\* One entry more, in time.
LEMMA PaceAppend ==
    ASSUME NEW m \in Mon, NEW g \in Log, NEW d \in Int, OnPace(m, g, d),
           NEW t \in StartTime .. MaxTime, t - d \in 0 .. Late,
           NEW f, f.lines = Append(g.lines, t), f.synched = g.synched, f.start = g.start
    PROVE  OnPace(m, f, d + time_interv[m])
<1> DEFINE p == time_interv[m]
           l == g.lines
           k == Len(l)
           b == Began(m, g, d)
<1>1. /\ k \in Nat /\ t \in Int
      /\ Len(f.lines) = k + 1 /\ f.lines[k + 1] = t
      /\ \A i \in 1 .. k : f.lines[i] = l[i] /\ l[i] \in Int
  <2> DEFINE T == StartTime .. MaxTime
  <2>1. l \in Seq(T) /\ t \in T /\ T \subseteq Int /\ f.lines = Append(l, t)
    BY Times DEF Log
  <2> HIDE DEF l, T
  <2>2. /\ Len(l) \in Nat /\ t \in Int
        /\ Len(f.lines) = Len(l) + 1 /\ f.lines[Len(l) + 1] = t
        /\ \A i \in 1 .. Len(l) : f.lines[i] = l[i] /\ l[i] \in T
    BY <2>1
  <2> QED  BY <2>1, <2>2
<1>3. p \in Nat /\ p * (k + 1) \in Nat /\ p * (k + 1 + 1) = p * (k + 1) + p
  <2>1. k + 1 \in Nat
    BY <1>1
  <2> QED  BY <2>1, Interval
<1>4. Began(m, f, d + p) = b /\ b = d - p * (k + 1)
  <2>1. Began(m, f, d + p) = (d + p) - p * (k + 1 + 1)
    <3>1. Began(m, f, d + p) = (d + p) - p * (Len(f.lines) + 1)
      BY Zenon DEF Began
    <3> HIDE DEF k, p
    <3> QED  BY <1>1, <3>1, Zenon
  <2>2. b = d - p * (k + 1)
    BY DEF Began
  <2> HIDE DEF b, k, p
  <2> QED  BY <1>3, <2>1, <2>2
<1>5. ASSUME NEW i \in 1 .. k + 1 PROVE f.lines[i] - p * i - b \in 0 .. Late
  <2>1. CASE i = k + 1
    <3>1. f.lines[i] - p * i - b = t - p * (k + 1) - b
      BY <1>1, <2>1
    <3> HIDE DEF b, k, p
    <3>2. t - p * (k + 1) - b = t - d
      BY <1>3, <1>4
    <3> QED  BY <3>1, <3>2
  <2>2. CASE i # k + 1
    <3>1. i \in 1 .. k
      BY <1>1, <1>5, <2>2
    <3>2. l[i] - p * i - b \in 0 .. Late
      BY <3>1 DEF OnPace
    <3> QED  BY <1>1, <3>1, <3>2
  <2> QED  BY <2>1, <2>2
<1>6. g.synched => g.start - b \in 0 .. Late
  BY DEF OnPace
<1> HIDE DEF b, p, k
<1>7. \A i \in 1 .. Len(f.lines) : f.lines[i] - p * i - Began(m, f, d + p) \in 0 .. Late
  BY <1>1, <1>4, <1>5
<1>8. f.synched => f.start - Began(m, f, d + p) \in 0 .. Late
  BY <1>4, <1>6
<1> QED  BY <1>7, <1>8 DEF OnPace, p

\* Another date, or the same lines in another file.
LEMMA PaceStamp ==
    ASSUME NEW m, NEW g, NEW d, OnPace(m, g, d), NEW f, f.lines = g.lines,
           \/ f.synched = g.synched /\ f.start = g.start
           \/ f.start - Began(m, g, d) \in 0 .. Late
    PROVE  OnPace(m, f, d)
<1>1. Began(m, f, d) = Began(m, g, d)
  BY DEF Began
<1> QED  BY <1>1 DEF OnPace

\* A file that was just started.
LEMMA PaceStart ==
    ASSUME NEW m \in Mon, NEW d \in Int, NEW f, f.lines = <<>>,
           f.synched => f.start - (d - time_interv[m]) \in 0 .. Late
    PROVE  OnPace(m, f, d) /\ Exact(m, f)
<1>1. Len(f.lines) = 0
  OBVIOUS
<1>2. time_interv[m] * (0 + 1) = time_interv[m]
  BY Interval
<1>3. Began(m, f, d) = d - time_interv[m]
  BY <1>1, <1>2 DEF Began
<1>4. \A i \in 1 .. Len(f.lines) : FALSE
  BY <1>1
<1> QED  BY <1>3, <1>4 DEF OnPace, Exact

LEMMA ExactSame ==
    ASSUME NEW m, NEW f, NEW g, f.lines = g.lines, f.start = g.start, Exact(m, g)
    PROVE  Exact(m, f)
BY DEF Exact

-----------------------------------------------------------------------------
\* What keeps a monitor on track.

\* Files that differ in what was sent of them.
Alike(d, e) ==
    /\ DOMAIN e = DOMAIN d
    /\ \A n \in DOMAIN d : /\ e[n].lines = d[n].lines /\ e[n].start = d[n].start
                           /\ e[n].synched = d[n].synched /\ e[n].count = d[n].count

\* Nothing is written, and a reader leaves only a file that has a date.
LEMMA TrackKept ==
    ASSUME NEW m \in Mon, OnTrack(m), writing[m] \in DOMAIN fs[m],
           Alike(fs[m], fs'[m]), writing'[m] = writing[m],
           \/ reading'[m] = reading[m]
           \/ reading[m] # writing[m] /\ fs[m][reading[m]].synched,
           NextDue(m)' = NextDue(m), clockSynched => clockSynched',
           ~ Rolling(m), ~ Rolling(m)', ~ Counting(m), ~ Counting(m)'
    PROVE  OnTrack(m)'
<1>1. /\ DOMAIN fs'[m] = DOMAIN fs[m]
      /\ \A n \in DOMAIN fs[m] :
           /\ fs'[m][n].lines = fs[m][n].lines /\ fs'[m][n].start = fs[m][n].start
           /\ fs'[m][n].synched = fs[m][n].synched /\ fs'[m][n].count = fs[m][n].count
  BY DEF Alike
<1>2. CASE LeftBehind(m)
  <2>1. reading'[m] = reading[m]
    BY <1>2 DEF LeftBehind
  <2>2. LeftBehind(m)'
    BY <1>1, <1>2, <2>1 DEF LeftBehind
  <2> QED  BY <2>2 DEF OnTrack
<1>3. CASE Tracked(m)
  <2>1. ASSUME NEW n \in DOMAIN fs'[m], fs'[m][n].synched PROVE Exact(m, fs'[m][n])
    <3>1. n \in DOMAIN fs[m] /\ fs[m][n].synched
      BY <1>1, <2>1
    <3>2. Exact(m, fs[m][n])
      BY <1>3, <3>1 DEF Tracked
    <3> QED  BY <1>1, <3>1, <3>2, ExactSame
  <2> DEFINE f == fs[m][writing[m]]
             g == fs'[m][writing[m]]
             d == NextDue(m)
  <2>2. /\ OnPace(m, f, d) /\ f.count = Len(f.lines)
        /\ f.synched => clockSynched
        /\ ~ f.synched => writing[m] = LOG_FILENAME_START /\ reading[m] = LOG_FILENAME_START
    BY <1>3 DEF Tracked, Track
  <2>3. g.lines = f.lines /\ g.start = f.start /\ g.synched = f.synched /\ g.count = f.count
    BY <1>1
  <2>4. OnPace(m, g, d)
    <3> HIDE DEF f, g, d
    <3> QED  BY <2>2, <2>3, PaceStamp
  <2>5. ~ f.synched => reading'[m] = reading[m]
    BY <2>2
  <2>6. g.count = Len(g.lines)
    BY <2>2, <2>3
  <2>7. g.synched => clockSynched'
    BY <2>2, <2>3
  <2>8. ~ g.synched => writing'[m] = LOG_FILENAME_START /\ reading'[m] = LOG_FILENAME_START
    BY <2>2, <2>3, <2>5
  <2>9. g = fs'[m][writing'[m]]
    OBVIOUS
  <2> HIDE DEF f, g, d
  <2>10. OnPace(m, g, NextDue(m)')
    BY <2>4 DEF d
  <2>11. Track(m, fs[m][writing[m]])'
    BY <2>6, <2>7, <2>8, <2>9, <2>10 DEF Track
  <2>12. Tracked(m)'
    BY <2>1, <2>11 DEF Tracked
  <2> QED  BY <2>12 DEF OnTrack
<1> QED  BY <1>2, <1>3 DEF OnTrack

\* The other monitors, in a step for one.
LEMMA OthersKept ==
    ASSUME DatesInv, pc \notin Booting, mon' = mon, NEW m \in Mon, m # mon,
           fs'[m] = fs[m], writing'[m] = writing[m], reading'[m] = reading[m],
           write_timer'[m] = write_timer[m], clockSynched => clockSynched'
    PROVE  OnTrack(m)'
<1>1. OnTrack(m)
  BY DEF DatesInv, DatesOK, Writers
<1>2. writing[m] \in DOMAIN fs[m]
  BY DEF DatesInv, TimesInv, NamesInv, NamesFound, HasLog
<1>3. /\ ~ Rolling(m) /\ ~ Rolling(m)' /\ ~ Counting(m) /\ ~ Counting(m)'
      /\ NextDue(m)' = NextDue(m)
  BY DEF Rolling, Counting, NextDue
<1>4. Alike(fs[m], fs'[m])
  BY DEF Alike
<1> QED  BY <1>1, <1>2, <1>3, <1>4, TrackKept

\* The monitor whose file is written, or renamed.
LEMMA TrackedOn ==
    ASSUME NEW m \in Mon, NEW n, NEW f \in Log, NEW d \in Int,
           \A x \in DOMAIN fs[m] : fs[m][x].synched => Exact(m, fs[m][x]),
           fs'[m][n] = f,
           \A x \in DOMAIN fs'[m] \ {n} : x \in DOMAIN fs[m] /\ fs'[m][x] = fs[m][x],
           writing'[m] = n, ~ Rolling(m)', NextDue(m)' = d, OnPace(m, f, d),
           ~ Counting(m)' => f.count = Len(f.lines),
           Counting(m)' => f.count + 1 = Len(f.lines),
           f.synched => clockSynched',
           ~ f.synched => n = LOG_FILENAME_START /\ reading'[m] = LOG_FILENAME_START
    PROVE  OnTrack(m)'
<1>1. ASSUME NEW x \in DOMAIN fs'[m], fs'[m][x].synched PROVE Exact(m, fs'[m][x])
  <2>1. CASE x = n
    <3>1. f.synched
      BY <1>1, <2>1
    <3>2. Exact(m, f)
      BY <3>1, PaceExact
    <3> QED  BY <2>1, <3>2
  <2>2. CASE x # n
    BY <1>1, <2>2
  <2> QED  BY <2>1, <2>2
<1>2. fs'[m][writing'[m]] = f
  OBVIOUS
<1>3. Track(m, fs[m][writing[m]])'
  BY <1>2 DEF Track
<1>4. Tracked(m)'
  BY <1>1, <1>3 DEF Tracked
<1> QED  BY <1>4 DEF OnTrack

\* A monitor whose first file was left behind, in a step that does not touch that file.
LEMMA StaysBehind ==
    ASSUME NEW m \in Mon, LeftBehind(m), NEW n, n # LOG_FILENAME_START,
           \A x \in DOMAIN fs[m] \ {n} : x \in DOMAIN fs'[m] /\ fs'[m][x] = fs[m][x],
           writing'[m] # LOG_FILENAME_START, reading'[m] = reading[m],
           ~ Rolling(m)' => fs'[m][writing'[m]].synched
    PROVE  OnTrack(m)'
<1>1. LeftBehind(m)'
  BY DEF LeftBehind
<1> QED  BY <1>1 DEF OnTrack

\* No entry is being taken, and no file is being made.
Calm  == pc \notin Booting /\ ~ Rolls /\ ~ Taking /\ pc # "count"
Plain == Calm /\ ~ Takes /\ ~ Remakes /\ ~ Blanks /\ pc # "sync" /\ pc # "rename"

LEMMA CalmTracks ==
    ASSUME DatesInv, Calm, Calm',
           \A m \in Mon : Alike(fs[m], fs'[m]), UNCHANGED <<writing, write_timer>>,
           \A m \in Mon : \/ reading'[m] = reading[m]
                          \/ reading[m] # writing[m] /\ fs[m][reading[m]].synched,
           clockSynched => clockSynched'
    PROVE  \A m \in Mon : OnTrack(m)'
<1> SUFFICES ASSUME NEW m \in Mon PROVE OnTrack(m)'
  OBVIOUS
<1>1. pc \notin Booting /\ pc # "roll"
  BY Zenon DEF Calm, Rolls
<1>2. OnTrack(m)
  BY <1>1 DEF DatesInv, DatesOK, Writers
<1>3. writing[m] \in DOMAIN fs[m]
  BY <1>1 DEF DatesInv, TimesInv, NamesInv, NamesFound, HasLog
<1>4. /\ ~ Rolling(m) /\ ~ Rolling(m)' /\ ~ Counting(m) /\ ~ Counting(m)'
      /\ NextDue(m)' = NextDue(m)
  BY DEF Calm, Rolling, Counting, NextDue
<1> QED  BY <1>2, <1>3, <1>4, TrackKept

\* The numbers there are about a writer's lateness.
Numbers == \A m \in Mon :
    /\ now \in Nat /\ write_timer[m] \in Nat /\ mon \in Nat
    /\ m \in Nat /\ m > 0 /\ m <= num_monitores /\ num_monitores \in Nat
    /\ Served \in Int /\ Requests(m) \in Int

LEMMA NumbersTyped == TimesInv => Numbers
<1> SUFFICES ASSUME TimesInv, NEW m \in Mon
             PROVE  /\ now \in Nat /\ write_timer[m] \in Nat /\ mon \in Nat
                    /\ m \in Nat /\ m > 0 /\ m <= num_monitores /\ num_monitores \in Nat
                    /\ Served \in Int /\ Requests(m) \in Int
  BY DEF Numbers
<1>1. now \in Nat /\ write_timer[m] \in Nat
  BY NowTimes DEF TimesInv, InTime, RestTyped
<1>2. mon \in Nat /\ m \in Nat /\ m > 0 /\ m <= num_monitores /\ num_monitores \in Nat
  BY LateNat DEF TimesInv, NamesInv, NamesTypes, Mon
<1>3. Served \in Int
  BY <1>2 DEF Served
<1>4. Requests(m) \in Int
  BY <1>2, <1>3 DEF Requests
<1> QED  BY <1>1, <1>2, <1>3, <1>4

LEMMA TimeTypes == (TimesInv => Numbers) /\ (TimesInv' => Numbers')
BY NumbersTyped, PTL

\* A writer that may have to wait for as many requests as before, or for one more
\* that was made.
LEMMA WaitsOn ==
    ASSUME TimesInv, TimesInv', NEW m \in Mon, OnTime(m), write_timer'[m] = write_timer[m],
           \/ now' = now /\ Requests(m) <= Requests(m)'
           \/ now' \in {now, now + MaxBusy} /\ Requests(m) + 1 <= Requests(m)'
    PROVE  OnTime(m)'
<1> DEFINE w == write_timer[m]
           r == Requests(m)
           s == Requests(m)'
<1>1. /\ now \in Nat /\ now' \in Nat /\ w \in Nat /\ r \in Int /\ s \in Int
      /\ MaxBusy \in Nat
  BY TimeTypes, LateNat DEF Numbers
<1>2. now - w <= MaxBusy * r
  BY DEF OnTime
<1> HIDE DEF w, r, s
<1>3. /\ MaxBusy * r \in Int /\ MaxBusy * s \in Int
      /\ MaxBusy * (r + 1) = MaxBusy * r + MaxBusy /\ MaxBusy * (r + 1) \in Int
      /\ r <= s => MaxBusy * r <= MaxBusy * s
      /\ r + 1 <= s => MaxBusy * (r + 1) <= MaxBusy * s
  <2>1. r + 1 \in Int
    BY <1>1
  <2> QED  BY <1>1, <2>1, RequestsTake
<1>4. now' - w <= MaxBusy * s
  BY <1>1, <1>2, <1>3 DEF r, s
<1> QED  BY <1>4 DEF OnTime, w, s

\* One that is not due does not have to wait.
LEMMA NotDueWaits ==
    ASSUME TimesInv', NEW m \in Mon, now' <= write_timer'[m], Requests(m)' \in Nat
    PROVE  OnTime(m)'
<1> DEFINE k == Requests(m)'
<1>1. now' \in Nat /\ write_timer'[m] \in Nat /\ k \in Nat
  BY TimeTypes DEF Numbers
<1> HIDE DEF k
<1>2. MaxBusy * k \in Nat
  BY <1>1, RequestsTake
<1>3. now' - write_timer'[m] <= MaxBusy * k
  BY <1>1, <1>2
<1> QED  BY <1>3 DEF OnTime, k

\* In a step of a writer, or one that takes no time.
LEMMA TimeKept ==
    ASSUME DatesInv, TimesInv', pc \notin Booting, NEW m \in Mon,
           UNCHANGED <<now, clockSynched, mon>>, write_timer'[m] = write_timer[m],
           ~ Uploads, ~ Uploads', Takes' => Takes
    PROVE  OnTime(m)'
<1>1. OnTime(m)
  BY DEF DatesInv, DatesOK, Writers
<1>2. Requests(m) <= Requests(m)'
  <2>1. Served \in Int /\ Served' \in Int /\ Served <= Served'
    BY TimeTypes DEF Numbers, DatesInv, Served, Asking
  <2> QED  BY <2>1, TimeTypes DEF Numbers, DatesInv, Requests
<1> QED  BY <1>1, <1>2, WaitsOn DEF DatesInv

\* Steps that take no time, read a file or mark what was sent of it.
LEMMA CalmDates ==
    ASSUME DatesInv, Calm, Plain',
           \A m \in Mon : Alike(fs[m], fs'[m]), UNCHANGED <<writing, now, write_timer, clock, clockSynched>>,
           \A m \in Mon : \/ reading'[m] = reading[m]
                          \/ reading[m] # writing[m] /\ fs[m][reading[m]].synched,
           \A m \in Mon : OnTime(m)',
           pc' = "idle" => mon' <= num_monitores,
           pc' \in {"send", "confirm"} => mon' = 0,
           batch' # {} \/ pc' = "send" => clockSynched,
           AllStamped'
    PROVE  DatesOK'
<1>1. Calm' /\ pc \notin Booting
  BY DEF Plain, Calm
<1>2. \A m \in Mon : OnTrack(m)'
  BY <1>1, CalmTracks
<1>4. Writers'
  BY <1>2 DEF Writers
<1>5. Stages'
  BY DEF Plain, Calm, Stages
<1>6. ClockSet'
  BY DEF DatesInv, DatesOK, ClockSet
<1>7. JustTaken'
  BY DEF Plain, JustTaken
<1> QED  BY <1>4, <1>5, <1>6, <1>7 DEF DatesOK

LEMMA SameFiles == ASSUME UNCHANGED fs PROVE \A m \in Mon : Alike(fs[m], fs'[m])
BY DEF Alike

\* Starting: there are no entries yet, and no dates.
LEMMA BootDates ==
    ASSUME Punctual, DatesInv, Boot, TimesInv'
    PROVE  DatesOK'
<1>1. /\ pc \in Booting /\ mon \in Mon
  <2>1. pc \in {"boot", "meta", "booted", "boot header", "boot open", "boot write"}
    BY Zenon DEF Boot, BootLog, BootRead, BootNext, NewHeader, OpenMeta, WriteMeta
  <2> QED  BY <2>1 DEF DatesInv, TimesInv, NamesInv, NamesTypes, Booting
<1>2. Blank
  BY <1>1 DEF DatesInv, DatesOK, Stages
<1>3. UNCHANGED <<clock, clockSynched, batch, server, now>>
  BY Zenon DEF Boot, BootLog, BootRead, BootNext, NewHeader, OpenMeta, WriteMeta, simon, upload, env
<1>4. ClockSet' /\ AllStamped'
  <2>1. pc' # "send"
    BY Zenon DEF Boot, BootLog, BootRead, BootNext, NewHeader, OpenMeta, WriteMeta, Goto
  <2>2. ~ clockSynched' /\ batch' = {} /\ server' = {}
    BY <1>2, <1>3 DEF Blank
  <2> QED  BY <2>1, <2>2 DEF ClockSet, AllStamped
<1>5. ~ Remakes' /\ pc' # "sync" /\ pc' # "rename" /\ ~ Blanks' /\ ~ Takes'
  BY Zenon DEF Boot, BootLog, BootRead, BootNext, NewHeader, OpenMeta, WriteMeta, Goto,
     Remakes, Blanks, Takes
<1>6. Blank'
  <2>1. CASE UNCHANGED fs
    BY <1>2, <1>3, <2>1 DEF Blank
  <2>2. CASE \/ BootLog /\ Store(LOG_FILENAME_START, Empty)
             \/ NewHeader("boot header", "meta")
    <3>1. PICK f : /\ Store(LOG_FILENAME_START, f)
                   /\ f.lines = <<>> /\ f.count = 0 /\ ~ f.synched
      <4>1. CASE Store(LOG_FILENAME_START, Empty)
        BY <4>1 DEF Empty
      <4>2. CASE NewHeader("boot header", "meta")
        <5> DEFINE e == Empty
                   g == [e EXCEPT !.ok = TRUE]
                   f == [g EXCEPT !.lines = Current.lines]
        <5>1. pc = "boot header" /\ Store(writing[mon], f)
          BY <4>2, Zenon DEF NewHeader
        <5>2. writing[mon] \in DOMAIN fs[mon]
          BY <1>1, <5>1 DEF DatesInv, TimesInv, NamesInv, NamesFound, HasLog, Booting
        <5>3. writing[mon] = LOG_FILENAME_START /\ Current.lines = <<>>
          BY <1>1, <1>2, <5>2 DEF Blank, Current
        <5>4. e \in Log /\ e.count = 0 /\ ~ e.synched
          BY DEF Empty, Log
        <5> HIDE DEF e
        <5>5. g \in Log /\ g.count = 0 /\ ~ g.synched
          BY <5>4 DEF Log
        <5> HIDE DEF g
        <5>6. f.count = 0 /\ ~ f.synched /\ f.lines = Current.lines
          BY <5>5 DEF Log
        <5> HIDE DEF f
        <5> QED  BY <5>1, <5>3, <5>6
      <4> QED  BY <2>2, <4>1, <4>2
    <3>2. /\ fs'[mon] = With(fs[mon], LOG_FILENAME_START, f)
          /\ \A m \in Mon \ {mon} : fs'[m] = fs[m]
      BY <1>1, <3>1 DEF Store, DatesInv, TimesInv, NamesInv, NamesTypes
    <3>3. ASSUME NEW m \in Mon, NEW n \in DOMAIN fs'[m]
          PROVE  n = LOG_FILENAME_START /\ fs'[m][n].lines = <<>> /\ fs'[m][n].count = 0
                 /\ ~ fs'[m][n].synched
      <4>1. CASE m # mon
        BY <1>2, <3>2, <3>3, <4>1 DEF Blank
      <4>2. CASE m = mon
        <5>1. /\ DOMAIN fs'[m] = DOMAIN fs[m] \cup {LOG_FILENAME_START}
              /\ fs'[m][LOG_FILENAME_START] = f
          BY <3>2, <4>2 DEF With
        <5>2. n = LOG_FILENAME_START
          BY <1>2, <5>1 DEF Blank
        <5> QED  BY <3>1, <5>1, <5>2
      <4> QED  BY <4>1, <4>2
    <3> QED  BY <1>2, <1>3, <3>3 DEF Blank
  <2>3. UNCHANGED fs \/ (BootLog /\ Store(LOG_FILENAME_START, Empty)) \/ NewHeader("boot header", "meta")
    BY Zenon DEF Boot, BootLog, BootRead, BootNext, OpenMeta, WriteMeta, disk
  <2> QED  BY <2>1, <2>2, <2>3
<1>7. Stages' /\ JustTaken'
  <2>1. pc' \notin {"send", "confirm"} /\ (pc' = "idle" => mon' = 0)
    BY Zenon DEF Boot, BootLog, BootRead, BootNext, NewHeader, OpenMeta, WriteMeta, Goto
  <2>2. pc' = "idle" => mon' <= num_monitores
    BY <2>1, LateNat
  <2> QED  BY <1>5, <1>6, <2>1, <2>2 DEF Stages, JustTaken
<1>8. Writers'
  <2>1. SUFFICES ASSUME pc' \notin Booting, NEW m \in Mon
                 PROVE  OnTime(m)' /\ OnTrack(m)'
    BY DEF Writers
  <2>2. /\ pc = "booted" /\ mon = num_monitores /\ pc' = "idle" /\ mon' = 0
        /\ write_timer' = [k \in Mon |-> now + time_interv[k]]
        /\ UNCHANGED <<fs, writing, reading>>
    BY <2>1, Zenon DEF Boot, BootLog, BootRead, BootNext, NewHeader, OpenMeta, WriteMeta,
       Goto, Booting, disk, names
  <2>3. m < mon \/ m = mon
    BY <2>2, MonitorAssumption DEF Mon
  <2>4. writing[m] \in DOMAIN fs[m] /\ reading[m] \in DOMAIN fs[m]
    BY <2>2, <2>3 DEF DatesInv, TimesInv, NamesInv, NamesFound, HasLog, HasReader, Booting
  <2>5. /\ writing[m] = LOG_FILENAME_START /\ reading[m] = LOG_FILENAME_START
        /\ fs[m][writing[m]].lines = <<>> /\ fs[m][writing[m]].count = 0
        /\ ~ fs[m][writing[m]].synched
    BY <1>2, <2>4 DEF Blank
  <2>6. write_timer'[m] = now + time_interv[m]
    BY <2>2
  <2>7. now \in Nat /\ time_interv[m] \in Nat /\ time_interv[m] > 0 /\ MaxBusy \in Nat
    BY NowTimes, Interval, MonitorAssumption DEF DatesInv
  <2>8. OnTime(m)'
    <3>1. now' <= write_timer'[m]
      BY <1>3, <2>6, <2>7
    <3>2. Requests(m)' \in Nat
      <4>1. ~ Uploads' /\ ~ Takes'
        BY <2>2, Zenon DEF Uploads, InReader, Takes
      <4>2. Served' = 0 /\ m > 0 /\ m \in Nat /\ num_monitores - m \in Nat
        BY <2>2, <4>1, TimeTypes DEF Numbers, DatesInv, Served, Asking
      <4> QED  BY <2>2, <4>1, <4>2 DEF Requests
    <3> QED  BY <3>1, <3>2, NotDueWaits
  <2>9. ~ Rolling(m)' /\ ~ Counting(m)' /\ NextDue(m)' = now + time_interv[m]
    <3>1. ~ Rolls' /\ ~ Taking' /\ pc' # "count"
      BY <2>2, Zenon DEF Rolls, Taking
    <3> QED  BY <2>6, <3>1 DEF Rolling, Counting, NextDue
  <2> DEFINE f == fs[m][writing[m]]
             d == now + time_interv[m]
  <2>10. d \in Int /\ f \in Log
    BY <2>4, <2>7, FileTypes DEF DatesInv
  <2>11. OnPace(m, f, d) /\ f.count = Len(f.lines)
    <3>1. f.lines = <<>> /\ f.count = 0 /\ ~ f.synched
      BY <2>5
    <3> HIDE DEF f, d
    <3>2. OnPace(m, f, d)
      BY <2>10, <3>1, PaceStart
    <3> QED  BY <3>1, <3>2
  <2>12. \A x \in DOMAIN fs[m] : ~ fs[m][x].synched
    BY <1>2 DEF Blank
  <2>13. OnTrack(m)'
    <3> DEFINE n == writing[m]
    <3>1. /\ \A x \in DOMAIN fs[m] : fs[m][x].synched => Exact(m, fs[m][x])
          /\ fs'[m][n] = f /\ writing'[m] = n /\ reading'[m] = LOG_FILENAME_START
          /\ n = LOG_FILENAME_START
          /\ \A x \in DOMAIN fs'[m] \ {n} : x \in DOMAIN fs[m] /\ fs'[m][x] = fs[m][x]
      BY <2>2, <2>5, <2>12
    <3>2. ~ f.synched
      BY <2>5
    <3> HIDE DEF f, d, n
    <3>3. NextDue(m)' = d
      BY <2>9 DEF d
    <3> QED  BY <2>9, <2>10, <2>11, <3>1, <3>2, <3>3, TrackedOn
  <2> QED  BY <2>8, <2>13
<1> QED  BY <1>4, <1>7, <1>8 DEF DatesOK

\* The clock goes on.
LEMMA TickDates ==
    ASSUME Punctual, DatesInv, Tick, TimesInv'
    PROVE  DatesOK'
<1>1. /\ pc = "idle" /\ pc' = "idle" /\ Due = {} /\ now' = now + 1 /\ clock' = clock + 1
      /\ mon' = 0
      /\ UNCHANGED <<fs, writing, reading, clockSynched, batch, server, write_timer>>
  BY DEF Tick, disk, names, upload
<1>2. Calm /\ Plain' /\ Calm' /\ pc \notin Booting /\ ~ Uploads'
  BY <1>1, Zenon DEF Calm, Plain, Booting, Rolls, Taking, Takes, Remakes, Blanks, Uploads, InReader
<1>3. \A m \in Mon : OnTrack(m)'
  BY <1>1, <1>2, CalmTracks, SameFiles
<1>4. ASSUME NEW m \in Mon PROVE OnTime(m)'
  <2>1. now \in Nat /\ write_timer[m] \in Nat /\ now < write_timer[m]
    BY <1>1, TimeTypes DEF Numbers, DatesInv, Due
  <2>2. Requests(m)' \in Nat
    <3>1. Served' = 0 /\ m > 0 /\ m \in Nat /\ num_monitores - m \in Nat
      BY <1>1, <1>2, TimeTypes DEF Numbers, DatesInv, Served, Asking, Plain
    <3> QED  BY <1>1, <1>2, <3>1 DEF Requests
  <2>3. now' <= write_timer'[m]
    BY <1>1, <2>1
  <2> QED  BY <2>2, <2>3, NotDueWaits
<1>5. Stages' /\ JustTaken'
  BY <1>1, <1>2, LateNat DEF Plain, Calm, Stages, JustTaken
<1>6. ClockSet' /\ AllStamped'
  BY <1>1 DEF DatesInv, DatesOK, ClockSet, AllStamped
<1> QED  BY <1>3, <1>4, <1>5, <1>6 DEF DatesOK, Writers

\* A writer that is late by less than an interval catches up with its timer.
LEMMA TimerKeepsPace ==
    ASSUME Punctual, TimesInv, NEW m \in Mon, m \in Due, timer_set(m),
           now - write_timer[m] <= Late
    PROVE  write_timer' = [write_timer EXCEPT ![m] = write_timer[m] + time_interv[m]]
<1> DEFINE w == write_timer[m]
           p == time_interv[m]
           d == now - w
<1>1. /\ w \in Nat /\ now \in Nat /\ p \in Nat /\ Late \in Nat /\ LateRange \in Nat
      /\ d \in Nat /\ d < LateRange /\ d < p
  <2>1. /\ w \in Nat /\ now \in Nat /\ p \in Nat /\ Late \in Nat /\ LateRange \in Nat
        /\ w <= now /\ d <= Late /\ Late < LateRange /\ Late < p
    BY NowTimes, Interval, LateNat, MonitorAssumption DEF TimesInv, InTime, RestTyped, Due, Punctual
  <2> HIDE DEF w, p
  <2> QED  BY <2>1
<1>2. timer_elapsed(m) = d
  <2>1. timer_elapsed(m) = d % LateRange
    BY DEF timer_elapsed
  <2> HIDE DEF d
  <2>2. d % LateRange = d
    BY <1>1
  <2> QED  BY <2>1, <2>2
<1>3. Remaining(m) = p - d
  BY <1>1, <1>2 DEF Remaining
<1>4. now + Remaining(m) = w + p
  <2> HIDE DEF w, p
  <2> QED  BY <1>1, <1>3
<1> QED  BY <1>4 DEF timer_set

LEMMA SampleDates ==
    ASSUME Punctual, DatesInv, NEW m \in Mon, Sample(m), TimesInv'
    PROVE  DatesOK'
<1>1. /\ pc = "idle" /\ pc' = "append" /\ mon' = m /\ m \in Due /\ Turn(m) /\ timer_set(m)
      /\ UNCHANGED <<fs, writing, reading, clock, clockSynched, batch, server, now>>
  BY DEF Sample, Turn, Punctual, disk, names, simon, upload
<1>2. Calm /\ pc \notin Booting /\ ~ Uploads /\ ~ Uploads' /\ ~ Takes /\ Takes' /\ Taking' /\ ~ Rolls' /\ ~ Remakes' /\ ~ Blanks'
      /\ pc' \notin Booting /\ pc' # "count" /\ pc' # "sync" /\ pc' # "rename" /\ pc' # "send"
      /\ pc' # "confirm" /\ pc' # "idle"
  BY <1>1, Zenon DEF Calm, Booting, Rolls, Taking, Takes, Remakes, Blanks, Uploads, InReader
<1>3. \A k \in Mon : OnTime(k) /\ OnTrack(k)
  BY <1>2 DEF DatesInv, DatesOK, Writers
<1> DEFINE w == write_timer[m]
           p == time_interv[m]
<1>4. /\ w \in Nat /\ now \in Nat /\ p \in Nat /\ p > 0 /\ MaxBusy \in Nat /\ Late \in Nat
      /\ w <= now /\ now - w <= Late /\ Late < p
      /\ ~ clockSynched => now - w + MaxBusy <= Late
  <2>1. /\ w \in Nat /\ now \in Nat /\ p \in Nat /\ p > 0 /\ MaxBusy \in Nat /\ Late \in Nat
        /\ w <= now /\ Late < p
    BY <1>1, TimeTypes, Interval, LateNat DEF Numbers, DatesInv, Due, Punctual
  <2>2. now - w <= MaxBusy * Requests(m)
    BY <1>3 DEF OnTime
  <2>3. /\ Requests(m) \in Int
        /\ Requests(m) <= num_monitores
        /\ ~ clockSynched => Requests(m) + 1 <= num_monitores
    <3>1. /\ Served = mon /\ mon < m /\ mon \in Nat /\ m \in Nat
          /\ num_monitores \in Nat /\ m <= num_monitores /\ Requests(m) \in Int
      BY <1>1, <1>2, TimeTypes DEF Numbers, DatesInv, Turn, Served, Asking
    <3>2. Requests(m) = (num_monitores - m) + (IF clockSynched THEN 1 ELSE 0) + mon
      BY <1>2, <3>1 DEF Requests
    <3> QED  BY <3>1, <3>2
  <2> DEFINE r == Requests(m)
  <2>4. /\ MaxBusy * r \in Int /\ MaxBusy * r <= Late
        /\ ~ clockSynched => MaxBusy * r + MaxBusy <= Late
    <3> HIDE DEF r
    <3>1. r \in Int /\ r + 1 \in Int /\ num_monitores \in Int /\ r <= num_monitores
          /\ (~ clockSynched => r + 1 <= num_monitores)
      BY <2>3, LateNat DEF r
    <3>2. MaxBusy * r \in Int /\ MaxBusy * r <= Late
      BY <3>1, RequestsBound
    <3>3. CASE ~ clockSynched
      <4> DEFINE q == r + 1
      <4>1. q \in Int /\ q <= num_monitores /\ q - 1 = r
        BY <3>1, <3>3
      <4> HIDE DEF q
      <4>2. MaxBusy * q \in Int /\ MaxBusy * q <= Late /\ MaxBusy * r = MaxBusy * q - MaxBusy
        BY <4>1, RequestsBound
      <4> DEFINE x == MaxBusy * q
                 y == MaxBusy * r
      <4>3. MaxBusy \in Nat /\ Late \in Nat
        BY LateNat
      <4> HIDE DEF x, y
      <4>4. y + MaxBusy <= Late
        BY <4>2, <4>3 DEF x, y
      <4> QED  BY <3>2, <4>4 DEF y
    <3> QED  BY <3>2, <3>3
  <2> HIDE DEF w, r, p
  <2>5. now - w <= MaxBusy * r
    BY <2>2 DEF r
  <2> QED  BY <2>1, <2>4, <2>5
<1>5. write_timer' = [write_timer EXCEPT ![m] = w + p]
  BY <1>1, <1>4, TimerKeepsPace DEF DatesInv
<1>6. write_timer'[m] = w + p /\ \A k \in Mon \ {m} : write_timer'[k] = write_timer[k]
  BY <1>5 DEF DatesInv, TimesInv, InTime, RestTyped
<1>7. ASSUME NEW k \in Mon PROVE OnTrack(k)'
  <2>1. writing[k] \in DOMAIN fs[k]
    BY <1>1, <1>2 DEF DatesInv, TimesInv, NamesInv, NamesFound, HasLog
  <2>2. /\ ~ Rolling(k) /\ ~ Rolling(k)' /\ ~ Counting(k) /\ ~ Counting(k)'
    BY <1>2 DEF Calm, Rolling, Counting
  <2>3. NextDue(k) = write_timer[k]
    BY <1>2 DEF Calm, NextDue
  <2>4. NextDue(k)' = write_timer[k]
    <3>1. CASE k = m
      <4>1. NextDue(k)' = (w + p) - p
        BY <1>1, <1>2, <1>6, <3>1 DEF NextDue
      <4> HIDE DEF w, p
      <4>2. (w + p) - p = w
        BY <1>4
      <4> QED  BY <3>1, <4>1, <4>2 DEF w
    <3>2. CASE k # m
      BY <1>1, <1>6, <3>2 DEF NextDue
    <3> QED  BY <3>1, <3>2
  <2>5. Alike(fs[k], fs'[k])
    BY <1>1 DEF Alike
  <2> QED  BY <1>1, <1>3, <2>1, <2>2, <2>3, <2>4, <2>5, TrackKept
<1>8. ASSUME NEW k \in Mon PROVE OnTime(k)'
  <2> DEFINE r == Requests(k)
             s == Requests(k)'
             a == IF clockSynched THEN 0 ELSE 1
  <2>1. /\ Served = mon /\ Served' = m - a /\ mon < m /\ mon \in Nat /\ m \in Nat /\ k \in Nat
        /\ k <= num_monitores /\ num_monitores \in Nat /\ r \in Int /\ s \in Int
    BY <1>1, <1>2, TimeTypes DEF Numbers, DatesInv, Turn, Served, Asking
  <2>2. CASE k = m
    <3>1. s = -a
      BY <1>1, <1>2, <2>1, <2>2 DEF Requests
    <3>2. MaxBusy * s = IF clockSynched THEN 0 ELSE -MaxBusy
      <4>1. MaxBusy * 0 = 0 /\ MaxBusy * (-1) = -MaxBusy
        BY LateNat
      <4> QED  BY <3>1, <4>1
    <3>3. now' - write_timer'[k] <= MaxBusy * s
      <4>1. now' - write_timer'[k] = now - (w + p)
        BY <1>1, <1>6, <2>2
      <4> DEFINE x == MaxBusy * s
      <4> HIDE DEF w, p, x
      <4> QED  BY <1>4, <3>2, <4>1 DEF x
    <3> QED  BY <3>3 DEF OnTime
  <2>3. CASE k > m
    <3>1. r <= s
      BY <1>1, <1>2, <2>1, <2>3 DEF Requests
    <3> QED  BY <1>1, <1>3, <1>6, <2>1, <2>3, <3>1, WaitsOn DEF DatesInv
  <2>4. CASE k <= mon
    <3>1. r <= s
      BY <1>1, <1>2, <2>1, <2>4 DEF Requests
    <3> QED  BY <1>1, <1>3, <1>6, <2>1, <2>4, <3>1, WaitsOn DEF DatesInv
  <2>5. CASE k < m /\ k > mon
    <3>1. s \in Nat
      BY <1>1, <1>2, <2>1, <2>5 DEF Requests
    <3>2. k \notin Due
      BY <1>1, <2>1, <2>5 DEF Turn
    <3>3. now' <= write_timer'[k]
      <4>1. now \in Nat /\ write_timer[k] \in Nat
        BY TimeTypes DEF Numbers, DatesInv
      <4> QED  BY <1>1, <1>6, <2>1, <2>5, <3>2, <4>1 DEF Due
    <3> QED  BY <3>1, <3>3, NotDueWaits
  <2> QED  BY <2>1, <2>2, <2>3, <2>4, <2>5
<1>9. JustTaken'
  <2>1. Lateness' = now - ((w + p) - p)
    BY <1>1, <1>6 DEF Lateness
  <2> HIDE DEF w, p
  <2>2. Lateness' \in 0 .. Late /\ (~ clockSynched => Lateness' + MaxBusy <= Late)
    BY <1>4, <2>1
  <2> QED  BY <1>1, <2>2 DEF JustTaken
<1>10. Stages'
  BY <1>2 DEF Stages
<1>11. ClockSet' /\ AllStamped'
  BY <1>1, <1>2 DEF DatesInv, DatesOK, ClockSet, AllStamped
<1> QED  BY <1>7, <1>8, <1>9, <1>10, <1>11 DEF DatesOK, Writers

LEMMA LatenessKept ==
    ASSUME UNCHANGED <<now, write_timer, mon>>
    PROVE  Lateness' = Lateness
BY DEF Lateness

LEMMA AppendDates ==
    ASSUME Punctual, DatesInv, AppendLine, TimesInv'
    PROVE  DatesOK'
<1> DEFINE n == writing[mon]
           g == fs[mon][n]
           f == [g EXCEPT !.lines = Append(g.lines, now)]
           p == time_interv[mon]
<1>1. /\ pc = "append" /\ pc' = "count" /\ mon' = mon /\ Store(n, f)
      /\ UNCHANGED <<metafile, writing, reading, clock, clockSynched, batch, server,
                     now, write_timer>>
  BY DEF AppendLine, Goto, Current, names, simon, upload, env
<1>2. /\ pc \notin Booting /\ ~ Uploads /\ ~ Uploads' /\ ~ Remakes' /\ ~ Blanks' /\ ~ Rolls /\ ~ Rolls'
      /\ pc' \notin Booting /\ pc' # "sync" /\ pc' # "rename" /\ Takes /\ pc # "roll" /\ pc # "count"
      /\ Taking /\ ~ Taking' /\ pc' # "send" /\ pc' # "confirm" /\ pc' # "idle"
  BY <1>1, Zenon DEF Booting, Rolls, Taking, Takes, Remakes, Blanks, Uploads, InReader
<1>3. mon \in Mon
  BY <1>1 DEF DatesInv, TimesInv, NamesInv, NamesTypes
<1>4. /\ g \in Log /\ n \in DOMAIN fs[mon] /\ now \in StartTime .. MaxTime /\ now \in Nat
      /\ write_timer[mon] \in Nat /\ p \in Nat
  BY <1>2, <1>3, CurrentFits, NowTimes, Interval
     DEF DatesInv, TimesInv, FitsIn, Current, InTime, RestTyped
<1>5. /\ f \in Log /\ f.lines = Append(g.lines, now)
      /\ f.synched = g.synched /\ f.start = g.start /\ f.count = g.count
  <2> DEFINE T == StartTime .. MaxTime
             l == Append(g.lines, now)
  <2>1. g.lines \in Seq(T) /\ now \in T
    <3> HIDE DEF g
    <3> QED  BY <1>4 DEF Log
  <2>2. l \in Seq(T)
    <3> HIDE DEF T, g
    <3> QED  BY <2>1
  <2> HIDE DEF l
  <2>3. f = [g EXCEPT !.lines = l]
    BY DEF l
  <2> HIDE DEF f, g
  <2>4. f \in Log /\ f.lines = l /\ f.synched = g.synched /\ f.start = g.start /\ f.count = g.count
    BY <1>4, <2>2, <2>3 DEF Log
  <2> QED  BY <2>4 DEF l
<1>6. /\ fs'[mon] = With(fs[mon], n, f)
      /\ \A m \in Mon \ {mon} : fs'[m] = fs[m]
  BY <1>1, <1>3 DEF Store, DatesInv, TimesInv, NamesInv, NamesTypes
<1> HIDE DEF f
<1>7. /\ DOMAIN fs'[mon] = DOMAIN fs[mon] \cup {n} /\ fs'[mon][n] = f
      /\ \A x \in DOMAIN fs[mon] \ {n} : fs'[mon][x] = fs[mon][x]
  BY <1>6 DEF With
<1>8. Lateness \in 0 .. Late /\ (~ clockSynched => Lateness + MaxBusy <= Late)
  BY <1>2 DEF DatesInv, DatesOK, JustTaken
<1>9. ASSUME NEW m \in Mon, m = mon PROVE OnTrack(m)'
  <2> DEFINE d == NextDue(m)
  <2>1. OnTrack(m)
    BY <1>2 DEF DatesInv, DatesOK, Writers
  <2>2. ~ Rolling(m) /\ ~ Rolling(m)' /\ ~ Counting(m) /\ Counting(m)'
    BY <1>1, <1>2, <1>9 DEF Rolling, Counting
  <2>3. d = write_timer[mon] - p /\ NextDue(m)' = write_timer[mon]
    BY <1>1, <1>2, <1>9 DEF NextDue
  <2>4. CASE LeftBehind(m)
    <3>1. n # LOG_FILENAME_START /\ g.synched
      BY <1>9, <2>2, <2>4 DEF LeftBehind
    <3>2. fs'[m][writing'[m]].synched /\ writing'[m] # LOG_FILENAME_START
      BY <1>1, <1>5, <1>7, <1>9, <3>1
    <3>3. \A x \in DOMAIN fs[m] \ {n} : x \in DOMAIN fs'[m] /\ fs'[m][x] = fs[m][x]
      BY <1>7, <1>9
    <3> HIDE DEF n
    <3> QED  BY <1>1, <2>4, <3>1, <3>2, <3>3, StaysBehind
  <2>5. CASE Tracked(m)
    <3>1. Track(m, g)
      BY <1>9, <2>2, <2>5 DEF Tracked
    <3>2. /\ OnPace(m, g, d) /\ g.count = Len(g.lines)
          /\ g.synched => clockSynched
          /\ ~ g.synched => n = LOG_FILENAME_START /\ reading[m] = LOG_FILENAME_START
      BY <1>9, <2>2, <3>1 DEF Track
    <3>3. d \in Int /\ d + p = write_timer[mon] /\ now - d \in 0 .. Late
      <4>1. Lateness = now - (write_timer[mon] - p)
        BY DEF Lateness
      <4> HIDE DEF p, d
      <4> QED  BY <1>4, <1>8, <2>3, <4>1
    <3>4. OnPace(m, f, d + p)
      <4> HIDE DEF g, d
      <4> QED  BY <1>4, <1>5, <1>9, <3>2, <3>3, PaceAppend
    <3>5. f.count + 1 = Len(f.lines)
      <4> DEFINE T == StartTime .. MaxTime
                 l == g.lines
      <4>1. l \in Seq(T)
        <5> HIDE DEF g
        <5> QED  BY <1>4 DEF Log
      <4>2. f.lines = Append(l, now) /\ f.count = Len(l)
        BY <1>5, <3>2
      <4> HIDE DEF T, l
      <4>3. Len(Append(l, now)) = Len(l) + 1
        BY <4>1
      <4> QED  BY <4>2, <4>3
    <3>6. /\ \A x \in DOMAIN fs[m] : fs[m][x].synched => Exact(m, fs[m][x])
          /\ fs'[m][n] = f /\ writing'[m] = n
          /\ \A x \in DOMAIN fs'[m] \ {n} : x \in DOMAIN fs[m] /\ fs'[m][x] = fs[m][x]
          /\ f.synched => clockSynched'
          /\ ~ f.synched => n = LOG_FILENAME_START /\ reading'[m] = LOG_FILENAME_START
      BY <1>1, <1>5, <1>7, <1>9, <2>5, <3>2 DEF Tracked
    <3>7. NextDue(m)' = write_timer[mon] /\ write_timer[mon] \in Int /\ OnPace(m, f, write_timer[mon])
      BY <1>4, <2>3, <3>3, <3>4
    <3> DEFINE v == write_timer[mon]
    <3> HIDE DEF n, v
    <3> QED  BY <1>5, <2>2, <3>5, <3>6, <3>7, TrackedOn DEF v
  <2> QED  BY <2>1, <2>4, <2>5 DEF OnTrack
<1>10. ASSUME NEW m \in Mon, m # mon PROVE OnTrack(m)'
  BY <1>1, <1>2, <1>6, <1>10, OthersKept
<1>11. Writers'
  BY <1>1, <1>2, <1>9, <1>10, TimeKept DEF Writers
<1>12. JustTaken'
  BY <1>1, <1>8, LatenessKept DEF JustTaken
<1>13. Stages'
  BY <1>2 DEF Stages
<1>14. ClockSet' /\ AllStamped'
  BY <1>1, <1>2 DEF DatesInv, DatesOK, ClockSet, AllStamped
<1> QED  BY <1>11, <1>12, <1>13, <1>14 DEF DatesOK

LEMMA CountDates ==
    ASSUME Punctual, DatesInv, CountEntry, TimesInv'
    PROVE  DatesOK'
<1> DEFINE n == writing[mon]
           g == fs[mon][n]
           f == [g EXCEPT !.count = @ + 1]
           w == IF Full(f.count) THEN Hour(clock) ELSE n
<1>1. /\ pc = "count" /\ pc' \in {"roll", "sync", "idle"} /\ mon' = mon /\ Store(n, f)
      /\ writing' = [writing EXCEPT ![mon] = w]
      /\ UNCHANGED <<reading, clock, clockSynched, batch, server, now, write_timer>>
      /\ pc' # "roll" => ~ Full(f.count)
      /\ pc' = "roll" => Full(f.count)
      /\ pc' = "sync" => ~ f.synched
  BY DEF CountEntry, StoreHeader, Punctual, Goto, Current, simon, upload, env
<1>2. /\ pc \notin Booting /\ ~ Uploads /\ ~ Uploads' /\ ~ Remakes' /\ ~ Blanks' /\ ~ Rolls
      /\ pc' \notin Booting /\ pc' # "rename" /\ Takes /\ pc # "roll" /\ pc' # "count"
      /\ ~ Taking /\ ~ Taking' /\ pc' # "send" /\ pc' # "confirm" /\ (Rolls' <=> pc' = "roll")
  BY <1>1, Zenon DEF Booting, Rolls, Taking, Takes, Remakes, Blanks, Uploads, InReader
<1>3. mon \in Mon
  BY <1>1 DEF DatesInv, TimesInv, NamesInv, NamesTypes
<1>4. g \in Log /\ n \in DOMAIN fs[mon] /\ write_timer[mon] \in Nat
  BY <1>2, <1>3, CurrentFits DEF DatesInv, TimesInv, FitsIn, Current, InTime, RestTyped
<1>5. /\ f \in Log /\ f.lines = g.lines /\ f.count = g.count + 1
      /\ f.synched = g.synched /\ f.start = g.start
  <2> HIDE DEF g
  <2> QED  BY <1>4 DEF Log
<1>6. /\ fs'[mon] = With(fs[mon], n, f)
      /\ \A m \in Mon \ {mon} : fs'[m] = fs[m]
  BY <1>1, <1>3 DEF Store, DatesInv, TimesInv, NamesInv, NamesTypes
<1>7. Hour(clock) # LOG_FILENAME_START
  <2>1. clock \in Nat /\ clock <= MaxTime /\ HourLen \in Nat \ {0}
    BY NowTimes, MonitorAssumption DEF DatesInv, TimesInv, InTime, RestTyped
  <2>2. clock \div HourLen <= clock
    BY <2>1
  <2>3. clock \div HourLen \in Nat
    BY <2>1
  <2>4. MaxTime < LOG_FILENAME_START /\ MaxTime \in Nat /\ LOG_FILENAME_START \in Nat
    BY MonitorAssumption, NamesAreNat
  <2> QED  BY <2>1, <2>2, <2>3, <2>4 DEF Hour
<1> HIDE DEF f
<1>8. /\ DOMAIN fs'[mon] = DOMAIN fs[mon] /\ fs'[mon][n] = f
      /\ \A x \in DOMAIN fs[mon] \ {n} : fs'[mon][x] = fs[mon][x]
  BY <1>4, <1>6 DEF With
<1>9. /\ writing'[mon] = w
      /\ \A m \in Mon \ {mon} : writing'[m] = writing[m]
  BY <1>1, <1>3 DEF DatesInv, TimesInv, NamesInv, NamesTypes
<1>10. /\ pc' = "roll" => w = Hour(clock)
       /\ pc' # "roll" => w = n
  BY <1>1
<1> HIDE DEF w
<1>11. ASSUME NEW m \in Mon, m = mon PROVE OnTrack(m)'
  <2>1. OnTrack(m)
    BY <1>2 DEF DatesInv, DatesOK, Writers
  <2>2. ~ Rolling(m) /\ Counting(m) /\ ~ Counting(m)' /\ (Rolling(m)' <=> pc' = "roll")
    BY <1>1, <1>2, <1>11 DEF Rolling, Counting
  <2>3. NextDue(m) = write_timer[m] /\ NextDue(m)' = write_timer[m]
    BY <1>1, <1>2 DEF NextDue
  <2>4. CASE LeftBehind(m)
    <3>1. n # LOG_FILENAME_START /\ g.synched
      BY <1>11, <2>2, <2>4 DEF LeftBehind
    <3>2. writing'[m] # LOG_FILENAME_START
      BY <1>7, <1>9, <1>10, <1>11, <3>1
    <3>3. ~ Rolling(m)' => fs'[m][writing'[m]].synched
      BY <1>5, <1>8, <1>9, <1>10, <1>11, <2>2, <3>1
    <3>4. \A x \in DOMAIN fs[m] \ {n} : x \in DOMAIN fs'[m] /\ fs'[m][x] = fs[m][x]
      BY <1>8, <1>11
    <3> HIDE DEF n
    <3> QED  BY <1>1, <2>4, <3>1, <3>2, <3>3, <3>4, StaysBehind
  <2>5. CASE Tracked(m)
    <3>1. Track(m, g)
      BY <1>11, <2>2, <2>5 DEF Tracked
    <3>2. /\ OnPace(m, g, write_timer[m]) /\ g.count + 1 = Len(g.lines)
          /\ g.synched => clockSynched
          /\ ~ g.synched => n = LOG_FILENAME_START /\ reading[m] = LOG_FILENAME_START
      BY <1>11, <2>2, <2>3, <3>1 DEF Track
    <3>3. OnPace(m, f, write_timer[m])
      <4> DEFINE v == write_timer[m]
      <4> HIDE DEF g, v
      <4> QED  BY <1>5, <3>2, PaceStamp DEF v
    <3>4. f.count = Len(f.lines)
      BY <1>5, <3>2
    <3>5. \A x \in DOMAIN fs[m] : fs[m][x].synched => Exact(m, fs[m][x])
      BY <2>5 DEF Tracked
    <3>6. /\ fs'[m][n] = f
          /\ \A x \in DOMAIN fs'[m] \ {n} : x \in DOMAIN fs[m] /\ fs'[m][x] = fs[m][x]
      BY <1>8, <1>11
    <3>7. CASE pc' # "roll"
      <4>1. /\ writing'[m] = n
            /\ f.synched => clockSynched'
            /\ ~ f.synched => n = LOG_FILENAME_START /\ reading'[m] = LOG_FILENAME_START
        BY <1>1, <1>5, <1>9, <1>10, <1>11, <3>2, <3>7
      <4>2. write_timer[m] \in Int
        BY <1>4, <1>11
      <4> DEFINE v == write_timer[m]
      <4> HIDE DEF n, v
      <4> QED  BY <1>5, <2>2, <2>3, <3>3, <3>4, <3>5, <3>6, <3>7, <4>1, <4>2, TrackedOn DEF v
    <3>8. CASE pc' = "roll" /\ f.synched
      <4>1. ASSUME NEW x \in DOMAIN fs'[m], fs'[m][x].synched PROVE Exact(m, fs'[m][x])
        <5>1. CASE x = n
          <6>1. Exact(m, g)
            BY <1>4, <1>5, <1>11, <3>5, <3>8
          <6>2. Exact(m, f)
            <7> HIDE DEF g
            <7> QED  BY <1>5, <6>1, ExactSame
          <6> QED  BY <3>6, <5>1, <6>2
        <5>2. CASE x # n
          BY <3>5, <3>6, <4>1, <5>2
        <5> QED  BY <5>1, <5>2
      <4>2. clockSynched'
        BY <1>1, <1>5, <3>2, <3>8
      <4>3. Tracked(m)'
        BY <2>2, <3>8, <4>1, <4>2 DEF Tracked
      <4> QED  BY <4>3 DEF OnTrack
    <3>9. CASE pc' = "roll" /\ ~ f.synched
      <4>1. n = LOG_FILENAME_START /\ reading'[m] = LOG_FILENAME_START
        BY <1>1, <1>5, <3>2, <3>9
      <4>2. /\ writing'[m] # LOG_FILENAME_START
            /\ LOG_FILENAME_START \in DOMAIN fs'[m] /\ ~ fs'[m][LOG_FILENAME_START].synched
        BY <1>4, <1>7, <1>8, <1>9, <1>10, <1>11, <3>9, <4>1
      <4>3. LeftBehind(m)'
        BY <2>2, <3>9, <4>1, <4>2 DEF LeftBehind
      <4> QED  BY <4>3 DEF OnTrack
    <3> QED  BY <3>7, <3>8, <3>9
  <2> QED  BY <2>1, <2>4, <2>5 DEF OnTrack
<1>12. ASSUME NEW m \in Mon, m # mon PROVE OnTrack(m)'
  BY <1>1, <1>2, <1>6, <1>9, <1>12, OthersKept
<1>13. Writers'
  BY <1>1, <1>2, <1>11, <1>12, TimeKept DEF Writers
<1>14. JustTaken'
  <2>1. Lateness \in 0 .. Late /\ (~ clockSynched => Lateness + MaxBusy <= Late)
    BY <1>2 DEF DatesInv, DatesOK, JustTaken
  <2> QED  BY <1>1, <2>1, LatenessKept DEF JustTaken
<1>15. Stages'
  <2>1. pc' = "sync" => ~ Current'.synched
    BY <1>1, <1>8, <1>9, <1>10 DEF Current
  <2>2. mon' <= num_monitores
    BY <1>1, <1>3, LateNat DEF Mon
  <2> QED  BY <1>2, <2>1, <2>2 DEF Stages
<1>16. ClockSet' /\ AllStamped'
  BY <1>1, <1>2 DEF DatesInv, DatesOK, ClockSet, AllStamped
<1> QED  BY <1>13, <1>14, <1>15, <1>16 DEF DatesOK

\* Making the file after a full one.

LEMMA MadeDates ==
    ASSUME Punctual, DatesInv, FileMade, TimesInv'
    PROVE  DatesOK'
<1>1. /\ Rolls /\ pc' \in {"roll header", "roll stamp", "idle"} /\ mon' = mon
      /\ UNCHANGED <<writing, reading, clock, clockSynched, batch, server, now, write_timer>>
      /\ (Rolls' <=> Blanks')
      /\ (~ Blanks' <=> RollStamp)
  <2>1. ~ Remakes
    BY DEF DatesInv, DatesOK, Stages
  <2>2. \/ OpenWrite("roll", "roll header") \/ NewHeader("roll header", "roll stamp")
        \/ RollStamp
    BY <2>1, Zenon DEF FileMade, OpenWrite, NewHeader, Remakes
  <2> QED  BY <2>2, Zenon DEF OpenWrite, NewHeader, RollStamp, Goto, Rolls, Blanks, names, simon, upload, env
<1>2. /\ pc \notin Booting /\ ~ Uploads /\ ~ Uploads' /\ ~ Remakes' /\ Takes
      /\ pc' \notin Booting /\ pc' # "rename" /\ pc # "count" /\ pc' # "count" /\ pc' # "sync"
      /\ ~ Taking /\ ~ Taking' /\ pc' # "send" /\ pc' # "confirm"
  BY <1>1, Zenon DEF Booting, Rolls, Taking, Takes, Remakes, Uploads, InReader
<1>3. mon \in Mon
  BY <1>1, Zenon DEF DatesInv, TimesInv, NamesInv, NamesTypes, Rolls
<1>4. /\ now \in Nat /\ write_timer[mon] \in Nat /\ time_interv[mon] \in Nat
  BY <1>3, NowTimes, Interval DEF DatesInv, TimesInv, InTime, RestTyped
<1>5. PICK f : /\ Store(writing[mon], f) /\ f.lines = <<>> /\ f.count = 0
               /\ Blanks' => ~ f.synched
               /\ ~ Blanks' => f.synched /\ f.start = clock
  <2>1. CASE OpenWrite("roll", "roll header")
    <3>1. Store(writing[mon], Empty) /\ Blanks'
      BY <2>1, Zenon DEF OpenWrite, Goto, Blanks
    <3>2. Empty.lines = <<>> /\ Empty.count = 0 /\ ~ Empty.synched
      BY DEF Empty
    <3> QED  BY <3>1, <3>2
  <2>2. CASE NewHeader("roll header", "roll stamp")
    <3> DEFINE e == Empty
               g == [e EXCEPT !.ok = TRUE]
               h == [g EXCEPT !.lines = Current.lines]
    <3>1. Store(writing[mon], h) /\ Blanks' /\ Blanks
      BY <2>2, Zenon DEF NewHeader, Goto, Blanks
    <3>2. e \in Log /\ e.count = 0 /\ ~ e.synched
      BY DEF Empty, Log
    <3> HIDE DEF e
    <3>3. g \in Log /\ g.count = 0 /\ ~ g.synched
      BY <3>2 DEF Log
    <3> HIDE DEF g
    <3>4. h.count = 0 /\ ~ h.synched /\ h.lines = Current.lines
      BY <3>3 DEF Log
    <3>5. Current.lines = <<>>
      BY <3>1 DEF DatesInv, DatesOK, Stages
    <3> HIDE DEF h
    <3> QED  BY <3>1, <3>4, <3>5
  <2>3. CASE RollStamp
    <3> DEFINE e == Current
               g == [e EXCEPT !.start = clock]
               h == [g EXCEPT !.synched = TRUE]
    <3>1. Store(writing[mon], h) /\ ~ Blanks' /\ Blanks /\ pc # "roll"
      BY <2>3, Zenon DEF RollStamp, Goto, Blanks
    <3>2. e \in Log
      BY <1>2, <1>3, <3>1, CurrentFits DEF DatesInv, FitsIn
    <3>3. e.lines = <<>> /\ e.count = 0
      BY <3>1 DEF DatesInv, DatesOK, Stages
    <3>4. clock \in Nat
      BY NowTimes DEF DatesInv
    <3> HIDE DEF e
    <3>5. g \in Log /\ g.count = 0 /\ g.lines = <<>> /\ g.start = clock
      BY <3>2, <3>3, <3>4 DEF Log
    <3> HIDE DEF g
    <3>6. h.count = 0 /\ h.synched /\ h.lines = <<>> /\ h.start = clock
      BY <3>5 DEF Log
    <3> HIDE DEF h
    <3> QED  BY <3>1, <3>6
  <2>4. ~ Remakes
    BY DEF DatesInv, DatesOK, Stages
  <2> QED  BY <2>1, <2>2, <2>3, <2>4, Zenon DEF FileMade, OpenWrite, NewHeader, Remakes
<1> DEFINE n == writing[mon]
<1>6. /\ fs'[mon] = With(fs[mon], n, f)
      /\ \A m \in Mon \ {mon} : fs'[m] = fs[m]
  BY <1>3, <1>5 DEF Store, DatesInv, TimesInv, NamesInv, NamesTypes
<1>7. /\ DOMAIN fs'[mon] = DOMAIN fs[mon] \cup {n} /\ fs'[mon][n] = f
      /\ \A x \in DOMAIN fs[mon] \ {n} : fs'[mon][x] = fs[mon][x]
  BY <1>6 DEF With
<1>8. f \in Log
  <2>1. n \in DOMAIN fs'[mon]
    BY <1>7
  <2> HIDE DEF n
  <2> QED  BY <1>3, <1>7, <2>1 DEF TimesInv, InTime, CardTyped, FitsIn
<1>9. Lateness \in 0 .. Late /\ (~ clockSynched => Lateness + MaxBusy <= Late)
  BY <1>2 DEF DatesInv, DatesOK, JustTaken
<1>10. ASSUME NEW m \in Mon, m = mon PROVE OnTrack(m)'
  <2>1. OnTrack(m)
    BY <1>2 DEF DatesInv, DatesOK, Writers
  <2>2. Rolling(m) /\ ~ Counting(m)' /\ (Rolling(m)' <=> Blanks')
    BY <1>1, <1>2, <1>10 DEF Rolling, Counting
  <2>3. NextDue(m)' = write_timer[m]
    BY <1>1, <1>2 DEF NextDue
  <2>4. CASE LeftBehind(m)
    <3>1. n # LOG_FILENAME_START
      BY <1>10, <2>4 DEF LeftBehind
    <3>2. /\ ~ Rolling(m)' => fs'[m][writing'[m]].synched
          /\ writing'[m] # LOG_FILENAME_START
          /\ \A x \in DOMAIN fs[m] \ {n} : x \in DOMAIN fs'[m] /\ fs'[m][x] = fs[m][x]
      BY <1>1, <1>5, <1>7, <1>10, <2>2, <3>1
    <3> HIDE DEF n
    <3> QED  BY <1>1, <2>4, <3>1, <3>2, StaysBehind
  <2>5. CASE Tracked(m)
    <3>1. clockSynched
      BY <2>2, <2>5 DEF Tracked
    <3>2. \A x \in DOMAIN fs[m] : fs[m][x].synched => Exact(m, fs[m][x])
      BY <2>5 DEF Tracked
    <3>3. /\ fs'[m][n] = f
          /\ \A x \in DOMAIN fs'[m] \ {n} : x \in DOMAIN fs[m] /\ fs'[m][x] = fs[m][x]
      BY <1>7, <1>10
    <3>4. CASE Blanks'
      <4>1. ASSUME NEW x \in DOMAIN fs'[m], fs'[m][x].synched PROVE Exact(m, fs'[m][x])
        <5>1. x # n
          BY <1>5, <3>3, <3>4, <4>1
        <5> QED  BY <3>2, <3>3, <4>1, <5>1
      <4>2. Tracked(m)'
        BY <1>1, <2>2, <3>1, <3>4, <4>1 DEF Tracked
      <4> QED  BY <4>2 DEF OnTrack
    <3>5. CASE ~ Blanks'
      <4> DEFINE v == write_timer[m]
      <4>1. v \in Int /\ f.start - (v - time_interv[m]) \in 0 .. Late
        <5>1. clock = now
          BY <3>1 DEF DatesInv, DatesOK, ClockSet
        <5>2. Lateness = now - (v - time_interv[m])
          BY <1>10 DEF Lateness
        <5> QED  BY <1>4, <1>5, <1>9, <1>10, <3>5, <5>1, <5>2
      <4>2. writing'[m] = n /\ clockSynched' /\ f.synched /\ f.lines = <<>> /\ f.count = 0
        BY <1>1, <1>5, <1>10, <3>1, <3>5
      <4> HIDE DEF v, n
      <4>3. OnPace(m, f, v)
        BY <4>1, <4>2, PaceStart
      <4>4. f.count = Len(f.lines) /\ NextDue(m)' = v
        BY <2>3, <4>2 DEF v
      <4>5. ~ Rolling(m)' /\ ~ Counting(m)'
        BY <2>2, <3>5
      <4> QED  BY <1>8, <3>2, <3>3, <4>1, <4>2, <4>3, <4>4, <4>5, TrackedOn
    <3> QED  BY <3>4, <3>5
  <2> QED  BY <2>1, <2>4, <2>5 DEF OnTrack
<1>11. ASSUME NEW m \in Mon, m # mon PROVE OnTrack(m)'
  BY <1>1, <1>2, <1>6, <1>11, OthersKept
<1>12. Writers'
  BY <1>1, <1>2, <1>10, <1>11, TimeKept DEF Writers
<1>13. JustTaken'
  BY <1>1, <1>9, LatenessKept DEF JustTaken
<1>14. Stages'
  <2>1. Current' = f
    BY <1>1, <1>7 DEF Current
  <2>2. Blanks' => f.lines = <<>> /\ f.count = 0 /\ ~ f.synched
    BY <1>5
  <2>3. mon' <= num_monitores
    BY <1>1, <1>3, MonRange
  <2> QED  BY <1>2, <2>1, <2>2, <2>3 DEF Stages
<1>15. ClockSet' /\ AllStamped'
  BY <1>1, <1>2 DEF DatesInv, DatesOK, ClockSet, AllStamped
<1> QED  BY <1>12, <1>13, <1>14, <1>15 DEF DatesOK

-----------------------------------------------------------------------------
\* Dating a file: its last entry and the request that dates it are late together by
\* no more than a pass, and once the clock is set no request is made.

LEMMA SyncStampDates ==
    ASSUME Punctual, DatesInv, SyncStamp, TimesInv'
    PROVE  DatesOK'
<1> DEFINE n == writing[mon]
           start == now' - TimeElapsed
           f == [Current EXCEPT !.start = start, !.synched = TRUE]
           p == time_interv[mon]
           k == Len(Current.lines)
<1>1. /\ pc = "sync" /\ pc' = "rename" /\ mon' = mon /\ Store(n, f)
      /\ clock' = now' /\ clockSynched' = TRUE
      /\ UNCHANGED <<writing, reading, batch, server, write_timer>>
      /\ IF clockSynched THEN now' = now ELSE now' = now \/ now' = now + MaxBusy
  BY DEF SyncStamp, StoreHeader, Punctual, Goto, Busy, env, names, upload
<1>2. /\ pc \notin Booting /\ ~ Uploads /\ ~ Uploads' /\ ~ Remakes' /\ ~ Blanks' /\ Takes /\ ~ Takes'
      /\ pc' \notin Booting /\ pc # "count" /\ pc' # "count" /\ ~ Rolls /\ ~ Rolls'
      /\ ~ Taking /\ ~ Taking' /\ pc # "roll" /\ pc' # "sync"
      /\ pc' # "idle" /\ pc' # "send" /\ pc' # "confirm"
  BY <1>1, Zenon DEF Booting, Rolls, Taking, Takes, Remakes, Blanks, Uploads, InReader
<1>3. mon \in Mon
  BY <1>1 DEF DatesInv, TimesInv, NamesInv, NamesTypes
<1>4. /\ now \in Nat /\ now' \in Nat /\ write_timer \in [Mon -> Nat] /\ p \in Nat
      /\ MaxBusy \in Nat /\ Late \in Nat
  BY <1>3, NowTimes, Interval, LateNat DEF DatesInv, TimesInv, InTime, RestTyped
<1>5. n \in DOMAIN fs[mon] /\ Current = fs[mon][n] /\ Current \in Log /\ k \in Nat
  BY <1>2, <1>3, CurrentFits DEF DatesInv, FitsIn
<1>6. ~ Current.synched
  BY <1>1 DEF DatesInv, DatesOK, Stages
<1>7. /\ Tracked(mon) /\ Track(mon, Current)
  <2>1. OnTrack(mon) /\ ~ Rolling(mon)
    BY <1>2, <1>3 DEF DatesInv, DatesOK, Writers, Rolling
  <2>2. ~ LeftBehind(mon)
    BY <1>5, <1>6, <2>1 DEF LeftBehind
  <2> QED  BY <1>5, <2>1, <2>2 DEF OnTrack, Tracked
<1> DEFINE v == write_timer[mon]
<1>8. OnPace(mon, Current, v) /\ Current.count = k /\ n = LOG_FILENAME_START
  <2>1. NextDue(mon) = v /\ ~ Counting(mon)
    BY <1>2 DEF NextDue, Counting
  <2> QED  BY <1>6, <1>7, <2>1 DEF Track
<1>9. /\ f.lines = Current.lines /\ f.start = start /\ f.synched /\ f.count = Current.count
  <2> DEFINE e == Current
             g == [e EXCEPT !.start = start]
             h == [g EXCEPT !.synched = TRUE]
  <2>1. e \in Log
    BY <1>5
  <2> HIDE DEF e, start
  <2>2. /\ g.lines = e.lines /\ g.start = start /\ g.count = e.count
        /\ DOMAIN g = {"ok", "synched", "start", "last_idx", "count", "lines"}
    BY <2>1 DEF Log
  <2> HIDE DEF g
  <2>3. h.lines = g.lines /\ h.start = g.start /\ h.synched /\ h.count = g.count
    BY <2>2
  <2> HIDE DEF h
  <2>4. h = f
    BY Zenon DEF e, g, h
  <2> QED  BY <2>2, <2>3, <2>4 DEF e
<1>10. f.start - Began(mon, Current, v) \in 0 .. Late
  <2>1. TimeElapsed = p * k
    BY <1>8 DEF TimeElapsed
  <2>2. Began(mon, Current, v) = v - p * (k + 1)
    BY DEF Began
  <2>3. p * (k + 1) = p * k + p /\ p * k \in Nat
    BY <1>3, <1>5, Interval
  <2>4. /\ Lateness \in 0 .. Late /\ (~ clockSynched => Lateness + MaxBusy <= Late)
        /\ Lateness = now - (v - p)
    BY <1>2 DEF DatesInv, DatesOK, JustTaken, Lateness
  <2>5. v \in Nat
    BY <1>3, <1>4
  <2> DEFINE x == p * k
             y == p * (k + 1)
             b == Began(mon, Current, v)
  <2> HIDE DEF v, p, k, x, y, b
  <2>6. x \in Nat /\ y = x + p /\ b = v - y /\ start = now' - x
    BY <2>1, <2>2, <2>3 DEF x, y, b
  <2> HIDE DEF start
  <2>7. start - b = now' - (v - p)
    BY <1>4, <2>5, <2>6
  <2>8. now' - (v - p) \in 0 .. Late
    <3>1. CASE clockSynched
      BY <1>1, <1>4, <2>4, <2>5, <3>1
    <3>2. CASE ~ clockSynched
      <4>1. now - (v - p) + MaxBusy <= Late /\ now - (v - p) \in 0 .. Late
        BY <2>4, <3>2
      <4>2. now' = now \/ now' = now + MaxBusy
        BY <1>1, <3>2
      <4>3. CASE now' = now
        BY <1>4, <2>5, <4>1, <4>3
      <4>4. CASE now' = now + MaxBusy
        BY <1>4, <2>5, <4>1, <4>4
      <4> QED  BY <4>2, <4>3, <4>4
    <3> QED  BY <3>1, <3>2
  <2> QED  BY <1>9, <2>7, <2>8 DEF b
<1> HIDE DEF start, f
<1>11. OnPace(mon, f, v) /\ f.count = Len(f.lines)
  <2> DEFINE c == Current
  <2>1. OnPace(mon, c, v) /\ f.lines = c.lines /\ f.start - Began(mon, c, v) \in 0 .. Late
    BY <1>8, <1>9, <1>10
  <2>2. f.count = Len(f.lines)
    BY <1>8, <1>9
  <2> HIDE DEF c, v
  <2> QED  BY <2>1, <2>2, PaceStamp
<1>12. /\ fs'[mon] = With(fs[mon], n, f)
       /\ \A m \in Mon \ {mon} : fs'[m] = fs[m]
  BY <1>1, <1>3 DEF Store, DatesInv, TimesInv, NamesInv, NamesTypes
<1>13. /\ DOMAIN fs'[mon] = DOMAIN fs[mon] \cup {n} /\ fs'[mon][n] = f
       /\ \A x \in DOMAIN fs[mon] \ {n} : fs'[mon][x] = fs[mon][x]
  BY <1>12 DEF With
<1>14. f \in Log
  <2>1. n \in DOMAIN fs'[mon]
    BY <1>13
  <2> HIDE DEF n
  <2> QED  BY <1>3, <1>13, <2>1 DEF TimesInv, InTime, CardTyped, FitsIn
<1>15. ASSUME NEW m \in Mon, m = mon PROVE OnTrack(m)'
  <2>1. /\ ~ Rolling(m)' /\ ~ Counting(m)' /\ NextDue(m)' = v
        /\ writing'[m] = n /\ clockSynched' /\ v \in Int
    BY <1>1, <1>2, <1>3, <1>4, <1>15 DEF Rolling, Counting, NextDue
  <2>2. /\ \A x \in DOMAIN fs[m] : fs[m][x].synched => Exact(m, fs[m][x])
        /\ fs'[m][n] = f
        /\ \A x \in DOMAIN fs'[m] \ {n} : x \in DOMAIN fs[m] /\ fs'[m][x] = fs[m][x]
    BY <1>7, <1>13, <1>15 DEF Tracked
  <2>3. OnPace(m, f, v)
    BY <1>11, <1>15
  <2> HIDE DEF v, n
  <2> QED  BY <1>9, <1>11, <1>14, <2>1, <2>2, <2>3, TrackedOn
<1>16. ASSUME NEW m \in Mon, m # mon PROVE OnTrack(m)'
  BY <1>1, <1>2, <1>12, <1>16, OthersKept
<1>17. ASSUME NEW m \in Mon PROVE OnTime(m)'
  <2>1. OnTime(m)
    BY <1>2 DEF DatesInv, DatesOK, Writers
  <2>2. /\ (clockSynched /\ now' = now) \/ (~ clockSynched /\ now' \in {now, now + MaxBusy})
        /\ mon' = mon /\ clockSynched' /\ write_timer'[m] = write_timer[m]
    <3>1. IF clockSynched THEN UNCHANGED env ELSE Busy
      BY Zenon DEF SyncStamp
    <3> QED  BY <1>1, <3>1 DEF Busy, env
  <2>3. /\ clockSynched => Requests(m) = Requests(m)'
        /\ ~ clockSynched => Requests(m) + 1 <= Requests(m)'
    <3>1. /\ mon \in Nat /\ m \in Nat /\ num_monitores \in Nat
          /\ Served = (IF clockSynched THEN mon ELSE mon - 1) /\ Served' = mon
      BY <1>2, <2>2, TimeTypes DEF Numbers, DatesInv, Served, Asking
    <3> QED  BY <1>2, <2>2, <3>1 DEF Requests
  <2>4. Requests(m) \in Int /\ Requests(m)' \in Int
    BY TimeTypes DEF Numbers, DatesInv
  <2> QED  BY <2>1, <2>2, <2>3, <2>4, WaitsOn DEF DatesInv
<1>18. Writers'
  BY <1>15, <1>16, <1>17 DEF Writers
<1>19. JustTaken'
  BY <1>2 DEF JustTaken
<1>20. Stages'
  <2>1. Current' = f /\ writing'[mon'] = LOG_FILENAME_START
    BY <1>1, <1>8, <1>13 DEF Current
  <2> QED  BY <1>2, <1>9, <2>1 DEF Stages
<1>21. ClockSet' /\ AllStamped'
  BY <1>1, <1>2 DEF DatesInv, DatesOK, ClockSet, AllStamped
<1> QED  BY <1>18, <1>19, <1>20, <1>21 DEF DatesOK

LEMMA RenameDates ==
    ASSUME Punctual, DatesInv, Rename, TimesInv'
    PROVE  DatesOK'
<1> DEFINE n == writing[mon]
           k == newname
           f == fs[mon][n]
<1>1. /\ pc = "rename" /\ pc' \in {"sync open", "idle"} /\ mon' = mon
      /\ fs' = [fs EXCEPT ![mon] = Renamed(fs[mon], n, k)]
      /\ writing' = [writing EXCEPT ![mon] = k]
      /\ reading' = [reading EXCEPT ![mon] = IF SameFile THEN k ELSE reading[mon]]
      /\ UNCHANGED <<clock, clockSynched, batch, server, now, write_timer>>
  BY Zenon DEF Rename, Goto, simon, upload, env
<1>2. /\ pc \notin Booting /\ ~ Uploads /\ ~ Uploads' /\ ~ Takes /\ ~ Takes' /\ Plain' /\ pc # "roll" /\ Calm /\ Calm'
      /\ pc' # "send" /\ ~ Rolls /\ ~ Rolls' /\ ~ Taking /\ ~ Taking'
      /\ pc # "count" /\ pc' # "count" /\ pc' # "confirm"
  BY <1>1, Zenon DEF Calm, Plain, Booting, Rolls, Taking, Takes, Remakes, Blanks, Uploads, InReader
<1>3. mon \in Mon
  BY <1>1 DEF DatesInv, TimesInv, NamesInv, NamesTypes
<1>4. n \in DOMAIN fs[mon] /\ f \in Log /\ f = Current
  BY <1>2, <1>3, CurrentFits DEF DatesInv, FitsIn, Current
<1>5. n = LOG_FILENAME_START /\ f.synched
  BY <1>1, <1>4 DEF DatesInv, DatesOK, Stages
<1>6. /\ fs'[mon] = Renamed(fs[mon], n, k)
      /\ \A m \in Mon \ {mon} : fs'[m] = fs[m]
      /\ writing'[mon] = k
      /\ \A m \in Mon \ {mon} : writing'[m] = writing[m] /\ reading'[m] = reading[m]
  BY <1>1, <1>3 DEF DatesInv, TimesInv, NamesInv, NamesTypes
<1>7. /\ fs'[mon][k] = f
      /\ \A x \in DOMAIN fs'[mon] \ {k} : x \in DOMAIN fs[mon] /\ fs'[mon][x] = fs[mon][x]
  BY <1>6 DEF Renamed
<1>8. ASSUME NEW m \in Mon, m = mon PROVE OnTrack(m)'
  <2> DEFINE v == write_timer[m]
  <2>1. OnTrack(m) /\ ~ Rolling(m) /\ ~ Rolling(m)' /\ ~ Counting(m) /\ ~ Counting(m)'
    BY <1>2 DEF DatesInv, DatesOK, Writers, Rolling, Counting
  <2>2. NextDue(m) = v /\ NextDue(m)' = v
    BY <1>1, <1>2 DEF NextDue
  <2>3. Tracked(m)
    BY <1>5, <1>8, <2>1 DEF OnTrack, LeftBehind
  <2>4. Track(m, f)
    BY <1>8, <2>1, <2>3 DEF Tracked
  <2>5. OnPace(m, f, v) /\ f.count = Len(f.lines) /\ clockSynched'
    BY <1>1, <1>5, <2>1, <2>2, <2>4 DEF Track
  <2>6. /\ \A x \in DOMAIN fs[m] : fs[m][x].synched => Exact(m, fs[m][x])
        /\ fs'[m][k] = f
        /\ \A x \in DOMAIN fs'[m] \ {k} : x \in DOMAIN fs[m] /\ fs'[m][x] = fs[m][x]
        /\ writing'[m] = k
    BY <1>6, <1>7, <1>8, <2>3 DEF Tracked
  <2>7. v \in Int
    BY DEF DatesInv, TimesInv, InTime, RestTyped
  <2> HIDE DEF v, k, f
  <2> QED  BY <1>4, <1>5, <2>1, <2>2, <2>5, <2>6, <2>7, TrackedOn
<1>9. ASSUME NEW m \in Mon, m # mon PROVE OnTrack(m)'
  BY <1>1, <1>2, <1>6, <1>9, OthersKept
<1>10. Writers'
  BY <1>1, <1>2, <1>8, <1>9, TimeKept DEF Writers
<1>11. JustTaken' /\ Stages'
  <2>1. mon' <= num_monitores
    BY <1>1, <1>3, MonRange
  <2> QED  BY <1>2, <2>1 DEF Plain, Calm, JustTaken, Stages
<1>12. ClockSet' /\ AllStamped'
  BY <1>1, <1>2 DEF DatesInv, DatesOK, ClockSet, AllStamped
<1> QED  BY <1>10, <1>11, <1>12 DEF DatesOK

LEMMA NamesDates ==
    ASSUME Punctual, DatesInv, NamesMoved, TimesInv'
    PROVE  DatesOK'
<1>1. /\ pc \in {"rename", "sync open", "sync write", "switch open", "switch write"}
      /\ pc' \in {"idle", "rename", "sync write", "switch write", "switched"}
      /\ pc' = "rename" => pc = "rename"
      /\ mon' = mon
      /\ UNCHANGED <<fs, writing, reading, clock, clockSynched, batch, server, now, write_timer>>
      /\ Uploads' <=> Uploads
  BY Zenon DEF NamesMoved, RenameFails, OpenMeta, WriteMeta, Goto, disk, names,
     simon, upload, env, Uploads, InReader
<1>2. Calm /\ Calm' /\ pc' # "send" /\ (pc' # "rename" => Plain') /\ ~ Takes /\ ~ Takes'
      /\ ~ Remakes' /\ ~ Blanks' /\ pc' # "sync" /\ pc' \notin Booting /\ pc' # "confirm"
  BY <1>1, Zenon DEF Calm, Plain, Booting, Rolls, Taking, Takes, Remakes, Blanks
<1>6. \A m \in Mon : OnTime(m)'
  <2>1. ASSUME NEW m \in Mon PROVE OnTime(m)'
    <3>1. OnTime(m)
      BY <1>2 DEF Calm, DatesInv, DatesOK, Writers
    <3>2. Requests(m) <= Requests(m)'
      <4>1. Served' = Served
        BY <1>1, <1>2 DEF Served, Asking
      <4>2. Requests(m)' = Requests(m)
        BY <1>1, <4>1 DEF Requests
      <4>3. Requests(m) \in Int
        BY TimeTypes DEF Numbers, DatesInv
      <4> QED  BY <4>2, <4>3
    <3> QED  BY <1>1, <3>1, <3>2, WaitsOn DEF DatesInv
  <2> QED  BY <2>1
<1>7. mon' <= num_monitores
  <2>1. mon \in Mon
    BY <1>1 DEF DatesInv, TimesInv, NamesInv, NamesTypes
  <2> QED  BY <1>1, <2>1, MonRange
<1>3. AllStamped' /\ (batch' # {} \/ pc' = "send" => clockSynched)
  BY <1>1, <1>2 DEF DatesInv, DatesOK, ClockSet, AllStamped
<1>4. CASE pc' # "rename"
  BY <1>1, <1>2, <1>3, <1>4, <1>6, <1>7, CalmDates, SameFiles
<1>5. CASE pc' = "rename"
  <2>1. \A m \in Mon : OnTrack(m)'
    BY <1>1, <1>2, CalmTracks, SameFiles
  <2>3. Stages'
    <3>1. Current' = Current /\ writing'[mon'] = writing[mon]
      BY <1>1, <1>5 DEF Current
    <3> QED  BY <1>1, <1>2, <1>5, <1>7, <3>1 DEF DatesInv, DatesOK, Stages
  <2>4. ClockSet' /\ JustTaken'
    BY <1>1, <1>2 DEF DatesInv, DatesOK, ClockSet, JustTaken
  <2> QED  BY <1>3, <1>6, <2>1, <2>3, <2>4 DEF DatesOK, Writers
<1> QED  BY <1>4, <1>5

-----------------------------------------------------------------------------
\* The upload: only dated files are read, and their entries have the right times.

LEMMA ReadEntryDates ==
    ASSUME Punctual, DatesInv, ReadEntry, TimesInv'
    PROVE  DatesOK'
<1> DEFINE r == reading[mon]
           h == fs[mon][r]
           e == [mon |-> mon, sample |-> NextLine(h), ts |-> EntryTime(h)]
           p == time_interv[mon]
<1>1. /\ pc = "read" /\ pc' = "read" /\ mon \in Mon
      /\ r \in DOMAIN fs[mon] /\ h.synched /\ h.last_idx < h.count
      /\ batch' = batch \cup {e}
      /\ UNCHANGED <<fs, writing, reading, clock, clockSynched, server, now, write_timer>>
  BY DEF ReadEntry, Reading, NextRead, Readable, monitor_getheader, disk, names, simon, env
<1>2. Calm /\ Plain' /\ Uploads /\ Uploads' /\ pc \notin Booting /\ ~ Rolls /\ pc # "roll"
  BY <1>1, Zenon DEF Calm, Plain, Booting, Rolls, Taking, Takes, Remakes, Blanks, Uploads, InReader
<1>3. h \in Log /\ h.count <= Len(h.lines)
  BY <1>1 DEF Punctual, DatesInv, TimesInv, InTime, CardTyped, FitsIn
<1>4. Tracked(mon) /\ ~ Rolling(mon)
  <2>1. OnTrack(mon) /\ ~ Rolling(mon)
    BY <1>1, <1>2 DEF DatesInv, DatesOK, Writers, Rolling
  <2>2. ~ LeftBehind(mon)
    BY <1>1 DEF LeftBehind
  <2> QED  BY <2>1, <2>2 DEF OnTrack
<1>5. clockSynched
  <2> DEFINE f == fs[mon][writing[mon]]
  <2>1. Track(mon, f)
    BY <1>4 DEF Tracked
  <2>2. ~ f.synched => r = writing[mon]
    BY <2>1 DEF Track
  <2> QED  BY <1>1, <2>1, <2>2 DEF Track
<1>6. Exact(mon, h)
  BY <1>1, <1>4 DEF Tracked
<1>7. e.sample - time_interv[e.mon] - e.ts \in -Late .. Late
  <2> DEFINE l == h.lines
             i == h.last_idx + 1
             T == StartTime .. MaxTime
  <2>1. l \in Seq(T) /\ h.start \in Nat /\ h.last_idx \in Nat /\ h.count \in Nat
    <3> HIDE DEF h
    <3> QED  BY <1>3 DEF Log
  <2>2. i \in 1 .. Len(l)
    <3>1. Len(l) \in Nat
      <4> HIDE DEF T, l
      <4> QED  BY <2>1
    <3> HIDE DEF h
    <3> QED  BY <1>1, <1>3, <2>1, <3>1
  <2>3. l[i] \in Int
    <3> HIDE DEF T, l, i
    <3>1. l[i] \in T
      BY <2>1, <2>2
    <3> QED  BY <3>1, Times DEF T
  <2>4. l[i] - p * i - h.start \in -Late .. Late
    BY <1>6, <2>2 DEF Exact
  <2>5. p * i = p * h.last_idx + p /\ p * h.last_idx \in Nat /\ p \in Nat
    BY <1>1, <2>1, Interval
  <2>6. h.last_idx * p = p * h.last_idx
    <3> DEFINE a == h.last_idx
    <3>1. a \in Nat
      BY <2>1
    <3> HIDE DEF a, p
    <3>2. p \in Nat
      BY <2>5
    <3>3. a * p = p * a
      BY <3>1, <3>2
    <3> QED  BY <3>3 DEF a
  <2> DEFINE x == l[i]
             y == p * h.last_idx
             s == h.start
  <2>7. e.sample = x /\ e.ts = s + y /\ time_interv[e.mon] = p
    <3>1. h.last_idx < Len(l)
      <4>1. Len(l) \in Nat
        <5> HIDE DEF T, l
        <5> QED  BY <2>1
      <4> HIDE DEF h
      <4> QED  BY <1>1, <1>3, <2>1, <4>1
    <3> QED  BY <2>6, <3>1 DEF NextLine, EntryTime
  <2>8. x - (y + p) - s \in -Late .. Late
    BY <2>4, <2>5
  <2>9. x \in Int /\ y \in Nat /\ s \in Nat /\ p \in Nat /\ Late \in Nat
    BY <2>1, <2>3, <2>5, LateNat
  <2> HIDE DEF x, y, s, p, e
  <2>10. x - p - (s + y) \in -Late .. Late
    BY <2>8, <2>9
  <2> QED  BY <2>7, <2>10
<1>8. AllStamped'
  <2>1. ASSUME NEW x \in batch' \cup server'
        PROVE  x.sample - time_interv[x.mon] - x.ts \in -Late .. Late
    <3>1. CASE x \in batch \cup server
      BY <3>1 DEF DatesInv, DatesOK, AllStamped
    <3>2. CASE x = e
      BY <1>7, <3>2
    <3> HIDE DEF e
    <3> QED  BY <1>1, <2>1, <3>1, <3>2
  <2> QED  BY <2>1 DEF AllStamped
<1>9. ASSUME NEW m \in Mon PROVE OnTime(m)'
  <2>1. OnTime(m)
    BY <1>2 DEF DatesInv, DatesOK, Writers
  <2>2. Requests(m)' = Requests(m) /\ Requests(m) \in Int
    BY <1>2, TimeTypes DEF Numbers, DatesInv, Requests
  <2> QED  BY <1>1, <2>1, <2>2, WaitsOn DEF DatesInv
<1> QED  BY <1>1, <1>2, <1>5, <1>8, <1>9, CalmDates, SameFiles

LEMMA PassingDates ==
    ASSUME Punctual, DatesInv, Passing, TimesInv'
    PROVE  DatesOK'
<1> DEFINE Pass == StartRead \/ SwitchFile \/ SwitchDone \/ ReadNothing \/ EndRead
                  \/ Retry \/ ConfirmDone
<1>0. ASSUME SyncUnread PROVE DatesOK'
  <2>1. /\ pc = "sync" /\ pc' = "idle" /\ mon' = mon
        /\ UNCHANGED <<fs, writing, reading, clock, clockSynched, batch, server, now, write_timer>>
    BY <1>0 DEF SyncUnread, Goto, disk, names, simon, upload, env
  <2>2. Calm /\ Plain' /\ pc \notin Booting /\ Takes /\ ~ Takes' /\ ~ Uploads /\ ~ Uploads'
    BY <2>1, Zenon DEF Calm, Plain, Booting, Rolls, Taking, Takes, Remakes, Blanks, Uploads, InReader
  <2>3. \A m \in Mon : OnTime(m)'
    BY <2>1, <2>2, TimeKept
  <2>4. mon' <= num_monitores
    <3>1. mon \in Mon
      BY <2>1 DEF DatesInv, TimesInv, NamesInv, NamesTypes
    <3> QED  BY <2>1, <3>1, MonRange
  <2>5. AllStamped' /\ (batch' # {} \/ pc' = "send" => clockSynched)
    BY <2>1 DEF DatesInv, DatesOK, ClockSet, AllStamped
  <2> QED  BY <2>1, <2>2, <2>3, <2>4, <2>5, CalmDates, SameFiles
<1> SUFFICES ASSUME Pass PROVE DatesOK'
  <2>1. ~ HeaderFails
    BY DEF HeaderFails, Punctual
  <2> QED  BY <1>0, <2>1 DEF Passing
<1>1. /\ pc \in {"idle", "read", "switched", "confirm"}
      /\ pc' \in {"idle", "read", "switch open", "send"}
      /\ UNCHANGED <<fs, writing, clock, clockSynched, batch, server, now, write_timer>>
      /\ pc = "idle" => ReadersTurn
      /\ pc' \in {"idle", "send"} => mon' = 0 \/ (mon' = mon /\ pc = "confirm")
      /\ pc' = "send" => batch # {}
  BY Zenon DEF StartRead, ReadersTurn, SwitchFile, SwitchDone, ReadNothing, EndRead, Retry,
     ConfirmDone, Reading, NextRead, Goto, disk, names, simon, upload, env,
     monitor_sending
<1>2. /\ Calm /\ Plain' /\ pc \notin Booting /\ ~ Takes /\ ~ Takes'
      /\ pc' # "confirm" /\ (Uploads <=> pc \in {"read", "switched"})
      /\ (Uploads' <=> pc' # "idle")
  BY <1>1, Zenon DEF Calm, Plain, Booting, Rolls, Taking, Takes, Remakes, Blanks, Uploads, InReader
<1>6. /\ pc' \in {"idle", "send"} => mon' = 0
      /\ pc = "confirm" => mon = 0
      /\ pc = "idle" => mon <= num_monitores
  BY <1>1 DEF DatesInv, DatesOK, Stages
<1>7. ASSUME NEW m \in Mon PROVE OnTime(m)'
  <2>1. OnTime(m)
    BY <1>2 DEF DatesInv, DatesOK, Writers
  <2>2. /\ now \in Nat /\ write_timer[m] \in Nat /\ mon \in Nat
        /\ m \in Nat /\ m > 0 /\ m <= num_monitores /\ num_monitores \in Nat
        /\ Requests(m) \in Int /\ Requests(m)' \in Int
        /\ Served = mon /\ Served' = mon'
    BY <1>2, TimeTypes DEF Numbers, DatesInv, Served, Asking
  <2>3. num_monitores - m <= Requests(m)'
    BY <1>2, <1>6, <2>2 DEF Requests
  <2>4. CASE Requests(m) <= num_monitores - m
    <3>1. Requests(m) <= Requests(m)'
      BY <2>2, <2>3, <2>4
    <3> QED  BY <1>1, <2>1, <3>1, WaitsOn DEF DatesInv
  <2>5. CASE pc = "idle" /\ m > mon
    <3>1. m \notin Due
      <4>1. \A n \in Due : n <= mon
        BY <1>1, <2>5, Zenon DEF ReadersTurn
      <4>2. ~ (m <= mon)
        BY <2>2, <2>5
      <4> QED  BY <4>1, <4>2, Zenon
    <3>2. now' <= write_timer'[m]
      <4>1. now < write_timer[m]
        BY <2>2, <3>1 DEF Due
      <4>2. now' = now /\ write_timer' = write_timer
        BY <1>1, Zenon
      <4>3. now <= write_timer[m]
        BY <2>2, <4>1
      <4> QED  BY <4>2, <4>3
    <3>3. Requests(m)' \in Nat
      BY <2>2, <2>3
    <3> QED  BY <3>2, <3>3, NotDueWaits
  <2>6. pc = "idle" /\ m <= mon => Requests(m) <= num_monitores - m
    BY <1>2, <1>6, <2>2 DEF Requests
  <2>7. Uploads => Requests(m) <= num_monitores - m
    BY <2>2 DEF Requests
  <2>8. CASE pc = "confirm"
    <3>1. pc' = "idle"
      BY <2>8, Zenon DEF StartRead, ReadersTurn, SwitchFile, SwitchDone, ReadNothing, EndRead,
         Retry, ConfirmDone, Reading, Goto
    <3>2. Requests(m) <= Requests(m)'
      BY <1>1, <1>2, <1>6, <2>2, <2>8, <3>1 DEF Requests
    <3> QED  BY <1>1, <2>1, <2>2, <3>2, WaitsOn DEF DatesInv
  <2>9. pc = "idle" /\ ~ (m <= mon) => m > mon
    BY <2>2
  <2> QED  BY <1>1, <1>2, <2>4, <2>5, <2>6, <2>7, <2>8, <2>9, Zenon
<1>3. ASSUME NEW m \in Mon
      PROVE  \/ reading'[m] = reading[m]
             \/ reading[m] # writing[m] /\ fs[m][reading[m]].synched
  <2>1. CASE UNCHANGED reading
    BY <2>1
  <2>2. CASE SwitchFile
    <3>1. /\ fs[mon][reading[mon]].synched /\ reading[mon] # writing[mon]
          /\ reading' = [reading EXCEPT ![mon] = writing[mon]]
      BY <2>2 DEF SwitchFile, Readable
    <3>2. m # mon => reading'[m] = reading[m]
      BY <3>1 DEF DatesInv, TimesInv, NamesInv, NamesTypes
    <3> QED  BY <3>1, <3>2
  <2>3. UNCHANGED reading \/ SwitchFile
    BY Zenon DEF StartRead, SwitchDone, ReadNothing, EndRead, Retry, ConfirmDone, names
  <2> QED  BY <2>1, <2>2, <2>3
<1>4. batch' # {} \/ pc' = "send" => clockSynched
  BY <1>1 DEF DatesInv, DatesOK, ClockSet
<1>5. AllStamped'
  BY <1>1 DEF DatesInv, DatesOK, AllStamped
<1>8. pc' = "idle" => mon' <= num_monitores
  BY <1>6, LateNat
<1> QED  BY <1>1, <1>2, <1>3, <1>4, <1>5, <1>6, <1>7, <1>8, CalmDates, SameFiles

\* A request takes less than an interval, and begins when no writer is due.
LEMMA SendDates ==
    ASSUME Punctual, DatesInv, OffsetsFit,
           SyncFails \/ SendOk \/ \E arrives \in BOOLEAN : SendFails(arrives), TimesInv'
    PROVE  DatesOK'
<1>1. /\ pc \in {"sync", "send"} /\ pc' \in {"idle", "confirm"} /\ mon' = mon
      /\ pc = "sync" => ~ clockSynched /\ UNCHANGED <<batch, server>>
      /\ server' = server \cup Received \/ server' = server
      /\ batch' = batch \/ batch' = {}
      /\ Request
      /\ UNCHANGED <<disk, names>>
  BY Zenon DEF SyncFails, SendOk, SendFails, upload, Goto
<1>2. /\ Calm /\ Plain' /\ Calm' /\ pc \notin Booting /\ (Uploads <=> pc = "send") /\ ~ Uploads'
      /\ pc' # "send" /\ (Takes <=> pc = "sync") /\ ~ Takes'
  BY <1>1, Zenon DEF Calm, Plain, Booting, Rolls, Taking, Takes, Remakes, Blanks, Uploads, InReader
<1>3. /\ UNCHANGED <<fs, writing, reading, clockSynched, write_timer>>
      /\ now' = now \/ now' = now + MaxBusy
      /\ clock' = clock + now' - now
  BY <1>1 DEF disk, names, Request, Busy
<1>4. now \in Nat /\ clock \in Nat /\ MaxBusy \in Nat
  BY NowTimes, MonitorAssumption DEF DatesInv
<1>5. pc = "send" => clockSynched /\ clock = now /\ mon = 0
  BY <1>1 DEF Stages, DatesInv, DatesOK, ClockSet
<1>6. \A m \in Mon : OnTrack(m)'
  BY <1>2, <1>3, CalmTracks, SameFiles
<1>7. ASSUME NEW m \in Mon PROVE OnTime(m)'
  <2>1. OnTime(m)
    BY <1>2 DEF DatesInv, DatesOK, Writers
  <2>2. Requests(m) + 1 <= Requests(m)'
    <3>1. /\ mon \in Nat /\ m \in Nat /\ m > 0 /\ num_monitores \in Nat
          /\ Served' = mon /\ (pc = "sync" => Served = mon - 1)
      BY <1>1, <1>2, <1>3, TimeTypes DEF Numbers, DatesInv, Served, Asking
    <3> QED  BY <1>1, <1>2, <1>3, <1>5, <3>1 DEF Requests
  <2> QED  BY <1>3, <2>1, <2>2, WaitsOn DEF DatesInv
<1>8. Stages' /\ JustTaken'
  <2>1. mon' <= num_monitores
    <3>1. pc = "sync" => mon \in Mon
      BY DEF DatesInv, TimesInv, NamesInv, NamesTypes
    <3> QED  BY <1>1, <1>5, <3>1, LateNat DEF Mon
  <2>2. pc' = "confirm" => mon' = 0
    BY <1>1, <1>5, Zenon DEF SyncFails, SendOk, SendFails, Goto
  <2> QED  BY <1>2, <2>1, <2>2 DEF Plain, Calm, Stages, JustTaken
<1>9. pc = "send" => clock' = now'
  BY <1>3, <1>4, <1>5
<1>10. ClockSet'
  BY <1>1, <1>2, <1>3, <1>5, <1>9 DEF ClockSet, DatesInv, DatesOK
<1>11. AllStamped'
  <2>1. Received \subseteq batch
    BY OffsetsKept DEF DatesInv
  <2> QED  BY <1>1, <2>1 DEF DatesInv, DatesOK, AllStamped
<1> QED  BY <1>6, <1>7, <1>8, <1>10, <1>11 DEF DatesOK, Writers

LEMMA ConfirmDates ==
    ASSUME Punctual, DatesInv, Confirm, TimesInv'
    PROVE  DatesOK'
<1>1. PICK m : m = CHOOSE k \in sending : \A n \in sending : k <= n
  OBVIOUS
<1>2. m \in Mon
  <2>1. sending \subseteq Mon /\ sending # {}
    BY DEF Confirm, DatesInv, TimesInv, InTime, RestTyped
  <2> QED  BY <1>1, <2>1, LeastMonitor
<1> DEFINE r == reading[m]
           h == fs[m][r]
<1>3. /\ pc = "confirm" /\ pc' = "confirm" /\ mon' = mon
      /\ \/ r \in DOMAIN fs[m] /\ fs' = [fs EXCEPT ![m][r] = Sent(h)]
         \/ UNCHANGED fs
      /\ UNCHANGED <<writing, reading, clock, clockSynched, batch, server, now, write_timer>>
  BY <1>1 DEF Confirm, Goto, monitor_getheader, names, simon, env
<1>4. Calm /\ Plain' /\ ~ Uploads /\ ~ Uploads' /\ ~ Takes /\ ~ Takes' /\ pc' # "send" /\ pc' # "idle"
      /\ pc \notin Booting
  BY <1>3, Zenon DEF Calm, Plain, Booting, Rolls, Taking, Takes, Remakes, Blanks, Uploads, InReader
<1>5. \A k \in Mon : Alike(fs[k], fs'[k])
  <2>1. CASE UNCHANGED fs
    BY <2>1, SameFiles
  <2>2. CASE r \in DOMAIN fs[m] /\ fs' = [fs EXCEPT ![m][r] = Sent(h)]
    <3> DEFINE f == Sent(h)
    <3>1. /\ f.lines = h.lines /\ f.start = h.start
          /\ f.synched = h.synched /\ f.count = h.count
      <4>1. h \in Log
        BY <1>2, <2>2, FileTypes DEF DatesInv
      <4> HIDE DEF h
      <4> QED  BY <4>1 DEF Log, Sent
    <3> HIDE DEF f
    <3>2. /\ DOMAIN fs'[m] = DOMAIN fs[m] /\ fs'[m][r] = f
          /\ \A x \in DOMAIN fs[m] \ {r} : fs'[m][x] = fs[m][x]
          /\ \A k \in Mon \ {m} : fs'[k] = fs[k]
      BY <1>2, <2>2 DEF DatesInv, TimesInv, NamesInv, NamesTypes, f
    <3>3. ASSUME NEW k \in Mon, NEW x \in DOMAIN fs[k]
          PROVE  /\ fs'[k][x].lines = fs[k][x].lines /\ fs'[k][x].start = fs[k][x].start
                 /\ fs'[k][x].synched = fs[k][x].synched /\ fs'[k][x].count = fs[k][x].count
      <4>1. CASE k = m /\ x = r
        BY <3>1, <3>2, <4>1
      <4>2. CASE ~ (k = m /\ x = r)
        <5>1. fs'[k][x] = fs[k][x]
          BY <3>2, <3>3, <4>2
        <5> QED  BY <5>1
      <4> QED  BY <4>1, <4>2
    <3>4. \A k \in Mon : DOMAIN fs'[k] = DOMAIN fs[k]
      BY <3>2
    <3> QED  BY <3>3, <3>4 DEF Alike
  <2> QED  BY <1>3, <2>1, <2>2
<1>6. AllStamped' /\ (batch' # {} \/ pc' = "send" => clockSynched)
  BY <1>3, <1>4 DEF DatesInv, DatesOK, ClockSet, AllStamped
<1>7. \A k \in Mon : OnTime(k)'
  BY <1>3, <1>4, TimeKept
<1>8. mon' = 0
  BY <1>3 DEF DatesInv, DatesOK, Stages
<1> QED  BY <1>3, <1>4, <1>5, <1>6, <1>7, <1>8, CalmDates

-----------------------------------------------------------------------------
LEMMA InitDates == Init => DatesOK
<1> SUFFICES ASSUME Init PROVE DatesOK
  OBVIOUS
<1>1. /\ pc = "boot" /\ ~ clockSynched /\ batch = {} /\ server = {}
      /\ \A m \in Mon : DOMAIN fs[m] = {}
  BY DEF Init
<1>2. /\ pc \in Booting /\ pc # "sync" /\ pc # "rename" /\ pc # "send"
      /\ pc # "idle" /\ pc # "confirm" /\ ~ Remakes /\ ~ Blanks /\ ~ Takes
  BY <1>1, Zenon DEF Booting, Remakes, Blanks, Takes
<1> QED  BY <1>1, <1>2 DEF DatesOK, Stages, Blank, ClockSet, AllStamped, JustTaken, Writers

LEMMA NextDates ==
    ASSUME Punctual, DatesInv, OffsetsFit, [Next]_vars
    PROVE  DatesInv'
<1>1. TimesInv'
  BY NextTimes DEF DatesInv
<1>2. CASE Boot
  BY <1>1, <1>2, BootDates DEF DatesInv
<1>3. CASE Tick
  BY <1>1, <1>3, TickDates DEF DatesInv
<1>4. CASE \E m \in Mon : SampleLost(m)
  BY <1>4 DEF SampleLost, Punctual
<1>5. CASE Write
  BY <1>1, <1>5, SampleDates, AppendDates, CountDates, MadeDates
     DEF Punctual, LineRefused, HeaderFails, DatesInv, Write, FileMade
<1>6. CASE Sync
  BY <1>1, <1>6, SyncStampDates, RenameDates, NamesDates, SendDates, PassingDates
     DEF Punctual, DateAgain, DatesInv, Sync, NamesMoved, Passing
<1>7. CASE Read
  BY <1>1, <1>7, ReadEntryDates, PassingDates, NamesDates DEF DatesInv, Read, Passing, NamesMoved
<1>8. CASE Send
  BY <1>1, <1>8, SendDates, ConfirmDates, PassingDates DEF DatesInv, Send, Passing
<1>9. CASE Crash
  <2>1. crashes < MaxCrashes /\ MaxCrashes = 0 /\ crashes \in 0 .. MaxCrashes
    BY <1>9 DEF Crash, Punctual, DatesInv, TimesInv, InTime, RestTyped
  <2> QED  BY <2>1
<1>10. CASE UNCHANGED vars
  <2>1. UNCHANGED <<fs, metafile, writing, reading, clock, clockSynched, batch, sending,
                    server, pc, mon, newname, now, write_timer, crashes>>
    BY <1>10 DEF vars, disk, names, simon, upload, env
  <2>2. Stages' /\ ClockSet' /\ AllStamped' /\ JustTaken'
    BY <2>1 DEF DatesInv, DatesOK, Stages, Remakes, Blanks, Blank, Current, ClockSet, AllStamped,
       JustTaken, Takes, Lateness
  <2>3. \A m \in Mon : NextDue(m)' = NextDue(m) /\ (Rolling(m)' <=> Rolling(m)) /\ (Counting(m)' <=> Counting(m))
    BY <2>1 DEF NextDue, Taking, Rolling, Rolls, Counting
  <2>4. \A m \in Mon : OnTime(m) => OnTime(m)'
    BY <2>1 DEF OnTime, Requests, Served, Asking, Takes, Uploads
  <2>5. \A m \in Mon : OnTrack(m) => OnTrack(m)'
    BY <2>1, <2>3 DEF OnTrack, Tracked, Track, LeftBehind
  <2>6. Writers'
    BY <2>1, <2>4, <2>5 DEF DatesInv, DatesOK, Writers
  <2> QED  BY <1>1, <2>2, <2>6 DEF DatesInv, DatesOK
<1> QED  BY <1>2, <1>3, <1>4, <1>5, <1>6, <1>7, <1>8, <1>9, <1>10 DEF Next

\* Every entry the server stores carries the same end of the interval it closes, give
\* or take the requests of one pass, for any monitors, intervals, file sizes and
\* clocks: lateness is made up for and never adds up, files are dated back by what
\* they hold, and a file that was full before it could be dated is never sent
\* (monitor_write_thread, monitor_settimestamp, monitor_readentry).
THEOREM StampsAreExact ==
    ASSUME Punctual
    PROVE  Spec /\ []OffsetsFit => []StampsExact
<1>1. Init => DatesInv
  BY InitDates, InitTimes DEF DatesInv
<1>2. DatesInv /\ OffsetsFit /\ [Next]_vars => DatesInv'
  BY NextDates
<1>3. DatesInv => StampsExact
  <2> SUFFICES ASSUME DatesInv, NEW m \in Mon
               PROVE  \E d \in {0, time_interv[m]} : \A e \in server :
                        e.mon = m => e.sample - d - e.ts \in -Late .. Late
    BY DEF StampsExact
  <2>1. \A e \in server : e.mon = m => e.sample - time_interv[m] - e.ts \in -Late .. Late
    BY DEF DatesInv, DatesOK, AllStamped
  <2> QED  BY <2>1
<1> QED  BY <1>1, <1>2, <1>3, PTL DEF Spec

-----------------------------------------------------------------------------
\* The names of the files.  Where the entries of a file take longer than an hour and
\* a request, and the power does not fail, every file gets a later name than the one
\* before it, so no rollover finds a file of its name.

Spacious ==
    /\ MaxCrashes = 0
    /\ \A m \in Mon : HourLen + MaxBusy <= time_interv[m] * (MAX_NUM_OF_ENTRIES - 2)

\* The entries taken for the file that monitor m writes, and when the next one is due
\* by the clock as it shows.
Used(m) ==
    IF pc = "roll" /\ m = mon THEN 0
    ELSE IF pc \in {"append", "count"} /\ m = mon THEN fs[m][writing[m]].count + 1
    ELSE fs[m][writing[m]].count
Shown(m) == write_timer[m] - (now - clock)

\* Hour n had begun when the first of them was taken, but for a request.
Room(m, n) == n * HourLen + time_interv[m] * Used(m) <= Shown(m) + MaxBusy

Spaced(m) ==
    /\ DOMAIN fs[m] \subseteq Int
    /\ write_timer[m] <= now + time_interv[m]
    /\ \A n \in DOMAIN fs[m] \ {LOG_FILENAME_START} : Room(m, n)
    /\ writing[m] = LOG_FILENAME_START => DOMAIN fs[m] \subseteq {LOG_FILENAME_START}
    /\ writing[m] # LOG_FILENAME_START /\ ~ Rolling(m) => fs[m][writing[m]].synched

Clocks ==
    /\ crashes = 0 /\ write_timer \in [Mon -> Int]
    /\ 0 <= clock /\ clock <= now /\ now <= MaxTime
    /\ clockSynched => clock = now

FreeStages ==
    /\ pc \in {"append", "count", "sync", "roll"} => now <= write_timer[mon]
    /\ pc = "sync" => ~ Current.synched
    /\ pc = "rename" => /\ writing[mon] = LOG_FILENAME_START
                        /\ newname # LOG_FILENAME_START /\ Room(mon, newname)
                        /\ Current.synched
    /\ Rolls => writing[mon] # LOG_FILENAME_START
    /\ pc = "roll header" => Current.count = 0
    /\ pc = "roll" => /\ writing[mon] \notin DOMAIN fs[mon]
                      /\ writing[mon] * HourLen <= Shown(mon)

FirstFiles == \A m \in Mon : \A n \in DOMAIN fs[m] :
    n = LOG_FILENAME_START /\ fs[m][n].count = 0

FreeOK ==
    /\ Clocks /\ FreeStages
    /\ pc \in Booting => FirstFiles
    /\ pc \notin Booting => \A m \in Mon : Spaced(m)
FreeInv == LogInv /\ NamesInv /\ FreeOK

\* Its numbers.
Measures ==
    /\ now \in Int /\ clock \in Int /\ newname \in Int
    /\ pc \notin Booting =>
         \A m \in Mon : /\ Used(m) \in Nat /\ Shown(m) \in Int /\ write_timer[m] \in Int
                        /\ \A n \in DOMAIN fs[m] : fs[m][n].count \in Nat

LEMMA Measured == LogInv /\ NamesInv /\ Clocks => Measures
<1> SUFFICES ASSUME LogInv, NamesInv, Clocks PROVE Measures
  OBVIOUS
<1>1. now \in Int /\ clock \in Int /\ newname \in Int
  BY DEF LogInv, LogTypes
<1>2. ASSUME pc \notin Booting, NEW m \in Mon
      PROVE  /\ Used(m) \in Nat /\ Shown(m) \in Int /\ write_timer[m] \in Int
             /\ \A n \in DOMAIN fs[m] : fs[m][n].count \in Nat
  <2>1. write_timer[m] \in Int
    BY DEF Clocks
  <2>2. \A n \in DOMAIN fs[m] : fs[m][n].count \in Nat
    BY DEF LogInv, LogTypes, File
  <2>3. ~ (pc = "roll" /\ m = mon) => fs[m][writing[m]].count \in Nat
    BY <1>2, <2>2 DEF NamesInv, NamesFound, HasLog
  <2>4. Used(m) \in Nat
    <3> DEFINE c == fs[m][writing[m]].count
    <3>1. ~ (pc = "roll" /\ m = mon) => c \in Nat
      BY <2>3
    <3>2. Used(m) = IF pc = "roll" /\ m = mon THEN 0
                    ELSE IF pc \in {"append", "count"} /\ m = mon THEN c + 1 ELSE c
      BY DEF Used
    <3> HIDE DEF c
    <3> QED  BY <3>1, <3>2
  <2> QED  BY <1>1, <2>1, <2>2, <2>4 DEF Shown
<1> QED  BY <1>1, <1>2 DEF Measures

LEMMA MeasuredNext ==
    /\ LogInv /\ NamesInv /\ Clocks => Measures
    /\ LogInv' /\ NamesInv' /\ Clocks' => Measures'
BY Measured, PTL

\* A name that was taken in time stays so.
LEMMA RoomKept ==
    ASSUME NEW m \in Mon, NEW n \in Int, Room(m, n),
           Used(m) \in Nat, Used(m)' \in Nat, Used(m)' <= Used(m),
           Shown(m) \in Int, Shown(m)' \in Int, Shown(m) <= Shown(m)'
    PROVE  Room(m, n)'
<1> DEFINE a == n * HourLen
           x == time_interv[m] * Used(m)
           y == time_interv[m] * Used(m)'
           s == Shown(m)
           t == Shown(m)'
<1>1. a \in Int /\ MaxBusy \in Nat
  BY MonitorAssumption
<1>2. x \in Nat /\ y \in Nat /\ y <= x
  BY Interval
<1>3. s \in Int /\ t \in Int /\ s <= t /\ a + x <= s + MaxBusy
  BY DEF Room
<1> HIDE DEF a, x, y, s, t
<1>4. a + y <= t + MaxBusy
  BY <1>1, <1>2, <1>3
<1> QED  BY <1>4 DEF Room, a, y, t

\* Steps that make no file and take no entry for this monitor.
LEMMA SpacedKept ==
    ASSUME FreeInv, LogInv', NamesInv', Clocks', pc \notin Booting, pc' \notin Booting,
           NEW m \in Mon,
           write_timer'[m] = write_timer[m], now <= now', now' - clock' <= now - clock,
           DOMAIN fs'[m] = DOMAIN fs[m], writing'[m] = writing[m], Used(m)' <= Used(m),
           \/ Rolling(m)'
           \/ fs'[m][writing[m]].synched
           \/ ~ Rolling(m) /\ fs'[m][writing[m]].synched = fs[m][writing[m]].synched
    PROVE  Spaced(m)'
<1>1. Measures /\ Measures'
  BY MeasuredNext DEF FreeInv, FreeOK
<1>2. Spaced(m)
  BY DEF FreeInv, FreeOK
<1>3. /\ now \in Int /\ now' \in Int /\ clock \in Int /\ clock' \in Int /\ write_timer[m] \in Int
      /\ Used(m) \in Nat /\ Used(m)' \in Nat /\ Shown(m) \in Int /\ Shown(m)' \in Int
      /\ time_interv[m] \in Nat
  BY <1>1, Interval DEF Measures
<1>4. Shown(m) <= Shown(m)'
  <2> DEFINE w == write_timer[m]
             d == now - clock
             e == now' - clock'
  <2>1. Shown(m) = w - d /\ Shown(m)' = w - e
    BY DEF Shown
  <2>2. w \in Int /\ d \in Int /\ e \in Int
    BY <1>3
  <2>3. e <= d
    OBVIOUS
  <2> HIDE DEF w, d, e
  <2>4. w - d <= w - e
    BY <2>2, <2>3
  <2> QED  BY <2>1, <2>4
<1>5. ASSUME NEW n \in DOMAIN fs'[m] \ {LOG_FILENAME_START} PROVE Room(m, n)'
  <2>1. n \in DOMAIN fs[m] \ {LOG_FILENAME_START} /\ Room(m, n)
    BY <1>2 DEF Spaced
  <2>2. n \in Int
    BY <1>2, <2>1 DEF Spaced
  <2> QED  BY <1>3, <1>4, <2>1, <2>2, RoomKept
<1>6. write_timer'[m] <= now' + time_interv[m]
  BY <1>2, <1>3 DEF Spaced
<1>7. /\ DOMAIN fs'[m] \subseteq Int
      /\ writing'[m] = LOG_FILENAME_START => DOMAIN fs'[m] \subseteq {LOG_FILENAME_START}
      /\ writing'[m] # LOG_FILENAME_START /\ ~ Rolling(m)' => fs'[m][writing'[m]].synched
  BY <1>2 DEF Spaced
<1> QED  BY <1>5, <1>6, <1>7 DEF Spaced

\* As many entries, in files of the same names and dates.
SameCounts(d, e) ==
    /\ DOMAIN e = DOMAIN d
    /\ \A n \in DOMAIN d : e[n].count = d[n].count /\ e[n].synched = d[n].synched

Resting == pc \notin Booting /\ pc \notin {"append", "count"} /\ ~ Rolls

\* Steps that take no entry, and date or rename no file.
LEMMA FreeRests ==
    ASSUME FreeInv, LogInv', NamesInv', Clocks', Resting, Resting',
           \A m \in Mon : SameCounts(fs[m], fs'[m]),
           UNCHANGED <<writing, write_timer>>, now <= now', now' - clock' <= now - clock,
           pc' \notin {"sync", "rename"}
    PROVE  FreeOK'
<1>1. ASSUME NEW m \in Mon PROVE Spaced(m)'
  <2>1. writing[m] \in DOMAIN fs[m]
    <3>1. pc # "roll" /\ pc \notin Booting
      BY Zenon DEF Resting, Rolls
    <3> QED  BY <3>1 DEF FreeInv, NamesInv, NamesFound, HasLog
  <2>2. /\ DOMAIN fs'[m] = DOMAIN fs[m]
        /\ fs'[m][writing[m]].count = fs[m][writing[m]].count
        /\ fs'[m][writing[m]].synched = fs[m][writing[m]].synched
    BY <2>1 DEF SameCounts
  <2>3. Used(m)' <= Used(m)
    <3>1. Used(m) = fs[m][writing[m]].count /\ Used(m)' = fs'[m][writing[m]].count
      BY DEF Used, Resting, Rolls
    <3>2. Used(m) \in Nat
      BY MeasuredNext DEF FreeInv, FreeOK, Measures, Resting
    <3> QED  BY <2>2, <3>1, <3>2
  <2>4. ~ Rolling(m)
    BY DEF Resting, Rolling
  <2> QED  BY <2>2, <2>3, <2>4, SpacedKept DEF Resting
<1>2. FreeStages'
  BY DEF FreeStages, Resting, Rolls
<1> QED  BY <1>1, <1>2 DEF FreeOK, Resting

LEMMA SameCard2 == ASSUME UNCHANGED fs PROVE \A m \in Mon : SameCounts(fs[m], fs'[m])
BY DEF SameCounts

\* Starting: the first files, and no others.
LEMMA BootFree ==
    ASSUME FreeInv, Boot, LogInv', NamesInv'
    PROVE  FreeOK'
<1>1. /\ pc \in Booting /\ pc' \in Booting \cup {"idle"} /\ mon \in Mon
      /\ UNCHANGED <<clock, clockSynched, now, crashes>>
      /\ pc' \notin {"append", "count", "sync", "rename"} /\ ~ Rolls'
      /\ pc' = "idle" => BootNext
  <2>1. /\ pc \in Booting /\ pc' \in Booting \cup {"idle"}
        /\ UNCHANGED <<clock, clockSynched, now, crashes>>
        /\ pc' = "idle" => BootNext
    BY Zenon DEF Boot, BootLog, BootRead, BootNext, NewHeader, OpenMeta, WriteMeta, Goto, Booting,
       simon, env
  <2>2. mon \in Mon
    BY <2>1 DEF FreeInv, NamesInv, NamesTypes, Booting
  <2>3. pc' \notin {"append", "count", "sync", "rename"} /\ ~ Rolls'
    BY <2>1, Zenon DEF Booting, Rolls
  <2> QED  BY <2>1, <2>2, <2>3
<1>2. FirstFiles
  BY <1>1 DEF FreeInv, FreeOK
<1>3. FirstFiles'
  <2>1. CASE UNCHANGED fs
    BY <1>2, <2>1 DEF FirstFiles
  <2>2. ASSUME NEW f \in File, Store(LOG_FILENAME_START, f), f.count = 0
        PROVE  FirstFiles'
    <3>1. /\ DOMAIN fs'[mon] = DOMAIN fs[mon] \cup {LOG_FILENAME_START}
          /\ fs'[mon][LOG_FILENAME_START] = f
          /\ \A m \in Mon \ {mon} : fs'[m] = fs[m]
      BY <1>1, <2>2, StoreWrites DEF FreeInv, LogInv
    <3> QED  BY <1>2, <2>2, <3>1 DEF FirstFiles
  <2>3. CASE BootLog /\ ~ UNCHANGED fs
    <3>1. Store(LOG_FILENAME_START, Empty)
      BY <2>3 DEF BootLog
    <3>2. Empty.count = 0
      BY DEF Empty
    <3> QED  BY <2>2, <3>1, <3>2, EmptyFile
  <2>4. CASE NewHeader("boot header", "meta")
    <3> DEFINE f == [Empty EXCEPT !.ok = TRUE, !.lines = Current.lines]
    <3>1. pc = "boot header" /\ Store(writing[mon], f)
      BY <2>4 DEF NewHeader
    <3>2. writing[mon] \in DOMAIN fs[mon]
      BY <3>1 DEF FreeInv, LogInv, Place, FileWritten
    <3>3. writing[mon] = LOG_FILENAME_START /\ Current.lines \in Seq(Int)
      BY <1>1, <1>2, <3>2 DEF FirstFiles, Current, FreeInv, LogInv, LogTypes, File
    <3>4. f \in File
      BY <3>3, HeaderOf
    <3>5. f.count = 0
      BY DEF Empty
    <3> HIDE DEF f
    <3> QED  BY <2>2, <3>1, <3>3, <3>4, <3>5
  <2>5. CASE BootRead \/ BootNext \/ OpenMeta("boot open", "boot write") \/ WriteMeta("boot write", "booted")
    <3>1. UNCHANGED fs
      BY <2>5, Zenon DEF BootRead, BootNext, OpenMeta, WriteMeta, disk
    <3> QED  BY <2>1, <3>1
  <2> QED  BY <2>1, <2>3, <2>4, <2>5 DEF Boot
<1>4. Clocks'
  <2>1. \/ UNCHANGED write_timer
        \/ write_timer' = [m \in Mon |-> now + time_interv[m]]
    BY Zenon DEF Boot, BootLog, BootRead, BootNext, NewHeader, OpenMeta, WriteMeta, env
  <2>2. \A m \in Mon : now + time_interv[m] \in Int
    BY Interval DEF FreeInv, LogInv, LogTypes
  <2> QED  BY <1>1, <2>1, <2>2 DEF FreeInv, FreeOK, Clocks
<1>5. FreeStages'
  BY <1>1 DEF FreeStages, Rolls
<1>6. ASSUME pc' = "idle", NEW m \in Mon PROVE Spaced(m)'
  <2>1. /\ write_timer'[m] = now + time_interv[m]
        /\ now \in Int /\ time_interv[m] \in Nat
    BY <1>1, <1>6, Interval DEF BootNext, FreeInv, LogInv, LogTypes
  <2>2. DOMAIN fs'[m] \subseteq {LOG_FILENAME_START}
    BY <1>3 DEF FirstFiles
  <2>3. writing'[m] \in DOMAIN fs'[m]
    BY <1>6 DEF NamesInv, NamesFound, HasLog, Booting
  <2>4. write_timer'[m] <= now' + time_interv[m]
    BY <1>1, <2>1
  <2> QED  BY <2>2, <2>3, <2>4, Names DEF Spaced
<1> QED  BY <1>1, <1>3, <1>4, <1>5, <1>6 DEF FreeOK

\* The clock goes on, a request is made, and passes go by.
Passes ==
    \/ Tick \/ SyncUnread \/ SyncFails \/ StartRead \/ SwitchDone \/ ReadNothing \/ EndRead
    \/ ReadEntry \/ SwitchFile \/ Retry \/ SendOk \/ (\E a \in BOOLEAN : SendFails(a)) \/ ConfirmDone
    \/ OpenMeta("sync open", "sync write") \/ WriteMeta("sync write", "idle")
    \/ OpenMeta("switch open", "switch write") \/ WriteMeta("switch write", "switched")

LEMMA PassesFree ==
    ASSUME FreeInv, Passes, LogInv', NamesInv'
    PROVE  FreeOK'
<1>1. UNCHANGED <<fs, writing, write_timer, crashes, clockSynched>>
  BY Zenon DEF Passes, Tick, SyncUnread, SyncFails, StartRead, SwitchDone, ReadNothing, EndRead,
     ReadEntry, SwitchFile, Retry, SendOk, SendFails, ConfirmDone, OpenMeta, WriteMeta, Request, Busy,
     disk, names, simon, env
<1>2. /\ pc \in {"idle", "sync", "switched", "read", "send", "confirm", "sync open",
                 "sync write", "switch open", "switch write"}
      /\ pc' \in {"idle", "read", "send", "confirm", "sync write", "switch open", "switch write", "switched"}
  BY Zenon DEF Passes, Tick, SyncUnread, SyncFails, StartRead, ReadersTurn, NextRead, SwitchDone, ReadNothing,
     Reading, EndRead, ReadEntry, SwitchFile, Retry, SendOk, SendFails, ConfirmDone, OpenMeta, WriteMeta, Goto
<1>3. Resting /\ Resting' /\ pc' \notin {"sync", "rename"}
  BY <1>2, Zenon DEF Resting, Booting, Rolls
<1>4. \/ now' = now /\ clock' = clock
      \/ now' = now + 1 /\ clock' = clock + 1 /\ now < MaxTime
      \/ now' \in {now, now + MaxBusy} /\ now' <= MaxTime /\ clock' = clock + now' - now
  <2>1. Tick \/ Request \/ UNCHANGED <<now, clock>>
    BY Zenon DEF Passes, SyncUnread, SyncFails, StartRead, SwitchDone, ReadNothing, EndRead,
       ReadEntry, SwitchFile, Retry, SendOk, SendFails, ConfirmDone, OpenMeta, WriteMeta, simon, env
  <2> QED  BY <2>1 DEF Tick, Request, Busy
<1>5. /\ now \in Int /\ clock \in Int /\ MaxTime \in Nat /\ MaxBusy \in Nat
      /\ 0 <= clock /\ clock <= now /\ now <= MaxTime /\ (clockSynched => clock = now)
  BY MonitorAssumption DEF FreeInv, LogInv, LogTypes, FreeOK, Clocks
<1>6. /\ now <= now' /\ now' - clock' <= now - clock
      /\ 0 <= clock' /\ clock' <= now' /\ now' <= MaxTime /\ (clockSynched => clock' = now')
  BY <1>4, <1>5
<1>7. Clocks'
  BY <1>1, <1>6 DEF FreeInv, FreeOK, Clocks
<1> QED  BY <1>1, <1>3, <1>6, <1>7, SameCard2, FreeRests

\* The index of what was sent moves.
LEMMA ConfirmFree ==
    ASSUME FreeInv, Confirm, LogInv', NamesInv'
    PROVE  FreeOK'
<1> DEFINE m == CHOOSE k \in sending : \A n \in sending : k <= n
           r == reading[m]
           h == fs[m][r]
           f == [h EXCEPT !.last_idx = @ + 1]
<1>1. /\ pc = "confirm" /\ pc' = "confirm"
      /\ \/ monitor_getheader(m, r) /\ fs' = [fs EXCEPT ![m][r] = Sent(fs[m][r])]
         \/ UNCHANGED fs
      /\ UNCHANGED <<writing, write_timer, crashes, clock, clockSynched, now>>
  BY DEF Confirm, Goto, names, simon, env
<1>2. m \in Mon
  BY LeastMonitor DEF Confirm, FreeInv, LogInv, LogTypes
<1> HIDE DEF m
<1>3. ASSUME NEW k \in Mon PROVE SameCounts(fs[k], fs'[k])
  <2>1. CASE UNCHANGED fs
    BY <2>1 DEF SameCounts
  <2>2. CASE monitor_getheader(m, r) /\ fs' = [fs EXCEPT ![m][r] = Sent(fs[m][r])]
    <3>1. r \in DOMAIN fs[m] /\ h \in File
      BY <1>2, <2>2 DEF monitor_getheader, FreeInv, LogInv, LogTypes
    <3>2. f.count = h.count /\ f.synched = h.synched
      BY <3>1 DEF File
    <3>3. fs' = [fs EXCEPT ![m][r] = f]
      BY <2>2 DEF Sent
    <3> HIDE DEF f
    <3>4. /\ DOMAIN fs'[m] = DOMAIN fs[m] /\ fs'[m][r] = f
          /\ \A n \in DOMAIN fs[m] \ {r} : fs'[m][n] = fs[m][n]
          /\ \A j \in Mon \ {m} : fs'[j] = fs[j]
      BY <1>2, <3>1, <3>3 DEF FreeInv, LogInv, LogTypes
    <3> QED  BY <3>2, <3>4 DEF SameCounts
  <2> QED  BY <1>1, <2>1, <2>2
<1>4. Resting /\ Resting' /\ pc' \notin {"sync", "rename"}
  BY <1>1, Zenon DEF Resting, Booting, Rolls
<1>5. Clocks' /\ now <= now' /\ now' - clock' <= now - clock
  BY <1>1 DEF FreeInv, FreeOK, Clocks, LogInv, LogTypes
<1> QED  BY <1>1, <1>3, <1>4, <1>5, FreeRests

\* However late a writer is, its timer is set an interval or more after it last was,
\* and an interval or less from now.
LEMMA TimerLeads ==
    ASSUME write_timer \in [Mon -> Int], now \in Int, NEW m \in Mon, m \in Due, timer_set(m)
    PROVE  /\ write_timer' \in [Mon -> Int]
           /\ \A k \in Mon \ {m} : write_timer'[k] = write_timer[k]
           /\ write_timer[m] + time_interv[m] <= write_timer'[m]
           /\ write_timer'[m] <= now + time_interv[m] /\ now <= write_timer'[m]
<1> DEFINE w == write_timer[m]
           p == time_interv[m]
           d == now - w
           e == d % LateRange
<1>1. w \in Int /\ now \in Int /\ w <= now /\ p \in Nat /\ p > 0
  BY Interval DEF Due
<1>2. d \in Nat
  BY <1>1
<1>3. e \in Nat /\ e <= d
  <2> HIDE DEF d
  <2> QED  BY <1>2, MonitorAssumption
<1>4. timer_elapsed(m) = e
  BY DEF timer_elapsed
<1>5. Remaining(m) = IF e < p THEN p - e ELSE p \div 10
  BY <1>4 DEF Remaining
<1> HIDE DEF e, p
<1>6. /\ now + Remaining(m) \in Int /\ w + p <= now + Remaining(m)
      /\ Remaining(m) <= p /\ Remaining(m) \in Nat
  <2>1. p \div 10 \in Nat /\ p \div 10 <= p
    BY <1>1
  <2>2. CASE e < p
    <3>1. Remaining(m) = p - e
      BY <1>5, <2>2
    <3> QED  BY <1>1, <1>3, <2>2, <3>1
  <2>3. CASE ~ (e < p)
    <3>1. Remaining(m) = p \div 10 /\ p <= e
      BY <1>1, <1>3, <1>5, <2>3
    <3> QED  BY <1>1, <1>3, <2>1, <3>1
  <2> QED  BY <2>2, <2>3
<1>7. write_timer' = [write_timer EXCEPT ![m] = now + Remaining(m)]
  BY DEF timer_set
<1> HIDE DEF w
<1>8. /\ write_timer' \in [Mon -> Int]
      /\ \A k \in Mon \ {m} : write_timer'[k] = write_timer[k]
      /\ write_timer'[m] = now + Remaining(m)
  BY <1>6, <1>7
<1> QED  BY <1>1, <1>6, <1>8 DEF w, p

\* An entry is due, and taken or left out.
LEMMA SampleFree ==
    ASSUME ~ CardErrors, FreeInv, NEW m \in Mon, Sample(m) \/ SampleLost(m), LogInv', NamesInv'
    PROVE  FreeOK'
<1>1. /\ pc = "idle" /\ pc' \in {"append", "idle"} /\ mon' = m /\ m \in Due /\ timer_set(m)
      /\ UNCHANGED <<fs, writing, clock, clockSynched, now, crashes>>
  BY DEF Sample, SampleLost, Turn, disk, names, simon
<1>2. pc \notin Booting /\ pc' \notin Booting /\ ~ Rolls /\ ~ Rolls' /\ pc' # "rename"
      /\ pc' \notin {"count", "sync", "roll"}
  BY <1>1, Zenon DEF Booting, Rolls
<1>3. now \in Int /\ write_timer \in [Mon -> Int]
  BY DEF FreeInv, LogInv, LogTypes, FreeOK, Clocks
<1>4. /\ write_timer' \in [Mon -> Int]
      /\ \A k \in Mon \ {m} : write_timer'[k] = write_timer[k]
      /\ write_timer[m] + time_interv[m] <= write_timer'[m]
      /\ write_timer'[m] <= now + time_interv[m] /\ now <= write_timer'[m]
  BY <1>1, <1>3, TimerLeads
<1>5. Clocks'
  BY <1>1, <1>4 DEF FreeInv, FreeOK, Clocks
<1>6. FreeStages'
  BY <1>1, <1>2, <1>4 DEF FreeStages
<1>7. Measures /\ Measures'
  BY <1>5, MeasuredNext DEF FreeInv, FreeOK
<1>8. ASSUME NEW k \in Mon, k # m PROVE Spaced(k)'
  <2>1. Used(k)' = Used(k) /\ ~ Rolling(k)
    BY <1>1, <1>2, <1>8 DEF Used, Rolling
  <2>2. Used(k)' <= Used(k)
    BY <1>2, <1>7, <2>1 DEF Measures
  <2>3. now <= now' /\ now' - clock' <= now - clock
    BY <1>1, <1>7 DEF Measures
  <2> QED  BY <1>1, <1>2, <1>4, <1>5, <1>8, <2>1, <2>2, <2>3, SpacedKept
<1>9. Spaced(m)'
  <2>1. Spaced(m)
    BY <1>2 DEF FreeInv, FreeOK
  <2> DEFINE p == time_interv[m]
             u == Used(m)
             v == Used(m)'
             s == Shown(m)
             t == Shown(m)'
  <2>2. u \in Nat /\ v \in Nat /\ v <= u + 1
    <3>1. u = fs[m][writing[m]].count /\ u \in Nat
      BY <1>1, <1>2, <1>7 DEF Used, Measures
    <3>2. v = fs[m][writing[m]].count + 1 \/ v = fs[m][writing[m]].count
      BY <1>1, <1>2 DEF Used
    <3> HIDE DEF u, v
    <3> QED  BY <3>1, <3>2
  <2>3. s \in Int /\ t \in Int /\ s + p <= t /\ p \in Nat
    <3>1. /\ write_timer[m] \in Int /\ write_timer'[m] \in Int /\ p \in Nat
          /\ now \in Int /\ clock \in Int
      BY <1>2, <1>7, Interval DEF Measures
    <3>2. s = write_timer[m] - (now - clock) /\ t = write_timer'[m] - (now - clock)
      BY <1>1 DEF Shown
    <3> HIDE DEF s, t, p
    <3> QED  BY <1>4, <3>1, <3>2 DEF p
  <2>4. p * u \in Nat /\ p * v \in Nat /\ p * v <= p * u + p
    <3>1. u + 1 \in Nat /\ v <= u + 1
      BY <2>2
    <3>2. p * v <= p * (u + 1) /\ p * (u + 1) = p * u + p /\ p * u \in Nat /\ p * v \in Nat
      BY <2>2, <3>1, Interval
    <3> QED  BY <3>2
  <2>5. ASSUME NEW n \in DOMAIN fs'[m] \ {LOG_FILENAME_START} PROVE Room(m, n)'
    <3> DEFINE a == n * HourLen
               x == p * u
               y == p * v
    <3>1. Room(m, n) /\ n \in Int
      BY <1>1, <2>1 DEF Spaced
    <3>2. a \in Int /\ MaxBusy \in Nat
      BY <3>1, MonitorAssumption
    <3>3. a + x <= s + MaxBusy
      BY <3>1 DEF Room
    <3>4. x \in Nat /\ y \in Nat /\ y <= x + p
      BY <2>4
    <3> HIDE DEF a, x, y, s, t, p
    <3>5. a + y <= t + MaxBusy
      BY <2>3, <3>2, <3>3, <3>4
    <3> QED  BY <3>5 DEF Room, a, y, t, p, v
  <2> QED  BY <1>1, <1>2, <1>4, <2>1, <2>5 DEF Spaced, Rolling
<1> QED  BY <1>2, <1>5, <1>6, <1>8, <1>9 DEF FreeOK

\* One file of the monitor is written, and keeps its date.
LEMMA FileKept ==
    ASSUME LogTypes, mon \in Mon, writing[mon] \in DOMAIN fs[mon],
           NEW f \in File, Store(writing[mon], f)
    PROVE  /\ \A m \in Mon : DOMAIN fs'[m] = DOMAIN fs[m]
           /\ fs'[mon][writing[mon]] = f
           /\ \A m \in Mon \ {mon} : fs'[m] = fs[m]
BY StoreWrites

LEMMA AppendFree ==
    ASSUME FreeInv, AppendLine, LogInv', NamesInv'
    PROVE  FreeOK'
<1> DEFINE f == [Current EXCEPT !.lines = Append(@, now)]
<1>1. /\ pc = "append" /\ pc' = "count" /\ mon' = mon /\ Store(writing[mon], f)
      /\ UNCHANGED <<writing, clock, clockSynched, now, write_timer, crashes>>
  BY DEF AppendLine, Goto, names, simon, env
<1>2. mon \in Mon /\ writing[mon] \in DOMAIN fs[mon]
  BY <1>1 DEF FreeInv, LogInv, Place, FileWritten
<1>3. f \in File /\ f.count = Current.count /\ f.synched = Current.synched
  <2> DEFINE g == Current
             l == Append(Current.lines, now)
             h == [g EXCEPT !.lines = l]
  <2>1. g \in File /\ now \in Int
    BY <1>2 DEF Current, FreeInv, LogInv, LogTypes
  <2>2. l \in Seq(Int)
    <3>1. g.lines \in Seq(Int)
      BY <2>1 DEF File
    <3> HIDE DEF g
    <3> QED  BY <2>1, <3>1 DEF g
  <2> HIDE DEF g, l
  <2>3. h \in File /\ h.count = g.count /\ h.synched = g.synched
    BY <2>1, <2>2 DEF File
  <2>4. f = h
    BY DEF g, l
  <2> HIDE DEF h, f
  <2> QED  BY <2>3, <2>4 DEF g
<1> HIDE DEF f
<1>4. /\ \A m \in Mon : DOMAIN fs'[m] = DOMAIN fs[m]
      /\ fs'[mon][writing[mon]] = f
      /\ \A m \in Mon \ {mon} : fs'[m] = fs[m]
  BY <1>1, <1>2, <1>3, FileKept DEF FreeInv, LogInv
<1>5. pc \notin Booting /\ pc' \notin Booting /\ ~ Rolls /\ ~ Rolls'
  BY <1>1, Zenon DEF Booting, Rolls
<1>6. Clocks'
  BY <1>1 DEF FreeInv, FreeOK, Clocks
<1>7. FreeStages'
  BY <1>1, <1>5 DEF FreeStages, FreeInv, FreeOK
<1>8. ASSUME NEW m \in Mon PROVE Spaced(m)'
  <2>1. /\ fs'[m][writing[m]].count = fs[m][writing[m]].count
        /\ fs'[m][writing[m]].synched = fs[m][writing[m]].synched
    BY <1>3, <1>4 DEF Current
  <2>2. Used(m)' = Used(m) /\ ~ Rolling(m)
    BY <1>1, <1>5, <2>1 DEF Used, Rolling
  <2>3. Used(m) \in Nat /\ now \in Int /\ clock \in Int
    BY <1>5, MeasuredNext DEF FreeInv, FreeOK, Measures
  <2>4. Used(m)' <= Used(m) /\ now <= now' /\ now' - clock' <= now - clock
    BY <1>1, <2>2, <2>3
  <2> QED  BY <1>1, <1>4, <1>5, <1>6, <2>1, <2>2, <2>4, SpacedKept
<1> QED  BY <1>5, <1>6, <1>7, <1>8 DEF FreeOK

\* A full file is left at an hour that has no file yet.
LEMMA FreshHour ==
    ASSUME Spacious, FreeInv, pc = "count", Full(Current.count + 1)
    PROVE  /\ Hour(clock) \notin DOMAIN fs[mon] /\ Hour(clock) # LOG_FILENAME_START
           /\ Hour(clock) \in Int /\ Hour(clock) * HourLen <= clock
           /\ \A n \in DOMAIN fs[mon] \ {LOG_FILENAME_START} : n * HourLen <= clock
<1>1. mon \in Mon /\ writing[mon] \in DOMAIN fs[mon] /\ pc \notin Booting
  BY DEF FreeInv, LogInv, Place, FileWritten, Booting
<1>2. Spaced(mon)
  BY <1>1 DEF FreeInv, FreeOK
<1> DEFINE p == time_interv[mon]
           u == Used(mon)
           k == MAX_NUM_OF_ENTRIES
           g == HourLen
           h == Hour(clock)
           w == write_timer[mon]
<1>3. /\ now \in Int /\ clock \in Int /\ w \in Int /\ p \in Nat /\ k \in Nat /\ k > 2
      /\ g \in Nat /\ g > 0 /\ MaxBusy \in Nat
      /\ 0 <= clock /\ clock <= now /\ now <= MaxTime /\ MaxTime < LOG_FILENAME_START
      /\ MaxTime \in Nat
  <2>1. now \in Int /\ clock \in Int /\ w \in Int /\ p \in Nat
    BY <1>1, MeasuredNext, Interval DEF FreeInv, FreeOK, Measures
  <2>2. 0 <= clock /\ clock <= now /\ now <= MaxTime
    BY DEF FreeInv, FreeOK, Clocks
  <2>3. k \in Nat /\ k > 2 /\ g \in Nat /\ g > 0 /\ MaxBusy \in Nat
        /\ MaxTime < LOG_FILENAME_START /\ MaxTime \in Nat
    BY MonitorAssumption
  <2> QED  BY <2>1, <2>2, <2>3
<1>4. u = k - 1
  BY DEF Used, Current, Full
<1>5. p * u \in Nat /\ p * (k - 2) \in Nat /\ p * u = p * (k - 2) + p /\ g + MaxBusy <= p * (k - 2)
  <2>1. k - 2 \in Nat /\ u = (k - 2) + 1
    BY <1>3, <1>4
  <2>2. g + MaxBusy <= p * (k - 2)
    BY <1>1 DEF Spacious
  <2> HIDE DEF p, k, g, u
  <2>3. p * (k - 2) \in Nat /\ p * ((k - 2) + 1) = p * (k - 2) + p
    <3> DEFINE j == k - 2
    <3>1. j \in Nat
      BY <2>1
    <3> HIDE DEF j
    <3>2. p * j \in Nat /\ p * (j + 1) = p * j + p
      BY <1>1, <3>1, Interval DEF p
    <3> QED  BY <3>2 DEF j
  <2>4. p * (k - 2) + p \in Nat
    BY <1>3, <2>3
  <2> QED  BY <2>1, <2>2, <2>3, <2>4
<1>6. Shown(mon) <= clock + p
  <2>1. w <= now + p /\ Shown(mon) = w - (now - clock)
    BY <1>2 DEF Spaced, Shown
  <2> HIDE DEF p, w
  <2> QED  BY <1>3, <2>1
<1>7. h \in Int /\ h * g <= clock /\ clock < (h + 1) * g /\ h <= clock
  <2>1. h = clock \div g /\ clock \in Nat
    BY <1>3 DEF Hour
  <2> HIDE DEF g, h
  <2>2. \A c \in Nat : c \div g \in Nat /\ (c \div g) * g <= c /\ c < (c \div g + 1) * g
                       /\ c \div g <= c
    BY <1>3
  <2> QED  BY <2>1, <2>2
<1>8. ASSUME NEW n \in DOMAIN fs[mon] \ {LOG_FILENAME_START}
      PROVE  n \in Int /\ n * g + g <= clock
  <2>1. n \in Int /\ n * g + p * u <= Shown(mon) + MaxBusy
    BY <1>2 DEF Spaced, Room
  <2> DEFINE a == n * g
             x == p * u
             y == p * (k - 2)
             s == Shown(mon)
  <2>2. a \in Int /\ s \in Int
    BY <1>1, <1>3, <2>1, MeasuredNext DEF FreeInv, FreeOK, Measures
  <2>3. a + x <= s + MaxBusy /\ x \in Nat /\ y \in Nat /\ x = y + p /\ g + MaxBusy <= y
        /\ s <= clock + p
    BY <1>5, <1>6, <2>1
  <2> HIDE DEF a, x, y, s, p, g
  <2>4. a + g <= clock
    BY <1>3, <2>2, <2>3
  <2> QED  BY <2>1, <2>4 DEF a
<1>9. ASSUME h \in DOMAIN fs[mon] PROVE FALSE
  <2>1. h # LOG_FILENAME_START
    <3> HIDE DEF h
    <3> QED  BY <1>3, <1>7 DEF LOG_FILENAME_START
  <2>2. h * g + g <= clock
    BY <1>8, <1>9, <2>1
  <2>3. (h + 1) * g = h * g + g /\ h * g \in Int
    <3> HIDE DEF g, h
    <3> QED  BY <1>3, <1>7
  <2> DEFINE a == h * g
             b == (h + 1) * g
  <2>4. a + g <= clock /\ clock < b /\ b = a + g /\ a \in Int
    BY <1>7, <2>2, <2>3
  <2> HIDE DEF a, b, g
  <2> QED  BY <1>3, <2>4
<1>10. h # LOG_FILENAME_START
  <2> HIDE DEF h
  <2> QED  BY <1>3, <1>7 DEF LOG_FILENAME_START
<1>11. ASSUME NEW n \in DOMAIN fs[mon] \ {LOG_FILENAME_START} PROVE n * HourLen <= clock
  <2> DEFINE a == n * g
  <2>1. n \in Int /\ a + g <= clock
    BY <1>8
  <2>2. a \in Int
    BY <1>3, <2>1
  <2> HIDE DEF a, g
  <2>3. a <= clock
    BY <1>3, <2>1, <2>2
  <2> QED  BY <2>3 DEF a, g
<1> QED  BY <1>7, <1>9, <1>10, <1>11

LEMMA CountFree ==
    ASSUME ~ CardErrors, Spacious, FreeInv, CountEntry, LogInv', NamesInv'
    PROVE  FreeOK'
<1> DEFINE n == writing[mon]
           f == [Current EXCEPT !.count = @ + 1]
           full == Full(Current.count + 1)
<1>1. mon \in Mon /\ n \in DOMAIN fs[mon] /\ pc = "count"
  BY DEF CountEntry, FreeInv, LogInv, Place, FileWritten
<1>2. f \in File /\ f.count = Current.count + 1 /\ f.synched = Current.synched
  <2> DEFINE g == Current
  <2>1. g \in File /\ f = [g EXCEPT !.count = g.count + 1]
    BY <1>1 DEF Current, FreeInv, LogInv, LogTypes
  <2> HIDE DEF f, g
  <2>2. f \in File /\ f.count = g.count + 1 /\ f.synched = g.synched
    BY <2>1 DEF File
  <2> QED  BY <2>2 DEF g
<1>3. /\ mon' = mon /\ Store(n, f)
      /\ pc' = IF full THEN "roll" ELSE IF f.synched THEN "idle" ELSE "sync"
      /\ writing' = [writing EXCEPT ![mon] = IF full THEN Hour(clock) ELSE @]
      /\ UNCHANGED <<clock, clockSynched, now, write_timer, crashes>>
  <2>1. /\ mon' = mon /\ Store(n, f)
        /\ pc' = IF Full(f.count) THEN "roll" ELSE IF f.synched THEN "idle" ELSE "sync"
        /\ writing' = [writing EXCEPT ![mon] = IF Full(f.count) THEN Hour(clock) ELSE @]
        /\ UNCHANGED <<clock, clockSynched, now, write_timer, crashes>>
    BY DEF CountEntry, StoreHeader, Goto, simon, env
  <2> HIDE DEF f
  <2> QED  BY <1>2, <2>1
<1> HIDE DEF f
<1>4. /\ \A m \in Mon : DOMAIN fs'[m] = DOMAIN fs[m]
      /\ fs'[mon][n] = f
      /\ \A m \in Mon \ {mon} : fs'[m] = fs[m]
  BY <1>1, <1>2, <1>3, FileKept DEF FreeInv, LogInv
<1>5. /\ \A m \in Mon \ {mon} : writing'[m] = writing[m]
      /\ writing'[mon] = IF full THEN Hour(clock) ELSE n
  BY <1>1, <1>3 DEF FreeInv, LogInv, LogTypes
<1>6. /\ pc \notin Booting /\ pc' \notin Booting /\ ~ Rolls /\ (Rolls' <=> full)
      /\ pc' # "append" /\ pc' # "count" /\ pc' # "rename" /\ (pc' = "roll" <=> full)
      /\ (pc' = "sync" => ~ f.synched)
  BY <1>1, <1>3, Zenon DEF Booting, Rolls
<1>7. Clocks'
  BY <1>3 DEF FreeInv, FreeOK, Clocks
<1>8. now <= write_timer[mon] /\ now \in Int /\ clock \in Int /\ write_timer[mon] \in Int
  BY <1>1, <1>6, MeasuredNext DEF FreeInv, FreeOK, FreeStages, Measures
<1>9. full => /\ Hour(clock) \notin DOMAIN fs[mon] /\ Hour(clock) # LOG_FILENAME_START
              /\ Hour(clock) \in Int /\ Hour(clock) * HourLen <= clock
              /\ \A k \in DOMAIN fs[mon] \ {LOG_FILENAME_START} : k * HourLen <= clock
  BY <1>1, FreshHour
<1>10. Shown(mon)' = Shown(mon) /\ Shown(mon) \in Int /\ clock <= Shown(mon)
  <2>1. Shown(mon)' = Shown(mon) /\ Shown(mon) = write_timer[mon] - (now - clock)
    BY <1>3 DEF Shown
  <2> QED  BY <1>8, <2>1
<1>11. FreeStages'
  <2>1. Current' = f \/ full
    BY <1>3, <1>4, <1>5 DEF Current
  <2>2. ~ full => Current' = f
    BY <2>1
  <2>3. full => /\ writing'[mon'] \notin DOMAIN fs'[mon'] /\ writing'[mon'] # LOG_FILENAME_START
                /\ writing'[mon'] * HourLen <= Shown(mon)'
    <3>1. SUFFICES ASSUME full
                   PROVE /\ writing'[mon'] \notin DOMAIN fs'[mon'] /\ writing'[mon'] # LOG_FILENAME_START
                         /\ writing'[mon'] * HourLen <= Shown(mon)'
      OBVIOUS
    <3>2. writing'[mon'] = Hour(clock) /\ DOMAIN fs'[mon'] = DOMAIN fs[mon]
      BY <1>1, <1>3, <1>4, <1>5, <3>1
    <3> DEFINE a == Hour(clock) * HourLen
    <3>4. a \in Int /\ a <= clock
      BY <1>9, <3>1, MonitorAssumption
    <3> HIDE DEF a
    <3>5. a <= Shown(mon)
      BY <1>8, <1>10, <3>4
    <3> QED  BY <1>9, <1>10, <3>1, <3>2, <3>5 DEF a
  <2>4. pc' \in {"append", "count", "sync", "roll"} => now' <= write_timer'[mon']
    BY <1>3, <1>8
  <2>5. pc' = "sync" => ~ Current'.synched
    BY <1>3, <1>6, <2>2
  <2> HIDE DEF full
  <2>6. pc' # "rename" /\ pc' # "roll header"
    BY <1>3
  <2> QED  BY <1>6, <2>3, <2>4, <2>5, <2>6 DEF FreeStages
<1>12. ASSUME NEW m \in Mon, m # mon \/ ~ full PROVE Spaced(m)'
  <2>1. /\ fs'[m][writing[m]].synched = fs[m][writing[m]].synched
        /\ writing'[m] = writing[m] /\ ~ Rolling(m)
    BY <1>2, <1>4, <1>5, <1>6, <1>12 DEF Current, Rolling
  <2>2. Used(m)' = Used(m)
    <3>1. CASE m # mon
      BY <1>1, <1>3, <1>4, <2>1, <3>1 DEF Used
    <3>2. CASE m = mon
      <4>1. Used(m) = Current.count + 1
        BY <1>1, <3>2 DEF Used, Current
      <4>2. Used(m)' = fs'[m][n].count
        BY <1>3, <1>5, <1>6, <1>12, <3>2 DEF Used
      <4> QED  BY <1>2, <1>4, <3>2, <4>1, <4>2
    <3> QED  BY <3>1, <3>2
  <2>3. Used(m) \in Nat
    BY <1>6, MeasuredNext DEF FreeInv, FreeOK, Measures
  <2>4. Used(m)' <= Used(m) /\ now <= now' /\ now' - clock' <= now - clock
    BY <1>3, <1>8, <2>2, <2>3
  <2> QED  BY <1>3, <1>4, <1>6, <1>7, <2>1, <2>4, SpacedKept
<1>13. ASSUME full, NEW m \in Mon, m = mon PROVE Spaced(m)'
  <2>1. Spaced(m)
    BY <1>6 DEF FreeInv, FreeOK
  <2>2. Used(m)' = 0 /\ Rolling(m)'
    BY <1>3, <1>6, <1>13 DEF Used, Rolling
  <2>3. Shown(m)' = Shown(m) /\ Shown(m) \in Int /\ clock <= Shown(m)
    BY <1>3, <1>10, <1>13 DEF Shown
  <2>4. ASSUME NEW k \in DOMAIN fs'[m] \ {LOG_FILENAME_START} PROVE Room(m, k)'
    <3> DEFINE a == k * HourLen
               s == Shown(m)
               t == Shown(m)'
               y == time_interv[m] * Used(m)'
    <3>1. k \in DOMAIN fs[mon] \ {LOG_FILENAME_START} /\ k \in Int
      BY <1>4, <1>13, <2>1 DEF Spaced
    <3>2. a \in Int /\ a <= clock /\ MaxBusy \in Nat
      BY <1>9, <1>13, <3>1, MonitorAssumption
    <3>3. y = 0
      BY <2>2, Interval
    <3>4. s \in Int /\ clock <= s /\ t = s
      BY <2>3
    <3> HIDE DEF a, s, t, y
    <3>5. a + y <= t + MaxBusy
      BY <1>8, <3>2, <3>3, <3>4
    <3> QED  BY <3>5 DEF Room, a, t, y
  <2>5. writing'[m] # LOG_FILENAME_START /\ DOMAIN fs'[m] = DOMAIN fs[m]
    BY <1>4, <1>5, <1>9, <1>13
  <2>6. write_timer'[m] <= now' + time_interv[m]
    BY <1>3, <2>1 DEF Spaced
  <2> QED  BY <2>1, <2>2, <2>4, <2>5, <2>6 DEF Spaced
<1>14. \A m \in Mon : Spaced(m)'
  BY <1>12, <1>13
<1> QED  BY <1>6, <1>7, <1>11, <1>14 DEF FreeOK

\* The new file is made, and dated.
LEMMA RollFree ==
    ASSUME FreeInv, FileMade, LogInv', NamesInv'
    PROVE  FreeOK'
<1> DEFINE n == writing[mon]
<1>1. /\ pc \in {"roll", "roll header", "roll stamp"} /\ mon' = mon /\ mon \in Mon
      /\ pc' \in {"roll header", "roll stamp", "idle"}
      /\ UNCHANGED <<writing, clock, clockSynched, now, write_timer, crashes>>
  <2>1. pc \notin {"recreate", "new header"}
    BY DEF FreeInv, LogInv, Place
  <2>2. /\ pc \in {"roll", "roll header", "roll stamp"} /\ mon' = mon
        /\ pc' \in {"roll header", "roll stamp", "idle"}
        /\ UNCHANGED <<writing, clock, clockSynched, now, write_timer, crashes>>
    BY <2>1, Zenon DEF FileMade, OpenWrite, NewHeader, RollStamp, Goto, names, simon, env
  <2>3. mon \in Mon
    BY <2>2 DEF FreeInv, LogInv, Place
  <2> QED  BY <2>2, <2>3
<1>2. PICK f \in File : /\ Store(n, f) /\ (pc' = "idle" => f.synched)
                        /\ IF pc = "roll stamp" THEN f.count = Current.count /\ n \in DOMAIN fs[mon]
                                                ELSE f.count = 0
                        /\ pc # "roll" => n \in DOMAIN fs[mon]
  <2>1. pc # "roll" => n \in DOMAIN fs[mon]
    BY <1>1 DEF FreeInv, LogInv, Place, FileWritten
  <2>2. CASE OpenWrite("roll", "roll header")
    <3>1. Empty \in File /\ Empty.count = 0
      BY EmptyFile DEF Empty
    <3>2. pc = "roll" /\ pc' = "roll header" /\ Store(n, Empty)
      BY <2>2 DEF OpenWrite, Goto
    <3> QED  BY <3>1, <3>2
  <2>3. CASE NewHeader("roll header", "roll stamp")
    <3> DEFINE f == [Empty EXCEPT !.ok = TRUE, !.lines = Current.lines]
    <3>1. pc = "roll header" /\ pc' = "roll stamp" /\ Store(n, f)
      BY <2>3 DEF NewHeader, Goto
    <3>2. Current.lines \in Seq(Int)
      BY <1>1, <2>1, <3>1 DEF Current, FreeInv, LogInv, LogTypes, File
    <3>3. f \in File /\ f.count = 0
      BY <3>2, HeaderOf DEF Empty
    <3> HIDE DEF f
    <3> QED  BY <2>1, <3>1, <3>3
  <2>4. CASE RollStamp
    <3> DEFINE g == Current
               f == [g EXCEPT !.start = clock, !.synched = TRUE]
    <3>1. pc = "roll stamp" /\ pc' = "idle" /\ Store(n, f)
      BY <2>4 DEF RollStamp, Goto
    <3>2. g \in File /\ clock \in Int
      BY <1>1, <2>1, <3>1 DEF Current, FreeInv, LogInv, LogTypes
    <3> HIDE DEF g
    <3>3. f \in File /\ f.count = g.count /\ f.synched
      BY <3>2 DEF File
    <3> HIDE DEF f
    <3> QED  BY <2>1, <3>1, <3>3 DEF g
  <2>5. ~ OpenWrite("recreate", "new header") /\ ~ NewHeader("new header", "append")
    BY <1>1, Zenon DEF OpenWrite, NewHeader
  <2> QED  BY <2>2, <2>3, <2>4, <2>5 DEF FileMade
<1>3. /\ fs'[mon][n] = f /\ DOMAIN fs'[mon] = DOMAIN fs[mon] \cup {n}
      /\ \A m \in Mon \ {mon} : fs'[m] = fs[m]
  BY <1>1, <1>2, StoreWrites DEF FreeInv, LogInv
<1>4. /\ pc \notin Booting /\ pc' \notin Booting /\ Rolls /\ (pc' = "idle" \/ Rolls')
      /\ pc' \notin {"append", "count", "sync", "roll", "rename"}
      /\ pc \notin {"append", "count"}
  BY <1>1, Zenon DEF Booting, Rolls
<1>5. Clocks'
  BY <1>1 DEF FreeInv, FreeOK, Clocks
<1>6. FreeStages'
  <2>1. pc' = "roll header" => pc = "roll"
    BY <1>1, Zenon DEF FileMade, OpenWrite, NewHeader, RollStamp, Goto
  <2>2. Current' = f
    BY <1>1, <1>3 DEF Current
  <2> QED  BY <1>1, <1>2, <1>4, <2>1, <2>2 DEF FreeInv, FreeOK, FreeStages
<1>7. Used(mon)' = Used(mon) /\ Used(mon) \in Nat /\ Used(mon)' = f.count
  <2>1. Used(mon)' = f.count
    BY <1>1, <1>3, <1>4 DEF Used
  <2>2. Used(mon) \in Nat
    BY <1>1, <1>4, MeasuredNext DEF FreeInv, FreeOK, Measures
  <2>3. pc = "roll" => Used(mon) = 0
    BY DEF Used
  <2>4. pc # "roll" => Used(mon) = fs[mon][n].count
    BY <1>4 DEF Used
  <2>5. pc = "roll header" => fs[mon][n].count = 0
    BY DEF FreeInv, FreeOK, FreeStages, Current
  <2> QED  BY <1>1, <1>2, <2>1, <2>2, <2>3, <2>4, <2>5 DEF Current
<1>8. ASSUME NEW m \in Mon, m # mon PROVE Spaced(m)'
  <2>1. Used(m)' = Used(m) /\ ~ Rolling(m)
    BY <1>1, <1>3, <1>8 DEF Used, Rolling
  <2>2. Used(m) \in Nat /\ now \in Int /\ clock \in Int
    BY <1>4, MeasuredNext DEF FreeInv, FreeOK, Measures
  <2>3. Used(m)' <= Used(m)
    BY <2>1, <2>2
  <2>4. now <= now' /\ now' - clock' <= now - clock
    <3>1. now' = now /\ clock' = clock
      BY <1>1
    <3>2. now \in Int /\ clock \in Int
      BY <2>2
    <3> QED  BY ONLY <3>1, <3>2
  <2> QED  BY <1>1, <1>3, <1>4, <1>5, <1>8, <2>1, <2>3, <2>4, SpacedKept
<1>9. ASSUME NEW m \in Mon, m = mon PROVE Spaced(m)'
  <2>1. Spaced(m) /\ n # LOG_FILENAME_START
    BY <1>1, <1>4 DEF FreeInv, FreeOK, FreeStages
  <2>2. n \in Int
    BY <1>1 DEF FreeInv, LogInv, LogTypes
  <2>3. /\ Shown(m)' = Shown(m) /\ Shown(m) \in Int
        /\ Used(m)' = Used(m) /\ Used(m) \in Nat
        /\ pc = "roll" => Used(m)' = 0
    <3>1. Shown(m)' = Shown(m) /\ Shown(m) \in Int
      BY <1>1, <1>4, MeasuredNext DEF Shown, FreeInv, FreeOK, Measures
    <3>2. Used(m)' = Used(mon)' /\ Used(m) = Used(mon)
      BY <1>1, <1>9
    <3>3. pc = "roll" => Used(m) = 0
      BY <1>9 DEF Used
    <3> QED  BY <1>7, <3>1, <3>2, <3>3
  <2>4. ASSUME NEW k \in DOMAIN fs[m] \ {LOG_FILENAME_START} PROVE Room(m, k)'
    <3>1. Room(m, k)
      BY <2>1 DEF Spaced
    <3> QED  BY <2>3, <3>1 DEF Room
  <2>5. Room(m, n)'
    <3>1. CASE n \in DOMAIN fs[m]
      <4>1. Room(m, n) /\ UNCHANGED n
        BY <1>1, <2>1, <3>1 DEF Spaced
      <4> QED  BY <2>3, <4>1 DEF Room
    <3>2. CASE n \notin DOMAIN fs[m]
      <4>1. pc = "roll"
        BY <1>2, <1>9, <3>2
      <4> DEFINE a == n * HourLen
                 s == Shown(m)
                 t == Shown(m)'
                 y == time_interv[m] * Used(m)'
      <4>2. a <= s /\ a \in Int /\ s \in Int /\ MaxBusy \in Nat /\ t = s
        BY <1>9, <2>2, <2>3, <4>1, MonitorAssumption DEF FreeInv, FreeOK, FreeStages
      <4>3. y = 0
        BY <2>3, <4>1, Interval
      <4>4. UNCHANGED n
        BY <1>1
      <4> HIDE DEF a, s, t, y
      <4>5. a + y <= t + MaxBusy
        BY <4>2, <4>3
      <4> QED  BY <4>4, <4>5 DEF Room, a, t, y
    <3> QED  BY <3>1, <3>2
  <2>6. ASSUME NEW k \in DOMAIN fs'[m] \ {LOG_FILENAME_START} PROVE Room(m, k)'
    <3>1. CASE k = n
      <4>1. UNCHANGED n
        BY <1>1
      <4> QED  BY <2>5, <3>1, <4>1 DEF Room
    <3>2. CASE k # n
      BY <1>3, <1>9, <2>4, <3>2
    <3> QED  BY <3>1, <3>2
  <2>7. ~ Rolling(m)' => fs'[m][writing'[m]].synched
    BY <1>1, <1>2, <1>3, <1>4, <1>9 DEF Rolling
  <2>8. /\ DOMAIN fs'[m] \subseteq Int /\ writing'[m] # LOG_FILENAME_START
        /\ write_timer'[m] <= now' + time_interv[m]
    BY <1>1, <1>3, <1>9, <2>1, <2>2 DEF Spaced
  <2> QED  BY <2>6, <2>7, <2>8 DEF Spaced
<1>10. \A m \in Mon : Spaced(m)'
  BY <1>8, <1>9
<1> QED  BY <1>4, <1>5, <1>6, <1>10 DEF FreeOK

\* A time t is no later than a request after the time w of the next entry.
LEMMA DatedInTime ==
    ASSUME NEW a \in Int, NEW y \in Nat, NEW t \in Int, NEW w \in Int, NEW i \in Int,
           NEW b \in Nat, t <= i + b, i <= w, a <= t - y
    PROVE  a + y <= (w - (t - t)) + b
OBVIOUS

\* The first file is dated, and takes its name.
LEMMA SyncStampFree ==
    ASSUME ~ CardErrors, FreeInv, SyncStamp, LogInv', NamesInv'
    PROVE  FreeOK'
<1> DEFINE n == writing[mon]
           c == Current.count
           x == time_interv[mon] * c
           start == now' - x
           h == Hour(start)
           f == [Current EXCEPT !.start = start, !.synched = TRUE]
<1>1. /\ pc = "sync" /\ pc' = "rename" /\ mon' = mon /\ Store(n, f)
      /\ newname' = h /\ clock' = now'
      /\ UNCHANGED env \/ Busy
      /\ UNCHANGED writing
  BY Zenon DEF SyncStamp, Goto, StoreHeader, TimeElapsed, names
<1>2. mon \in Mon /\ n \in DOMAIN fs[mon] /\ pc \notin Booting /\ pc' \notin Booting
      /\ ~ Rolls /\ ~ Rolls'
  BY <1>1 DEF FreeInv, LogInv, Place, FileWritten, Booting, Rolls
<1>3. /\ now \in Int /\ clock \in Int /\ MaxBusy \in Nat /\ c \in Nat /\ x \in Nat
      /\ write_timer[mon] \in Int /\ now <= write_timer[mon]
      /\ 0 <= clock /\ clock <= now /\ now <= MaxTime /\ MaxTime \in Nat
      /\ MaxTime < LOG_FILENAME_START
  <2>1. now \in Int /\ clock \in Int /\ write_timer[mon] \in Int /\ c \in Nat
    BY <1>2, MeasuredNext DEF FreeInv, FreeOK, Measures, Current
  <2>2. x \in Nat
    <3> HIDE DEF c
    <3> QED  BY <1>2, <2>1, Interval
  <2>3. /\ now <= write_timer[mon] /\ 0 <= clock /\ clock <= now /\ now <= MaxTime
    BY <1>1 DEF FreeInv, FreeOK, FreeStages, Clocks
  <2> QED  BY <2>1, <2>2, <2>3, MonitorAssumption
<1>4. /\ now' \in Int /\ now <= now' /\ now' <= now + MaxBusy /\ now' <= MaxTime
      /\ UNCHANGED <<write_timer, crashes>>
  BY <1>1, <1>3 DEF Busy, env
<1>5. n = LOG_FILENAME_START
  BY <1>1, <1>2 DEF FreeInv, FreeOK, FreeStages, Spaced, Rolling, Current
<1>6. start \in Int /\ start <= now'
  <2>1. ASSUME NEW t \in Int, NEW y \in Nat PROVE t - y \in Int /\ t - y <= t
    OBVIOUS
  <2>2. x \in Nat /\ now' \in Int
    BY <1>3, <1>4
  <2> HIDE DEF x
  <2> QED  BY <2>1, <2>2, Zenon
<1> HIDE DEF start
<1>7. f \in File /\ f.count = c /\ f.synched
  <2> DEFINE g == Current
             e == [g EXCEPT !.start = start, !.synched = TRUE]
  <2>1. g \in File /\ f = e
    BY <1>2 DEF Current, FreeInv, LogInv, LogTypes
  <2> HIDE DEF g, f
  <2>2. e \in File /\ e.count = g.count /\ e.synched
    BY <1>6, <2>1 DEF File
  <2> QED  BY <2>1, <2>2 DEF g
<1> HIDE DEF f
<1>8. /\ \A m \in Mon : DOMAIN fs'[m] = DOMAIN fs[m]
      /\ fs'[mon][n] = f
      /\ \A m \in Mon \ {mon} : fs'[m] = fs[m]
  BY <1>1, <1>2, <1>7, FileKept DEF FreeInv, LogInv
<1>9. h \in Int /\ h * HourLen <= start /\ h # LOG_FILENAME_START
  <2> DEFINE g == HourLen
  <2>1. g \in Nat /\ g > 0 /\ h = start \div g
    BY MonitorAssumption DEF Hour
  <2> HIDE DEF g, h
  <2>2. h \in Int /\ h * g <= start
    BY <1>6, <2>1
  <2>3. h >= 0 => h <= start
    <3>1. h >= 0 => h <= h * g
      BY <2>1, <2>2
    <3> QED  BY <1>6, <2>1, <2>2, <3>1
  <2>4. h # LOG_FILENAME_START
    BY <1>3, <1>4, <1>6, <2>2, <2>3 DEF LOG_FILENAME_START
  <2> QED  BY <2>2, <2>4 DEF g
<1> HIDE DEF h
<1>10. Clocks'
  BY <1>1, <1>3, <1>4 DEF FreeInv, FreeOK, Clocks
<1>11. ASSUME NEW m \in Mon PROVE Spaced(m)'
  <2>1. ~ Rolling(m)
    BY <1>1, <1>2 DEF Rolling
  <2>2. \/ fs'[m][writing[m]].synched
        \/ fs'[m][writing[m]].synched = fs[m][writing[m]].synched
    BY <1>7, <1>8
  <2>3. Used(m)' = Used(m)
    <3>1. fs'[m][writing[m]].count = fs[m][writing[m]].count
      BY <1>7, <1>8 DEF Current
    <3> QED  BY <1>1, <1>2, <3>1 DEF Used
  <2>4. Used(m) \in Nat
    BY <1>2, MeasuredNext DEF FreeInv, FreeOK, Measures
  <2>5. Used(m)' <= Used(m) /\ now' - clock' <= now - clock
    BY <1>1, <1>3, <1>4, <2>3, <2>4
  <2> QED  BY <1>1, <1>2, <1>4, <1>8, <1>10, <2>1, <2>2, <2>5, SpacedKept
<1>12. FreeStages'
  <2>1. ASSUME NEW m \in Mon, m = mon
        PROVE  h * HourLen + time_interv[m] * Used(m)' <= Shown(m)' + MaxBusy
    <3>1. Used(m)' = c
      BY <1>1, <1>2, <1>7, <1>8, <2>1 DEF Used
    <3>2. Shown(m)' = write_timer[mon] - (now' - now')
      BY <1>1, <1>4, <2>1 DEF Shown
    <3>4. /\ h * HourLen \in Int /\ h * HourLen <= now' - x
          /\ x \in Nat /\ now' \in Int /\ write_timer[mon] \in Int /\ now \in Int
          /\ now' <= now + MaxBusy /\ now <= write_timer[mon] /\ MaxBusy \in Nat
      <4>1. h * HourLen \in Int
        BY <1>9, MonitorAssumption
      <4>2. h * HourLen <= now' - x
        BY <1>9, Zenon DEF start
      <4> HIDE DEF x
      <4> QED  BY <1>3, <1>4, <4>1, <4>2
    <3>5. h * HourLen + x <= (write_timer[mon] - (now' - now')) + MaxBusy
      <4> HIDE DEF x
      <4> QED  BY <3>4, DatedInTime, Zenon
    <3> QED  BY <2>1, <3>1, <3>2, <3>5
  <2>2. Current' = f
    BY <1>1, <1>8 DEF Current
  <2>3. Room(mon, newname)'
    <3>1. h * HourLen + time_interv[mon] * Used(mon)' <= Shown(mon)' + MaxBusy
      BY <1>1, <1>2, <2>1 DEF Used, Shown
    <3> QED  BY <1>1, <3>1 DEF Room
  <2> QED  BY <1>1, <1>2, <1>5, <1>7, <1>9, <2>2, <2>3 DEF FreeStages
<1> QED  BY <1>2, <1>10, <1>11, <1>12 DEF FreeOK

LEMMA RenameFree ==
    ASSUME FreeInv, Rename \/ RenameFails, LogInv', NamesInv'
    PROVE  FreeOK'
<1> DEFINE k == newname
<1>1. /\ pc = "rename" /\ mon \in Mon /\ pc \notin Booting
      /\ writing[mon] = LOG_FILENAME_START /\ k # LOG_FILENAME_START /\ k \in Int
      /\ Room(mon, k) /\ Current.synched
  BY DEF Rename, RenameFails, FreeInv, FreeOK, FreeStages, LogInv, LogTypes, Place, Booting
<1>2. DOMAIN fs[mon] = {LOG_FILENAME_START}
  BY <1>1 DEF FreeInv, FreeOK, Spaced, LogInv, Place, FileWritten
<1>3. ~ RenameFails
  BY <1>1, <1>2 DEF RenameFails, NameTaken, Exists
<1>4. /\ fs' = [fs EXCEPT ![mon] = Renamed(fs[mon], LOG_FILENAME_START, k)]
      /\ writing' = [writing EXCEPT ![mon] = k]
      /\ mon' = mon /\ pc' \in {"sync open", "idle"}
      /\ UNCHANGED <<clock, clockSynched, now, write_timer, crashes>>
  BY <1>1, <1>3, Zenon DEF Rename, Goto, simon, env
<1>5. /\ fs'[mon] = Renamed(fs[mon], LOG_FILENAME_START, k)
      /\ writing'[mon] = k
      /\ \A m \in Mon \ {mon} : fs'[m] = fs[m] /\ writing'[m] = writing[m]
  BY <1>1, <1>4 DEF FreeInv, LogInv, LogTypes
<1>6. DOMAIN fs'[mon] = {k} /\ fs'[mon][k] = Current
  BY <1>1, <1>2, <1>5 DEF Renamed, Current
<1>7. pc' \notin Booting /\ ~ Rolls /\ ~ Rolls'
      /\ pc' \notin {"append", "count", "sync", "roll", "rename", "roll header"}
  BY <1>1, <1>4, Zenon DEF Booting, Rolls
<1>8. Clocks'
  BY <1>4 DEF FreeInv, FreeOK, Clocks
<1>9. ASSUME NEW m \in Mon, m # mon PROVE Spaced(m)'
  <2>1. Used(m)' = Used(m) /\ ~ Rolling(m)
    <3>1. fs'[m][writing'[m]] = fs[m][writing[m]] /\ mon' = mon
      BY <1>4, <1>5, <1>9
    <3>2. Used(m) = fs[m][writing[m]].count /\ Used(m)' = fs'[m][writing'[m]].count
      BY <1>4, <1>9 DEF Used
    <3> QED  BY <1>9, <3>1, <3>2 DEF Rolling
  <2>2. Used(m) \in Nat /\ now \in Int /\ clock \in Int
    BY <1>1, MeasuredNext DEF FreeInv, FreeOK, Measures
  <2>3. Used(m)' <= Used(m)
    BY <2>1, <2>2
  <2>4. now <= now' /\ now' - clock' <= now - clock
    <3>1. now' = now /\ clock' = clock
      BY <1>4
    <3>2. now \in Int /\ clock \in Int
      BY <2>2
    <3> QED  BY ONLY <3>1, <3>2
  <2> QED  BY <1>1, <1>4, <1>5, <1>7, <1>8, <1>9, <2>1, <2>3, <2>4, SpacedKept
<1>10. ASSUME NEW m \in Mon, m = mon PROVE Spaced(m)'
  <2>1. Used(m)' = Used(m) /\ Shown(m)' = Shown(m)
    <3>1. Used(m)' = fs'[mon][k].count
      BY <1>4, <1>5, <1>7, <1>10 DEF Used
    <3>2. Used(m) = Current.count
      BY <1>1, <1>10 DEF Used, Current
    <3>3. Shown(m)' = Shown(m)
      BY <1>4 DEF Shown
    <3> QED  BY <1>6, <3>1, <3>2, <3>3
  <2>2. ASSUME NEW j \in DOMAIN fs'[m] \ {LOG_FILENAME_START} PROVE Room(m, j)'
    <3>1. j = k /\ Room(m, j)
      BY <1>1, <1>6, <1>10, <2>2
    <3> QED  BY <2>1, <3>1 DEF Room
  <2>3. write_timer'[m] <= now' + time_interv[m]
    BY <1>1, <1>4 DEF FreeInv, FreeOK, Spaced
  <2> QED  BY <1>1, <1>5, <1>6, <1>10, <2>2, <2>3 DEF Spaced
<1>11. \A m \in Mon : Spaced(m)'
  BY <1>9, <1>10
<1>12. FreeStages'
  BY <1>7 DEF FreeStages
<1> QED  BY <1>7, <1>8, <1>11, <1>12 DEF FreeOK

LEMMA InitFree == Init => FreeOK
<1> SUFFICES ASSUME Init PROVE FreeOK
  OBVIOUS
<1>1. pc = "boot" /\ pc \in Booting /\ ~ Rolls
  BY DEF Init, Booting, Rolls
<1>2. Clocks
  BY MonitorAssumption DEF Init, Clocks
<1>3. FirstFiles
  BY DEF Init, FirstFiles
<1> QED  BY <1>1, <1>2, <1>3 DEF FreeOK, FreeStages

LEMMA FreeStutters ==
    ASSUME FreeInv, UNCHANGED vars
    PROVE  FreeOK'
<1>1. UNCHANGED <<fs, writing, clock, clockSynched, pc, mon, newname, now, write_timer, crashes>>
  BY DEF vars, disk, names, simon, env
<1>2. Clocks' /\ FreeStages' /\ (pc' \in Booting => FirstFiles')
  <2>1. UNCHANGED Rolls /\ UNCHANGED Current /\ UNCHANGED Shown(mon) /\ UNCHANGED Room(mon, newname)
    BY <1>1 DEF Rolls, Current, Shown, Room, Used
  <2> QED  BY <1>1, <2>1 DEF FreeInv, FreeOK, Clocks, FreeStages, FirstFiles
<1>3. ASSUME pc' \notin Booting, NEW m \in Mon PROVE Spaced(m)'
  <2>1. Spaced(m)
    BY <1>1, <1>3 DEF FreeInv, FreeOK
  <2>2. UNCHANGED Used(m) /\ UNCHANGED Shown(m) /\ UNCHANGED Rolling(m)
    BY <1>1 DEF Used, Shown, Rolling, Rolls
  <2> QED  BY <1>1, <2>1, <2>2 DEF Spaced, Room
<1> QED  BY <1>2, <1>3 DEF FreeOK

\* No rollover finds a file of its name.
LEMMA FreeRollsFree == FreeInv => RollsFree
BY DEF FreeInv, FreeOK, FreeStages, RollsFree

LEMMA NextFree ==
    ASSUME ~ CardErrors, ~ WriteFailures, Spacious, FreeInv, [Next]_vars
    PROVE  FreeInv'
<1>1. LogInv' /\ NamesInv'
  BY NextLog, NextNames, FreeRollsFree, FreeRollsAway DEF FreeInv
<1> SUFFICES FreeOK'
  BY <1>1 DEF FreeInv
<1>2. ~ Crash
  <2>1. crashes = 0 /\ MaxCrashes = 0
    BY DEF FreeInv, FreeOK, Clocks, Spacious
  <2> QED  BY <2>1 DEF Crash
<1>3. CASE Boot
  BY <1>1, <1>3, BootFree
<1>4. CASE Write
  <2>1. ASSUME NEW m \in Mon, Sample(m) PROVE FreeOK'
    BY <1>1, <2>1, SampleFree
  <2>2. ~ LineRefused /\ ~ HeaderFails
    BY DEF LineRefused, HeaderFails
  <2> QED  BY <1>1, <1>4, <2>1, <2>2, AppendFree, CountFree, RollFree, Zenon DEF Write, FileMade
<1>5. CASE Sync \/ Tick \/ Read \/ Send
  BY <1>1, <1>5, PassesFree, ConfirmFree, SyncStampFree, RenameFree, Zenon
  DEF Sync, DateAgain, Read, Send, Passes
<1>6. CASE \E m \in Mon : SampleLost(m)
  BY <1>1, <1>6, SampleFree
<1>7. CASE UNCHANGED vars
  BY <1>1, <1>7, FreeStutters
<1> QED  BY <1>2, <1>3, <1>4, <1>5, <1>6, <1>7 DEF Next

LEMMA AlwaysFree ==
    ASSUME ~ CardErrors, ~ WriteFailures, Spacious
    PROVE  Spec => []FreeInv
<1>1. Init => FreeInv
  BY InitLog, InitNames, InitFree DEF FreeInv
<1>2. FreeInv /\ [Next]_vars => FreeInv'
  BY NextFree
<1> QED  BY <1>1, <1>2, PTL DEF Spec

\* Where the files are spacious, or no rollover takes the name of the file an entry of
\* which is being uploaded, the invariant of the entries holds, power failures included.
LEMMA AlwaysLogged ==
    ASSUME ~ CardErrors, ~ WriteFailures
    PROVE  Spec /\ [](Spacious \/ RollsAway) => []LogInv
<1>1. CASE Spacious
  <2>1. FreeInv => LogInv
    BY DEF FreeInv
  <2> QED  BY <1>1, <2>1, AlwaysFree, PTL
<1>2. CASE ~ Spacious
  <2>1. LogInv /\ (Spacious \/ RollsAway) /\ [Next]_vars => LogInv'
    BY <1>2, NextLog
  <2> QED  BY <2>1, InitLog, PTL DEF Spec
<1> QED  BY <1>1, <1>2

\* If the card answers, a header never counts entries its file does not hold, nor marks
\* more of them as sent, wherever power failed and whatever answers were lost
\* (monitor_writeentry, monitor_settimestamp, monitor_confirm_entry_sent).
THEOREM LogIndexes ==
    ASSUME ~ CardErrors, ~ WriteFailures
    PROVE  Spec /\ [](Spacious \/ RollsAway) => []IndexesInFile
<1>1. LogInv => IndexesInFile
  BY DEF LogInv
<1> QED  BY <1>1, AlwaysLogged, PTL

\* Then an entry is marked as sent only when the server has it
\* (monitor_reader_multiple, monitor_confirm_entry_sent).
THEOREM LogConfirmed ==
    ASSUME ~ CardErrors, ~ WriteFailures
    PROVE  Spec /\ [](Spacious \/ RollsAway) => []ConfirmedWasReceived
<1>1. LogInv => ConfirmedWasReceived
  BY DEF LogInv
<1> QED  BY <1>1, AlwaysLogged, PTL

\* If the card answers, the power holds, and the entries of a file take longer than an
\* hour and a request, no entry leaves the card before the server has it: no rollover
\* and no new date takes the name of a file that is there, whatever requests fail and
\* however long they take (monitor_writeentry, monitor_settimestamp).
THEOREM LogKeepsEntries ==
    ASSUME ~ CardErrors, ~ WriteFailures, Spacious
    PROVE  Spec => NothingErased
<1>1. FreeInv => RollsFree
  BY FreeRollsFree
<1> QED  BY <1>1, AlwaysFree, FreeKeepsEntries, PTL

-----------------------------------------------------------------------------
\* The order of the entries: the server has what the card has from before, and
\* the file being written is later than the one being read.

\* A writer is never due again at once.
Advancing == pc = "idle" => \A m \in Due : Remaining(m) > 0

\* The batch is at the server, confirmed or not.
Delivered == \/ pc = "confirm"
             \/ pc \notin InReader /\ batch # {} /\ Received \subseteq server

\* The next entry of monitor m is not taken before this time.
NextTime(m) == IF pc = "append" /\ m = mon THEN now ELSE write_timer[m]

Rising(l)      == \A i, j \in 1 .. Len(l) : i < j => l[i] < l[j]
Below(l, t)    == \A i \in 1 .. Len(l) : l[i] < t
Apart(k, l)    == \A i \in 1 .. Len(k) : \A j \in 1 .. Len(l) : k[i] < l[j]
Later(S, l)    == \A x \in S : \A j \in 1 .. Len(l) : x < l[j]

\* What is left to send of file h is later than S, but for an entry being sent.
Unsent(S, h, sent) ==
    \A x \in S : \A i \in h.last_idx + 1 .. Len(h.lines) :
      x < h.lines[i] \/ (sent /\ i = h.last_idx + 1 /\ x = h.lines[i])

RollsOver(m) == pc = "roll" /\ m = mon
Heads        == pc = "roll header"

Ordered(m) ==
    /\ AtServer(m) \subseteq Int
    /\ \A x \in AtServer(m) : x < NextTime(m)
    /\ \A n \in DOMAIN fs[m] : Rising(fs[m][n].lines) /\ Below(fs[m][n].lines, NextTime(m))
    /\ Unsent(AtServer(m), fs[m][reading[m]], m \in sending /\ Delivered)
    /\ reading[m] # writing[m] /\ ~ RollsOver(m) =>
         /\ Apart(fs[m][reading[m]].lines, fs[m][writing[m]].lines)
         /\ Later(AtServer(m), fs[m][writing[m]].lines)
    /\ \A e \in batch : e.mon = m =>
         /\ m \in sending
         /\ e.sample = fs[m][reading[m]].lines[fs[m][reading[m]].last_idx + 1]

NothingTaken ==
    /\ server = {} /\ batch = {}
    /\ \A m \in Mon : \A n \in DOMAIN fs[m] : fs[m][n].lines = <<>>

OrderOK ==
    /\ crashes = 0 /\ write_timer \in [Mon -> Int]
    /\ pc \in Booting => NothingTaken
    /\ pc = "append" => now < write_timer[mon]
    /\ Heads => Current.lines = <<>>
    /\ pc \notin Booting => \A m \in Mon : Ordered(m)

OrderInv == LogInv /\ NamesInv /\ OrderOK

-----------------------------------------------------------------------------
\* What keeps a monitor's entries in order.

\* The files of the reader and the writer are there.
LEMMA FilesFound ==
    ASSUME OrderInv, pc \notin Booting, NEW m \in Mon
    PROVE  /\ Ordered(m)
           /\ reading[m] \in DOMAIN fs[m]
           /\ ~ RollsOver(m) => writing[m] \in DOMAIN fs[m]
           /\ write_timer[m] \in Int /\ now \in Int /\ NextTime(m) \in Int
<1>1. Ordered(m)
  BY DEF OrderInv, OrderOK
<1>2. NamesFound(m)
  BY DEF OrderInv, NamesInv
<1>3. write_timer[m] \in Int /\ now \in Int
  BY DEF OrderInv, OrderOK, LogInv, LogTypes
<1>4. NextTime(m) \in Int
  BY <1>3 DEF NextTime
<1> QED  BY <1>1, <1>2, <1>3, <1>4 DEF NamesFound, HasLog, HasReader, RollsOver

\* A file of the card.
LEMMA FileHas ==
    ASSUME OrderInv, NEW m \in Mon, NEW n \in DOMAIN fs[m]
    PROVE  /\ fs[m][n] \in File /\ fs[m][n].lines \in Seq(Int)
           /\ Len(fs[m][n].lines) \in Nat
           /\ fs[m][n].last_idx \in Nat /\ fs[m][n].count \in Nat
<1>1. fs[m][n] \in File
  BY DEF OrderInv, LogInv, LogTypes
<1> DEFINE f == fs[m][n]
<1> HIDE DEF f
<1>2. f \in File => /\ f.lines \in Seq(Int) /\ Len(f.lines) \in Nat
                    /\ f.last_idx \in Nat /\ f.count \in Nat
  BY DEF File
<1> QED  BY <1>1, <1>2 DEF f

LEMMA BelowLater ==
    ASSUME NEW l \in Seq(Int), NEW s \in Int, NEW t \in Int, s <= t, Below(l, s)
    PROVE  Below(l, t)
<1>1. ASSUME NEW i \in 1 .. Len(l) PROVE l[i] < t
  <2>1. l[i] \in Int /\ l[i] < s
    BY DEF Below
  <2> QED  BY <2>1
<1> QED  BY <1>1 DEF Below

\* The same entries on the card, and as many of them sent.
SameEntries(d, e) ==
    /\ DOMAIN e = DOMAIN d
    /\ \A n \in DOMAIN d : e[n].lines = d[n].lines /\ e[n].last_idx = d[n].last_idx

\* The same entries in the files, whatever these are called.
SameLog(m) ==
    /\ \A x \in DOMAIN fs'[m] : \E y \in DOMAIN fs[m] : fs'[m][x].lines = fs[m][y].lines
    /\ fs'[m][reading'[m]].lines = fs[m][reading[m]].lines
    /\ fs'[m][reading'[m]].last_idx = fs[m][reading[m]].last_idx
    /\ ~ RollsOver(m)' =>
         /\ ~ RollsOver(m)
         /\ fs'[m][writing'[m]].lines = fs[m][writing[m]].lines
         /\ reading'[m] # writing'[m] => reading[m] # writing[m]

LEMMA EntriesKept ==
    ASSUME OrderInv, pc \notin Booting, NEW m \in Mon, SameEntries(fs[m], fs'[m]),
           reading'[m] = reading[m], writing'[m] = writing[m] \/ RollsOver(m)',
           RollsOver(m) => RollsOver(m)'
    PROVE  SameLog(m)
<1>1. reading[m] \in DOMAIN fs[m] /\ (~ RollsOver(m) => writing[m] \in DOMAIN fs[m])
  BY FilesFound
<1>2. /\ DOMAIN fs'[m] = DOMAIN fs[m]
      /\ \A n \in DOMAIN fs[m] : /\ fs'[m][n].lines = fs[m][n].lines
                                 /\ fs'[m][n].last_idx = fs[m][n].last_idx
  BY DEF SameEntries
<1> QED  BY <1>1, <1>2 DEF SameLog

\* Nothing is taken, and nothing is sent.
LEMMA OrderKept ==
    ASSUME OrderInv, pc \notin Booting, NEW m \in Mon, SameLog(m),
           AtServer(m)' = AtServer(m), batch' \subseteq batch,
           m \in sending <=> m \in sending',
           m \in sending /\ Delivered => Delivered',
           NextTime(m)' \in Int, NextTime(m) <= NextTime(m)'
    PROVE  Ordered(m)'
<1> DEFINE h == fs[m][reading[m]]
           k == fs'[m][reading'[m]]
           v == fs[m][writing[m]]
           w == fs'[m][writing'[m]]
           S == AtServer(m)
           s == NextTime(m)
           t == NextTime(m)'
<1>1. Ordered(m) /\ s \in Int
  BY FilesFound
<1>2. S \subseteq Int /\ \A x \in S : x < t
  <2>1. S \subseteq Int /\ \A x \in S : x < s
    BY <1>1 DEF Ordered
  <2>2. s \in Int /\ t \in Int /\ s <= t
    BY <1>1
  <2> HIDE DEF S, s, t
  <2> QED  BY <2>1, <2>2
<1>3. ASSUME NEW x \in DOMAIN fs'[m]
      PROVE  Rising(fs'[m][x].lines) /\ Below(fs'[m][x].lines, t)
  <2>1. PICK y \in DOMAIN fs[m] : fs'[m][x].lines = fs[m][y].lines
    BY DEF SameLog
  <2>2. Rising(fs[m][y].lines) /\ Below(fs[m][y].lines, s)
    BY <1>1 DEF Ordered
  <2>3. fs[m][y].lines \in Seq(Int)
    BY FileHas
  <2>4. Below(fs[m][y].lines, t)
    BY <1>1, <2>2, <2>3, BelowLater
  <2> QED  BY <2>1, <2>2, <2>4
<1>4. k.lines = h.lines /\ k.last_idx = h.last_idx
  BY DEF SameLog
<1>5. Unsent(S, k, m \in sending' /\ Delivered')
  <2>1. Unsent(S, h, m \in sending /\ Delivered)
    BY <1>1 DEF Ordered
  <2> HIDE DEF h, k, S
  <2> QED  BY <1>4, <2>1 DEF Unsent
<1>6. reading'[m] # writing'[m] /\ ~ RollsOver(m)' => Apart(k.lines, w.lines) /\ Later(S, w.lines)
  <2>1. ASSUME reading'[m] # writing'[m], ~ RollsOver(m)'
        PROVE  Apart(k.lines, w.lines) /\ Later(S, w.lines)
    <3>1. reading[m] # writing[m] /\ ~ RollsOver(m) /\ w.lines = v.lines
      BY <2>1 DEF SameLog
    <3>2. Apart(h.lines, v.lines) /\ Later(S, v.lines)
      BY <1>1, <3>1 DEF Ordered
    <3> QED  BY <1>4, <3>1, <3>2
  <2> QED  BY <2>1
<1>7. \A e \in batch' : e.mon = m => m \in sending' /\ e.sample = k.lines[k.last_idx + 1]
  BY <1>1, <1>4 DEF Ordered
<1> HIDE DEF S, t, k, w
<1>8. S = AtServer(m)'
  BY DEF S
<1>9. /\ AtServer(m)' \subseteq Int
      /\ \A x \in AtServer(m)' : x < NextTime(m)'
      /\ \A n \in DOMAIN fs'[m] : Rising(fs'[m][n].lines) /\ Below(fs'[m][n].lines, NextTime(m)')
      /\ Unsent(AtServer(m)', k, m \in sending' /\ Delivered')
      /\ reading'[m] # writing'[m] /\ ~ RollsOver(m)' =>
           Apart(k.lines, w.lines) /\ Later(AtServer(m)', w.lines)
  BY <1>2, <1>3, <1>5, <1>6, <1>8 DEF t
<1> QED  BY <1>7, <1>9 DEF Ordered, k, w

\* The other monitors, in a step for one.
LEMMA OthersOrdered ==
    ASSUME OrderInv, pc \notin Booting, NEW m \in Mon, m # mon, mon' = mon,
           fs'[m] = fs[m], reading'[m] = reading[m], writing'[m] = writing[m],
           UNCHANGED <<server, batch, sending, write_timer>>,
           pc # "confirm", pc' \in InReader => pc \in InReader
    PROVE  Ordered(m)'
<1>1. NextTime(m)' = NextTime(m) /\ NextTime(m) \in Int /\ ~ RollsOver(m)
  BY FilesFound DEF NextTime, RollsOver
<1>2. Delivered => Delivered'
  <2>1. Received' = Received
    BY DEF Received, time_start
  <2> QED  BY <2>1 DEF Delivered
<1>3. AtServer(m)' = AtServer(m) /\ SameEntries(fs[m], fs'[m])
  BY DEF AtServer, SameEntries
<1>4. NextTime(m) <= NextTime(m)'
  <2> DEFINE s == NextTime(m)
  <2> HIDE DEF s
  <2>1. s \in Int => s <= s
    OBVIOUS
  <2> QED  BY <1>1, <2>1 DEF s
<1>5. SameLog(m)
  BY <1>1, <1>3, EntriesKept
<1> QED  BY <1>1, <1>2, <1>3, <1>4, <1>5, OrderKept

\* Steps of a pass that take no entry and send none.
LEMMA CalmOrder ==
    ASSUME OrderInv, pc \notin Booting, pc \notin {"append", "roll"},
           pc' \notin Booting, pc' \notin {"append", "roll"}, ~ Heads',
           \A m \in Mon : SameEntries(fs[m], fs'[m]),
           UNCHANGED <<writing, reading, server, batch, sending, write_timer, crashes>>,
           sending = {} \/ (pc = "confirm" => pc' = "confirm"),
           sending = {} \/ (pc' \in InReader => pc \in InReader)
    PROVE  OrderOK'
<1>1. ASSUME NEW m \in Mon PROVE Ordered(m)'
  <2>1. NextTime(m)' = NextTime(m) /\ NextTime(m) \in Int /\ ~ RollsOver(m)
    BY FilesFound DEF NextTime, RollsOver
  <2>2. sending = {} \/ (Delivered => Delivered')
    <3>1. Received' = Received
      BY DEF Received, time_start
    <3> QED  BY <3>1 DEF Delivered
  <2>3. AtServer(m)' = AtServer(m)
    BY DEF AtServer
  <2>4. NextTime(m)' \in Int /\ NextTime(m) <= NextTime(m)'
    <3> DEFINE s == NextTime(m)
    <3> HIDE DEF s
    <3>1. s \in Int => s <= s
      OBVIOUS
    <3> QED  BY <2>1, <3>1 DEF s
  <2>5. SameLog(m)
    BY <2>1, EntriesKept
  <2> QED  BY <2>1, <2>2, <2>3, <2>4, <2>5, OrderKept
<1> QED  BY <1>1 DEF OrderInv, OrderOK

LEMMA SameCard == ASSUME UNCHANGED fs PROVE \A m \in Mon : SameEntries(fs[m], fs'[m])
BY DEF SameEntries

\* Steps that change no file's lines: the clock, the names' record, the passes.
Idling ==
    \/ Tick \/ SyncUnread \/ SyncFails \/ RenameFails \/ StartRead \/ SwitchDone
    \/ ReadNothing \/ EndRead \/ Retry \/ ConfirmDone
    \/ OpenMeta("sync open", "sync write") \/ WriteMeta("sync write", "idle")
    \/ OpenMeta("switch open", "switch write") \/ WriteMeta("switch write", "switched")

LEMMA IdlingOrder ==
    ASSUME OrderInv, Idling
    PROVE  OrderOK'
<1>1. /\ UNCHANGED <<fs, writing, reading, server, batch, sending, write_timer, crashes>>
  BY Zenon DEF Idling, Tick, SyncUnread, SyncFails, Request, Busy, RenameFails, StartRead, ReadersTurn, NextRead, SwitchDone, ReadNothing,
     EndRead, Retry, ConfirmDone, OpenMeta, WriteMeta, disk, names, upload, env
<1>2. /\ pc \in {"idle", "sync", "rename", "switched", "read", "confirm", "sync open",
                 "sync write", "switch open", "switch write"}
      /\ pc' \in {"idle", "rename", "read", "send", "sync write", "switch write", "switched"}
      /\ pc = "confirm" => sending = {}
      /\ pc' \in InReader => pc \in InReader \/ batch = {}
  BY Zenon DEF Idling, Tick, SyncUnread, SyncFails, Request, Busy, RenameFails, StartRead, ReadersTurn, NextRead, SwitchDone, ReadNothing, Reading,
     EndRead, Retry, ConfirmDone, OpenMeta, WriteMeta, Goto, InReader, monitor_sending
<1>3. pc \notin Booting /\ pc \notin {"append", "roll"}
  BY <1>2, Zenon DEF Booting
<1>4. pc' \notin Booting /\ pc' \notin {"append", "roll"} /\ ~ Heads'
  BY <1>2, Zenon DEF Booting, Heads
<1>5. sending = {} \/ (pc = "confirm" => pc' = "confirm")
  BY <1>2
<1>6. sending = {} \/ (pc' \in InReader => pc \in InReader)
  <2>1. pc' \in InReader /\ pc \notin InReader => (batch = {} /\ pc # "confirm") \/ sending = {}
    BY <1>2, Zenon
  <2> QED  BY <2>1 DEF OrderInv, LogInv, Uploading
<1> QED  BY <1>1, <1>3, <1>4, <1>5, <1>6, SameCard, CalmOrder

\* Starting: there are no entries.
LEMMA BootOrder ==
    ASSUME OrderInv, Boot, NamesInv', LogInv'
    PROVE  OrderOK'
<1>1. /\ pc \in Booting /\ pc' \in Booting \cup {"idle"}
      /\ UNCHANGED <<server, batch, crashes>>
      /\ pc' = "idle" => BootNext
  BY Zenon DEF Boot, BootLog, BootRead, BootNext, NewHeader, OpenMeta, WriteMeta, Goto, Booting,
     upload, env
<1>2. mon \in Mon /\ NothingTaken
  <2>1. pc \notin {"read", "confirm", "send", "idle"}
    BY <1>1, Zenon DEF Booting
  <2> QED  BY <1>1, <2>1 DEF OrderInv, LogInv, Place, OrderOK
<1>3. NothingTaken'
  <2>1. CASE UNCHANGED fs
    BY <1>1, <1>2, <2>1 DEF NothingTaken
  <2>2. ASSUME NEW n, NEW f \in File, Store(n, f), f.lines = <<>>
        PROVE  NothingTaken'
    <3>1. /\ DOMAIN fs'[mon] = DOMAIN fs[mon] \cup {n}
          /\ fs'[mon][n] = f
          /\ \A x \in DOMAIN fs[mon] \ {n} : fs'[mon][x] = fs[mon][x]
          /\ \A m \in Mon \ {mon} : fs'[m] = fs[m]
      BY <1>2, <2>2, StoreWrites DEF OrderInv, LogInv
    <3> QED  BY <1>1, <1>2, <2>2, <3>1 DEF NothingTaken
  <2>3. CASE BootLog /\ ~ UNCHANGED fs
    <3>1. Store(LOG_FILENAME_START, Empty)
      BY <2>3 DEF BootLog
    <3>2. Empty.lines = <<>>
      BY DEF Empty
    <3> QED  BY <2>2, <3>1, <3>2, EmptyFile
  <2>4. CASE NewHeader("boot header", "meta")
    <3> DEFINE f == [Empty EXCEPT !.ok = TRUE, !.lines = Current.lines]
    <3>1. pc = "boot header" /\ Store(writing[mon], f)
      BY <2>4 DEF NewHeader
    <3>2. writing[mon] \in DOMAIN fs[mon]
      BY <3>1 DEF OrderInv, LogInv, Place, FileWritten
    <3>3. Current.lines = <<>> /\ Current.lines \in Seq(Int)
      BY <1>2, <3>2, FileHas DEF NothingTaken, Current
    <3>4. f \in File
      BY <3>3, HeaderOf
    <3>5. f.lines = <<>>
      BY <3>3 DEF Empty
    <3> HIDE DEF f
    <3> QED  BY <2>2, <3>1, <3>4, <3>5
  <2>5. CASE BootRead \/ BootNext \/ OpenMeta("boot open", "boot write") \/ WriteMeta("boot write", "booted")
    <3>1. UNCHANGED fs
      BY <2>5, Zenon DEF BootRead, BootNext, OpenMeta, WriteMeta, disk
    <3> QED  BY <2>1, <3>1
  <2> QED  BY <2>1, <2>3, <2>4, <2>5 DEF Boot
<1>4. crashes' = 0 /\ write_timer' \in [Mon -> Int]
  <2>1. \/ UNCHANGED write_timer
        \/ write_timer' = [m \in Mon |-> now + time_interv[m]]
    BY Zenon DEF Boot, BootLog, BootRead, BootNext, NewHeader, OpenMeta, WriteMeta, env
  <2>2. \A m \in Mon : now + time_interv[m] \in Int
    BY MonitorAssumption DEF OrderInv, LogInv, LogTypes
  <2> QED  BY <1>1, <2>1, <2>2 DEF OrderInv, OrderOK
<1>5. ASSUME pc' = "idle", NEW m \in Mon PROVE Ordered(m)'
  <2>1. reading'[m] \in DOMAIN fs'[m] /\ writing'[m] \in DOMAIN fs'[m]
    BY <1>5 DEF NamesInv, NamesFound, HasLog, HasReader, Booting
  <2>2. AtServer(m)' = {} /\ batch' = {}
    BY <1>3 DEF AtServer, NothingTaken
  <2>3. \A n \in DOMAIN fs'[m] : fs'[m][n].lines = <<>>
    BY <1>3 DEF NothingTaken
  <2>4. \A n \in DOMAIN fs'[m] : Len(fs'[m][n].lines) = 0
    BY <2>3
  <2>5. \A t : \A n \in DOMAIN fs'[m] : Rising(fs'[m][n].lines) /\ Below(fs'[m][n].lines, t)
    BY <2>4 DEF Rising, Below
  <2>6. Unsent(AtServer(m)', fs'[m][reading'[m]], m \in sending' /\ Delivered')
    BY <2>2 DEF Unsent
  <2>7. /\ Apart(fs'[m][reading'[m]].lines, fs'[m][writing'[m]].lines)
        /\ Later(AtServer(m)', fs'[m][writing'[m]].lines)
    BY <2>1, <2>2, <2>4 DEF Apart, Later
  <2> QED  BY <2>2, <2>5, <2>6, <2>7 DEF Ordered
<1>6. pc' # "append" /\ ~ Heads'
  BY <1>1, Zenon DEF Booting, Heads
<1> QED  BY <1>1, <1>3, <1>4, <1>5, <1>6 DEF OrderOK

-----------------------------------------------------------------------------
\* Order in the writer.

LEMMA TimerLater ==
    ASSUME OrderInv, Advancing, pc = "idle", NEW m \in Mon, m \in Due, timer_set(m)
    PROVE  /\ write_timer' \in [Mon -> Int]
           /\ now < write_timer'[m] /\ write_timer[m] <= now
           /\ \A k \in Mon \ {m} : write_timer'[k] = write_timer[k]
<1> DEFINE r == Remaining(m)
<1>1. now \in Int /\ write_timer \in [Mon -> Int] /\ write_timer[m] \in Int
  BY DEF OrderInv, OrderOK, LogInv, LogTypes
<1>2. r \in Int
  <2>1. time_interv[m] \in Nat /\ LateRange \in Nat \ {0}
    BY MonitorAssumption
  <2>2. timer_elapsed(m) \in Int
    <3> DEFINE d == now - write_timer[m]
    <3>1. d \in Int
      BY <1>1
    <3> HIDE DEF d
    <3>2. d % LateRange \in Int
      BY <2>1, <3>1
    <3> QED  BY <3>2 DEF timer_elapsed, d
  <2>3. time_interv[m] \div 10 \in Int
    <3> DEFINE p == time_interv[m]
    <3>1. p \in Nat
      BY <2>1
    <3> HIDE DEF p
    <3>2. p \div 10 \in Int
      BY <3>1
    <3> QED  BY <3>2 DEF p
  <2> QED  BY <2>1, <2>2, <2>3 DEF Remaining
<1>3. r > 0 /\ now >= write_timer[m]
  BY DEF Advancing, Due
<1>4. write_timer' = [write_timer EXCEPT ![m] = now + r]
  BY DEF timer_set
<1> HIDE DEF r
<1>5. now + r \in Int /\ now < now + r
  BY <1>1, <1>2, <1>3
<1>6. write_timer'[m] = now + r /\ write_timer' \in [Mon -> Int]
      /\ \A k \in Mon \ {m} : write_timer'[k] = write_timer[k]
  BY <1>1, <1>4, <1>5
<1>7. write_timer[m] <= now
  BY <1>1, <1>3
<1> QED  BY <1>5, <1>6, <1>7

\* A timer is set, whether the entry is refused or about to be written.
LEMMA SampleOrder ==
    ASSUME ~ CardErrors, OrderInv, Advancing, NEW m \in Mon, Sample(m) \/ SampleLost(m)
    PROVE  OrderOK'
<1>1. /\ pc = "idle" /\ m \in Due /\ timer_set(m)
      /\ \/ pc' = "append" /\ mon' = m
         \/ pc' = "idle" /\ mon' = m
      /\ UNCHANGED <<fs, writing, reading, batch, sending, server, now, crashes>>
  BY DEF Sample, SampleLost, Turn, disk, names, upload
<1>2. pc \notin Booting /\ pc' \notin Booting /\ ~ Heads'
  BY <1>1, Zenon DEF Booting, Heads
<1>3. /\ write_timer' \in [Mon -> Int]
      /\ now < write_timer'[m] /\ write_timer[m] <= now
      /\ \A k \in Mon \ {m} : write_timer'[k] = write_timer[k]
  BY <1>1, TimerLater
<1>4. ASSUME NEW k \in Mon PROVE Ordered(k)'
  <2>1. write_timer[k] \in Int /\ write_timer'[k] \in Int /\ write_timer'[m] \in Int /\ now \in Int
    BY <1>2, <1>3, FilesFound
  <2>2. NextTime(k) = write_timer[k] /\ ~ RollsOver(k)
    BY <1>1 DEF NextTime, RollsOver
  <2>3. NextTime(k)' \in Int /\ NextTime(k) <= NextTime(k)'
    <3>1. CASE k = m
      <4>1. NextTime(k)' = now \/ NextTime(k)' = write_timer'[m]
        BY <1>1, <3>1 DEF NextTime
      <4>2. NextTime(k) = write_timer[m] /\ write_timer[m] \in Int
        BY <2>1, <2>2, <3>1
      <4> QED  BY <1>3, <2>1, <4>1, <4>2
    <3>2. CASE k # m
      <4>1. NextTime(k)' = write_timer[k]
        BY <1>1, <1>3, <3>2 DEF NextTime
      <4> QED  BY <2>1, <2>2, <4>1
    <3> QED  BY <3>1, <3>2
  <2>4. Delivered => Delivered'
    <3>1. Received' = Received
      BY <1>1 DEF Received, time_start
    <3>2. pc # "confirm" /\ pc' \notin InReader
      BY <1>1, Zenon DEF InReader
    <3> QED  BY <1>1, <3>1, <3>2 DEF Delivered
  <2>5. AtServer(k)' = AtServer(k) /\ SameEntries(fs[k], fs'[k])
    BY <1>1 DEF AtServer, SameEntries
  <2>6. SameLog(k)
    BY <1>1, <1>2, <2>2, <2>5, EntriesKept
  <2> QED  BY <1>1, <1>2, <2>3, <2>4, <2>5, <2>6, OrderKept
<1>5. pc' = "append" => now' < write_timer'[mon']
  BY <1>1, <1>3
<1>6. crashes' = 0
  BY <1>1 DEF OrderInv, OrderOK
<1> QED  BY <1>2, <1>3, <1>4, <1>5, <1>6 DEF OrderOK

\* A file with one entry more.
LEMMA Appended ==
    ASSUME NEW l \in Seq(Int), NEW s \in Int, NEW t \in Int, s < t, Rising(l), Below(l, s),
           NEW a, a = Append(l, s)
    PROVE  /\ Rising(a) /\ Below(a, t)
           /\ \A i \in 1 .. Len(a) : \/ i \in 1 .. Len(l) /\ a[i] = l[i]
                                     \/ i = Len(l) + 1 /\ a[i] = s
           /\ Len(a) \in Nat
<1>1. /\ Len(l) \in Nat /\ Len(a) = Len(l) + 1 /\ Len(a) \in Nat
      /\ \A i \in 1 .. Len(l) : l[i] \in Int /\ a[i] = l[i]
      /\ a[Len(l) + 1] = s
  OBVIOUS
<1>2. ASSUME NEW i \in 1 .. Len(a)
      PROVE  \/ i \in 1 .. Len(l) /\ a[i] = l[i]
             \/ i = Len(l) + 1 /\ a[i] = s
  BY <1>1
<1>3. ASSUME NEW i \in 1 .. Len(a) PROVE a[i] < t
  <2>1. CASE i \in 1 .. Len(l) /\ a[i] = l[i]
    <3>1. a[i] \in Int /\ a[i] < s
      BY <1>1, <2>1 DEF Below
    <3> QED  BY <3>1
  <2> QED  BY <1>2, <2>1
<1>4. ASSUME NEW i \in 1 .. Len(a), NEW j \in 1 .. Len(a), i < j PROVE a[i] < a[j]
  <2>1. i \in 1 .. Len(l) /\ a[i] = l[i]
    BY <1>1, <1>2, <1>4
  <2>2. CASE j \in 1 .. Len(l) /\ a[j] = l[j]
    BY <1>4, <2>1, <2>2 DEF Rising
  <2>3. CASE a[j] = s
    BY <2>1, <2>3 DEF Below
  <2> QED  BY <1>2, <2>2, <2>3
<1> QED  BY <1>1, <1>2, <1>3, <1>4 DEF Rising, Below

\* The entry being written is the latest of all.
LEMMA AppendOrder ==
    ASSUME OrderInv, AppendLine
    PROVE  OrderOK'
<1> DEFINE n == writing[mon]
           g == fs[mon][n]
           f == [g EXCEPT !.lines = Append(@, now)]
           S == AtServer(mon)
           w == write_timer[mon]
           r == reading[mon]
<1>1. /\ pc = "append" /\ pc' = "count" /\ mon' = mon /\ Store(n, f)
      /\ UNCHANGED <<writing, reading, batch, sending, server, now, write_timer, crashes>>
  BY DEF AppendLine, Goto, Current, names, upload, env
<1>2. /\ mon \in Mon /\ n \in DOMAIN fs[mon]
      /\ pc \notin Booting /\ pc' \notin Booting /\ ~ Heads'
  BY <1>1 DEF OrderInv, LogInv, Place, FileWritten, Booting, Heads
<1>3. /\ g \in File /\ g.lines \in Seq(Int) /\ Len(g.lines) \in Nat /\ g.last_idx \in Nat
  BY <1>2, FileHas
<1>4. Ordered(mon) /\ r \in DOMAIN fs[mon] /\ w \in Int /\ now \in Int /\ now < w
  BY <1>1, <1>2, FilesFound DEF OrderInv, OrderOK
<1>5. f \in File /\ f.lines = Append(g.lines, now) /\ f.last_idx = g.last_idx
  <2>1. now \in Int /\ g \in File /\ Append(g.lines, now) \in Seq(Int)
    BY <1>3, <1>4
  <2> HIDE DEF g
  <2> QED  BY <2>1 DEF File
<1> HIDE DEF f
<1>6. /\ DOMAIN fs'[mon] = DOMAIN fs[mon]
      /\ fs'[mon][n] = f
      /\ \A x \in DOMAIN fs[mon] \ {n} : fs'[mon][x] = fs[mon][x]
      /\ \A m \in Mon \ {mon} : fs'[m] = fs[m]
  <2>1. /\ DOMAIN fs'[mon] = DOMAIN fs[mon] \cup {n}
        /\ fs'[mon][n] = f
        /\ \A x \in DOMAIN fs[mon] \ {n} : fs'[mon][x] = fs[mon][x]
        /\ \A m \in Mon \ {mon} : fs'[m] = fs[m]
    BY <1>1, <1>2, <1>5, StoreWrites DEF OrderInv, LogInv
  <2> QED  BY <1>2, <2>1
<1>7. NextTime(mon) = now /\ ~ RollsOver(mon)
  BY <1>1 DEF NextTime, RollsOver
<1>8. /\ S \subseteq Int /\ \A x \in S : x < now
      /\ \A k \in DOMAIN fs[mon] : Rising(fs[mon][k].lines) /\ Below(fs[mon][k].lines, now)
  BY <1>4, <1>7 DEF Ordered
<1>9. /\ Rising(f.lines) /\ Below(f.lines, w)
      /\ \A i \in 1 .. Len(f.lines) : \/ i \in 1 .. Len(g.lines) /\ f.lines[i] = g.lines[i]
                                      \/ i = Len(g.lines) + 1 /\ f.lines[i] = now
      /\ Len(f.lines) \in Nat
  <2>1. Rising(g.lines) /\ Below(g.lines, now)
    BY <1>2, <1>8
  <2> HIDE DEF g, w
  <2> QED  BY <1>3, <1>4, <1>5, <2>1, Appended
<1>10. Delivered' <=> Delivered
  <2>1. Received' = Received
    BY <1>1 DEF Received, time_start
  <2>2. pc # "confirm" /\ pc' # "confirm" /\ pc \notin InReader /\ pc' \notin InReader
    BY <1>1, Zenon DEF InReader
  <2> QED  BY <1>1, <2>1, <2>2 DEF Delivered
<1>11. ASSUME NEW m \in Mon, m = mon PROVE Ordered(m)'
  <2>1. NextTime(m)' = w /\ AtServer(m)' = S
    BY <1>1, <1>11 DEF NextTime, AtServer
  <2>2. S \subseteq Int /\ \A x \in S : x < w
    <3>1. S \subseteq Int /\ (\A x \in S : x < now) /\ now \in Int /\ w \in Int /\ now < w
      BY <1>4, <1>8
    <3> HIDE DEF S, w
    <3> QED  BY <3>1
  <2>3. ASSUME NEW k \in DOMAIN fs'[m]
        PROVE  Rising(fs'[m][k].lines) /\ Below(fs'[m][k].lines, w)
    <3>1. CASE k = n
      BY <1>6, <1>9, <1>11, <3>1
    <3>2. CASE k # n
      <4>1. k \in DOMAIN fs[m] /\ fs'[m][k] = fs[m][k]
        BY <1>6, <1>11, <3>2
      <4>2. fs[m][k].lines \in Seq(Int)
        BY <4>1, FileHas
      <4>3. now \in Int /\ w \in Int /\ now <= w
        BY <1>4
      <4> HIDE DEF w
      <4>4. Rising(fs[m][k].lines) /\ Below(fs[m][k].lines, now)
        BY <1>8, <1>11, <4>1
      <4> QED  BY <4>1, <4>2, <4>3, <4>4, BelowLater
    <3> QED  BY <3>1, <3>2
  <2>4. Later(S, f.lines) \/ r = n
    <3>1. r # n => Later(S, g.lines)
      BY <1>4, <1>7 DEF Ordered
    <3>2. \A x \in S : x < now
      BY <1>8
    <3> HIDE DEF S, g
    <3> QED  BY <1>9, <3>1, <3>2 DEF Later
  <2>5. Apart(fs[m][r].lines, f.lines) \/ r = n
    <3>1. r # n => Apart(fs[m][r].lines, g.lines)
      BY <1>4, <1>7, <1>11 DEF Ordered
    <3>2. Below(fs[m][r].lines, now)
      BY <1>4, <1>8, <1>11
    <3> HIDE DEF g, r
    <3> QED  BY <1>9, <3>1, <3>2 DEF Apart, Below
  <2>6. Unsent(S, fs'[m][r], m \in sending' /\ Delivered')
    <3>1. Unsent(S, fs[m][r], m \in sending /\ Delivered)
      BY <1>4, <1>11 DEF Ordered
    <3>2. CASE r # n
      BY <1>1, <1>4, <1>6, <1>10, <1>11, <3>1, <3>2
    <3>3. CASE r = n
      <4>1. Unsent(S, g, m \in sending /\ Delivered) /\ fs'[m][r] = f
        BY <1>6, <1>11, <3>1, <3>3
      <4>2. \A x \in S : x < now
        BY <1>8
      <4>3. ASSUME NEW x \in S, NEW i \in f.last_idx + 1 .. Len(f.lines)
            PROVE  x < f.lines[i] \/ (m \in sending /\ Delivered /\ i = f.last_idx + 1 /\ x = f.lines[i])
        <5>1. g.last_idx \in Nat /\ Len(g.lines) \in Nat /\ f.last_idx = g.last_idx
          BY <1>3, <1>5
        <5> HIDE DEF S, g
        <5>2. i \in 1 .. Len(f.lines) /\ i \in Int /\ g.last_idx + 1 <= i
          BY <1>9, <5>1
        <5>3. CASE i \in 1 .. Len(g.lines) /\ f.lines[i] = g.lines[i]
          <6>1. i \in g.last_idx + 1 .. Len(g.lines)
            BY <5>1, <5>2, <5>3
          <6> QED  BY <4>1, <5>1, <5>3, <6>1 DEF Unsent
        <5>4. CASE f.lines[i] = now
          BY <4>2, <5>4
        <5> QED  BY <1>9, <5>2, <5>3, <5>4
      <4> QED  BY <1>1, <1>10, <4>1, <4>3 DEF Unsent
    <3> QED  BY <3>2, <3>3
  <2>7. ASSUME NEW e \in batch', e.mon = m
        PROVE  m \in sending' /\ e.sample = fs'[m][r].lines[fs'[m][r].last_idx + 1]
    <3>1. m \in sending /\ e.sample = fs[m][r].lines[fs[m][r].last_idx + 1]
      BY <1>1, <1>4, <1>11, <2>7 DEF Ordered
    <3>2. CASE r # n
      BY <1>1, <1>4, <1>6, <1>11, <3>1, <3>2
    <3>3. CASE r = n
      <4>1. NextToSend(m) /\ IndexesInFile
        BY <3>1 DEF OrderInv, LogInv
      <4>2. g.last_idx < g.count /\ g.count <= Len(g.lines) /\ g.count \in Nat
        BY <1>2, <1>11, <3>3, <4>1, FileHas DEF NextToSend, IndexesInFile, Files
      <4>3. f.lines[g.last_idx + 1] = g.lines[g.last_idx + 1]
        <5> DEFINE i == g.last_idx + 1
        <5>1. g.last_idx \in Nat /\ Len(g.lines) \in Nat
          BY <1>3
        <5>2. f.lines = Append(g.lines, now) /\ g.lines \in Seq(Int)
          BY <1>3, <1>5
        <5> HIDE DEF g
        <5>3. g.last_idx + 1 \in 1 .. Len(g.lines)
          BY <4>2, <5>1
        <5> QED  BY <5>2, <5>3
      <4> QED  BY <1>1, <1>5, <1>6, <1>11, <3>1, <3>3, <4>3
    <3> QED  BY <3>2, <3>3
  <2>8. reading'[m] = r /\ writing'[m] = n /\ (r # n => fs'[m][r] = fs[m][r]) /\ fs'[m][n] = f
    BY <1>1, <1>4, <1>6, <1>11
  <2> HIDE DEF S, w, r, n, g
  <2> QED  BY <2>1, <2>2, <2>3, <2>4, <2>5, <2>6, <2>7, <2>8 DEF Ordered
<1>12. ASSUME NEW m \in Mon, m # mon PROVE Ordered(m)'
  <2>1. pc # "confirm" /\ pc' \notin InReader
    BY <1>1, Zenon DEF InReader
  <2> QED  BY <1>1, <1>2, <1>6, <1>12, <2>1, OthersOrdered
<1> QED  BY <1>1, <1>2, <1>11, <1>12 DEF OrderInv, OrderOK

\* The file being written is written with the lines it has.
LEMMA LinesStay ==
    ASSUME OrderInv, mon \in Mon, writing[mon] \in DOMAIN fs[mon], NEW f \in File,
           Store(writing[mon], f),
           f.lines = Current.lines, f.last_idx = Current.last_idx
    PROVE  \A m \in Mon : SameEntries(fs[m], fs'[m])
<1>1. /\ DOMAIN fs'[mon] = DOMAIN fs[mon]
      /\ fs'[mon][writing[mon]] = f
      /\ \A x \in DOMAIN fs[mon] \ {writing[mon]} : fs'[mon][x] = fs[mon][x]
      /\ \A m \in Mon \ {mon} : fs'[m] = fs[m]
  <2>1. /\ DOMAIN fs'[mon] = DOMAIN fs[mon] \cup {writing[mon]}
        /\ fs'[mon][writing[mon]] = f
        /\ \A x \in DOMAIN fs[mon] \ {writing[mon]} : fs'[mon][x] = fs[mon][x]
        /\ \A m \in Mon \ {mon} : fs'[m] = fs[m]
    BY StoreWrites DEF OrderInv, LogInv
  <2> QED  BY <2>1
<1> QED  BY <1>1 DEF SameEntries, Current

LEMMA DateStays ==
    ASSUME OrderInv, mon \in Mon, writing[mon] \in DOMAIN fs[mon], NEW t \in Int
    PROVE  LET f == [Current EXCEPT !.start = t, !.synched = TRUE] IN
           f \in File /\ f.lines = Current.lines /\ f.last_idx = Current.last_idx
<1> DEFINE e == Current
           g == [e EXCEPT !.start = t]
           f == [g EXCEPT !.synched = TRUE]
<1>1. e \in File
  BY FileHas DEF Current
<1> HIDE DEF e
<1>2. g \in File /\ g.last_idx = e.last_idx /\ g.lines = e.lines
  BY <1>1 DEF File
<1> HIDE DEF g
<1>3. f \in File /\ f.last_idx = g.last_idx /\ f.lines = g.lines
  BY <1>2 DEF File
<1> HIDE DEF f
<1>4. f = [Current EXCEPT !.start = t, !.synched = TRUE]
  BY Zenon DEF e, f, g
<1> QED  BY <1>2, <1>3, <1>4 DEF e

\* A file is dated.
LEMMA DateOrder ==
    ASSUME ~ CardErrors, OrderInv, RollStamp \/ SyncStamp, LogInv'
    PROVE  OrderOK'
<1>1. /\ pc \in {"roll stamp", "sync"} /\ pc' \in {"idle", "rename"}
      /\ UNCHANGED <<writing, reading, batch, sending, server, write_timer, crashes>>
      /\ \/ Store(writing[mon], [Current EXCEPT !.start = clock, !.synched = TRUE])
         \/ Store(writing[mon], [Current EXCEPT !.start = now' - TimeElapsed, !.synched = TRUE])
  BY Zenon DEF RollStamp, SyncStamp, StoreHeader, Goto, names, upload, env, Busy
<1>2. mon \in Mon /\ writing[mon] \in DOMAIN fs[mon]
  BY <1>1 DEF OrderInv, LogInv, Place, FileWritten
<1>3. clock \in Int /\ now' \in Int
  BY DEF OrderInv, LogInv, LogTypes
<1>4. now' - TimeElapsed \in Int
  <2>1. time_interv[mon] \in Nat
    BY <1>2, MonitorAssumption
  <2>2. Current.count \in Nat
    BY <1>2, FileHas DEF Current
  <2>3. TimeElapsed \in Nat
    <3> DEFINE c == Current.count
               i == time_interv[mon]
    <3>1. c \in Nat /\ i \in Nat
      BY <2>1, <2>2
    <3> HIDE DEF c, i
    <3>2. i * c \in Nat
      BY <3>1
    <3> QED  BY <3>2 DEF TimeElapsed, c, i
  <2> QED  BY <1>3, <2>3
<1>5. \A m \in Mon : SameEntries(fs[m], fs'[m])
  <2>1. PICK t \in Int : Store(writing[mon], [Current EXCEPT !.start = t, !.synched = TRUE])
    BY <1>1, <1>3, <1>4
  <2> DEFINE f == [Current EXCEPT !.start = t, !.synched = TRUE]
  <2>2. f \in File /\ f.lines = Current.lines /\ f.last_idx = Current.last_idx
    BY <1>2, DateStays
  <2>3. Store(writing[mon], f)
    BY <2>1
  <2> HIDE DEF f
  <2> QED  BY <1>2, <2>2, <2>3, LinesStay
<1>6. /\ pc \notin Booting /\ pc \notin {"append", "roll"} /\ pc # "confirm"
      /\ pc' \notin Booting /\ pc' \notin {"append", "roll"} /\ ~ Heads' /\ pc' \notin InReader
  BY <1>1, Zenon DEF Booting, Heads, InReader
<1> QED  BY <1>1, <1>5, <1>6, CalmOrder

\* The entry is counted, and a full file left.
LEMMA CountOrder ==
    ASSUME ~ CardErrors, OrderInv, CountEntry
    PROVE  OrderOK'
<1> DEFINE n == writing[mon]
           f == [Current EXCEPT !.count = @ + 1]
<1>1. /\ pc = "count" /\ pc' \in {"roll", "sync", "idle"} /\ mon' = mon /\ Store(n, f)
      /\ pc' # "roll" => UNCHANGED writing
      /\ \A m \in Mon \ {mon} : writing'[m] = writing[m]
      /\ UNCHANGED <<reading, batch, sending, server, now, write_timer, crashes>>
  <2>1. writing' = [writing EXCEPT ![mon] = IF Full(f.count) THEN Hour(clock) ELSE n]
    BY DEF CountEntry
  <2>2. pc' = IF Full(f.count) THEN "roll" ELSE IF f.synched THEN "idle" ELSE "sync"
    BY Zenon DEF CountEntry, Goto
  <2>3. pc = "count" /\ mon' = mon /\ Store(n, f)
        /\ UNCHANGED <<reading, batch, sending, server, now, write_timer, crashes>>
    BY DEF CountEntry, StoreHeader, Goto, upload, env
  <2> HIDE DEF f
  <2>4. pc' # "roll" => ~ Full(f.count)
    BY <2>2
  <2>5. writing = [m \in Mon |-> writing[m]]
    BY DEF OrderInv, LogInv, LogTypes
  <2>6. pc' # "roll" => writing' = writing
    BY <2>1, <2>4, <2>5
  <2>7. \A m \in Mon \ {mon} : writing'[m] = writing[m]
    BY <2>1, <2>5
  <2> QED  BY <2>2, <2>3, <2>6, <2>7
<1>2. /\ mon \in Mon /\ n \in DOMAIN fs[mon]
      /\ pc \notin Booting /\ pc' \notin Booting /\ ~ Heads' /\ pc' # "append"
      /\ pc # "confirm" /\ pc' \notin InReader
  BY <1>1, Zenon DEF OrderInv, LogInv, Place, FileWritten, Booting, Heads, InReader
<1>3. f \in File /\ f.lines = Current.lines /\ f.last_idx = Current.last_idx
  <2> DEFINE g == Current
  <2>1. g \in File /\ f = [g EXCEPT !.count = g.count + 1]
    BY <1>2, FileHas DEF Current
  <2> HIDE DEF f, g
  <2>2. f \in File /\ f.lines = g.lines /\ f.last_idx = g.last_idx
    BY <2>1 DEF File
  <2> QED  BY <2>2 DEF g
<1> HIDE DEF f
<1>4. \A m \in Mon : SameEntries(fs[m], fs'[m])
  BY <1>1, <1>2, <1>3, LinesStay
<1>5. ASSUME NEW m \in Mon PROVE Ordered(m)'
  <2>1. ~ RollsOver(m) /\ (RollsOver(m)' \/ writing'[m] = writing[m])
    BY <1>1 DEF RollsOver
  <2>2. SameLog(m)
    BY <1>1, <1>2, <1>4, <2>1, EntriesKept
  <2>3. NextTime(m) = write_timer[m] /\ NextTime(m)' = write_timer[m] /\ write_timer[m] \in Int
    BY <1>1, <1>2, FilesFound DEF NextTime
  <2>4. Delivered => Delivered'
    <3>1. Received' = Received
      BY <1>1 DEF Received, time_start
    <3> QED  BY <1>1, <1>2, <3>1 DEF Delivered
  <2>5. AtServer(m)' = AtServer(m)
    BY <1>1 DEF AtServer
  <2>6. NextTime(m)' \in Int /\ NextTime(m) <= NextTime(m)'
    BY <2>3
  <2> QED  BY <1>1, <1>2, <2>2, <2>4, <2>5, <2>6, OrderKept
<1> QED  BY <1>1, <1>2, <1>5 DEF OrderInv, OrderOK

\* A file without entries takes the place of the one being written.
LEMMA BlankFile ==
    ASSUME OrderInv, mon \in Mon, pc \notin Booting, NEW f \in File, f.lines = <<>>,
           Store(writing[mon], f), mon' = mon,
           UNCHANGED <<writing, reading, batch, sending, server, write_timer>>,
           mon \in sending => writing[mon] # reading[mon],
           pc \notin {"append", "confirm"}, pc \notin InReader,
           pc' \notin {"append", "confirm", "roll"}, pc' \notin InReader
    PROVE  /\ \A m \in Mon : Ordered(m)'
           /\ fs'[mon][writing[mon]] = f
<1> DEFINE n == writing[mon]
           r == reading[mon]
           S == AtServer(mon)
           w == write_timer[mon]
<1>1. /\ DOMAIN fs'[mon] = DOMAIN fs[mon] \cup {n}
      /\ fs'[mon][n] = f
      /\ \A x \in DOMAIN fs[mon] \ {n} : fs'[mon][x] = fs[mon][x]
      /\ \A m \in Mon \ {mon} : fs'[m] = fs[m]
  BY StoreWrites DEF OrderInv, LogInv
<1>2. Ordered(mon) /\ r \in DOMAIN fs[mon]
  BY FilesFound
<1>3. Len(f.lines) = 0 /\ f.last_idx \in Nat
  BY DEF File
<1>4. Delivered' <=> Delivered
  <2>1. Received' = Received
    BY DEF Received, time_start
  <2> QED  BY <2>1 DEF Delivered
<1>5. NextTime(mon) = w /\ AtServer(mon) = S
  BY DEF NextTime
<1>6. ASSUME NEW m \in Mon, m = mon PROVE Ordered(m)'
  <2>1. NextTime(m)' = w /\ AtServer(m)' = S
    BY <1>6 DEF NextTime, AtServer
  <2>2. S \subseteq Int /\ \A x \in S : x < w
    BY <1>2, <1>5 DEF Ordered
  <2>3. ASSUME NEW k \in DOMAIN fs'[m]
        PROVE  Rising(fs'[m][k].lines) /\ Below(fs'[m][k].lines, w)
    <3>1. CASE k = n
      BY <1>1, <1>3, <1>6, <3>1 DEF Rising, Below
    <3>2. CASE k # n
      BY <1>1, <1>2, <1>5, <1>6, <3>2 DEF Ordered
    <3> QED  BY <3>1, <3>2
  <2>4. Apart(fs'[m][r].lines, fs'[m][n].lines) /\ Later(S, fs'[m][n].lines)
    BY <1>1, <1>3, <1>6 DEF Apart, Later
  <2>5. Unsent(S, fs'[m][r], m \in sending' /\ Delivered')
    <3>1. CASE r = n
      <4>1. \A i \in f.last_idx + 1 .. Len(f.lines) : FALSE
        BY <1>3
      <4> QED  BY <1>1, <1>6, <3>1, <4>1 DEF Unsent
    <3>2. CASE r # n
      <4>1. fs'[m][r] = fs[m][r]
        BY <1>1, <1>2, <1>6, <3>2
      <4>2. Unsent(S, fs[m][r], m \in sending /\ Delivered)
        BY <1>2, <1>6 DEF Ordered
      <4> QED  BY <1>4, <4>1, <4>2
    <3> QED  BY <3>1, <3>2
  <2>6. ASSUME NEW e \in batch', e.mon = m
        PROVE  m \in sending' /\ e.sample = fs'[m][r].lines[fs'[m][r].last_idx + 1]
    <3>1. m \in sending /\ e.sample = fs[m][r].lines[fs[m][r].last_idx + 1]
      BY <1>2, <1>6, <2>6 DEF Ordered
    <3>2. fs'[m][r] = fs[m][r]
      BY <1>1, <1>2, <1>6, <3>1
    <3> QED  BY <3>1, <3>2
  <2>7. reading'[m] = r /\ writing'[m] = n
    BY <1>6
  <2> HIDE DEF S, w, r, n
  <2> QED  BY <2>1, <2>2, <2>3, <2>4, <2>5, <2>6, <2>7 DEF Ordered
<1>7. ASSUME NEW m \in Mon, m # mon PROVE Ordered(m)'
  BY <1>1, <1>7, OthersOrdered
<1> QED  BY <1>1, <1>6, <1>7

\* The next file is made.
NextFile ==
    OpenWrite("roll", "roll header") \/ NewHeader("roll header", "roll stamp")

LEMMA RollOrder ==
    ASSUME OrderInv, RollsAway, NextFile
    PROVE  OrderOK'
<1> DEFINE n == writing[mon]
           h == [Empty EXCEPT !.ok = TRUE, !.lines = Current.lines]
<1>1. /\ mon' = mon
      /\ \/ pc = "roll" /\ pc' = "roll header" /\ Store(n, Empty)
         \/ pc = "roll header" /\ pc' = "roll stamp" /\ Store(n, h)
      /\ UNCHANGED <<writing, reading, batch, sending, server, write_timer, crashes>>
  BY Zenon DEF NextFile, OpenWrite, NewHeader, Goto, names, upload, env
<1>2. /\ pc \notin Booting /\ pc \notin {"append", "confirm"} /\ pc \notin InReader
      /\ pc' \notin Booting /\ pc' \notin {"append", "confirm", "roll"} /\ pc' \notin InReader
      /\ Heads => Store(n, h) /\ ~ Heads'
      /\ ~ Heads => Store(n, Empty)
  BY <1>1, Zenon DEF Booting, InReader, Heads
<1>3. mon \in Mon /\ (mon \in sending => n # reading[mon])
  BY <1>1 DEF OrderInv, LogInv, Place, RollsAway
<1>4. Heads => Current.lines = <<>>
  BY DEF OrderInv, OrderOK
<1>5. Heads => h \in File /\ h.lines = <<>>
  <2>1. SUFFICES ASSUME Heads PROVE h \in File /\ h.lines = <<>>
    OBVIOUS
  <2>2. Current.lines = <<>> /\ Current.lines \in Seq(Int)
    <3> DEFINE l == Current.lines
    <3>1. l = <<>>
      BY <1>4, <2>1
    <3> HIDE DEF l
    <3>2. l \in Seq(Int)
      BY <3>1
    <3> QED  BY <3>1, <3>2 DEF l
  <2>3. h \in File
    BY <2>2, HeaderOf
  <2> QED  BY <2>2, <2>3 DEF Empty
<1>6. Empty \in File /\ Empty.lines = <<>>
  BY EmptyFile DEF Empty
<1> HIDE DEF h
<1>7. PICK f \in File : f.lines = <<>> /\ Store(n, f)
  BY <1>2, <1>5, <1>6
<1>8. (\A m \in Mon : Ordered(m)') /\ fs'[mon][n] = f
  BY <1>1, <1>2, <1>3, <1>7, BlankFile
<1>9. Current'.lines = <<>>
  BY <1>1, <1>7, <1>8 DEF Current
<1> QED  BY <1>1, <1>2, <1>8, <1>9 DEF OrderInv, OrderOK

\* The reader and the writer of a file both follow its new name.
LEMMA RenameOrder ==
    ASSUME OrderInv, Rename
    PROVE  OrderOK'
<1> DEFINE n == writing[mon]
           r == reading[mon]
           k == newname
<1>1. /\ pc = "rename" /\ pc' \in {"sync open", "idle"} /\ mon' = mon
      /\ k \notin DOMAIN fs[mon]
      /\ fs' = [fs EXCEPT ![mon] = Renamed(fs[mon], n, k)]
      /\ writing' = [writing EXCEPT ![mon] = k]
      /\ reading' = [reading EXCEPT ![mon] = IF r = n THEN k ELSE r]
      /\ UNCHANGED <<batch, sending, server, now, write_timer, crashes>>
  BY Zenon DEF Rename, Goto, NameTaken, Exists, SameFile, upload, env
<1>2. /\ mon \in Mon /\ n \in DOMAIN fs[mon]
      /\ pc \notin Booting /\ pc \notin {"append", "confirm", "roll"} /\ pc \notin InReader
      /\ pc' \notin Booting /\ pc' \notin {"append", "confirm", "roll"} /\ pc' \notin InReader
      /\ ~ Heads'
  BY <1>1, Zenon DEF OrderInv, LogInv, Place, FileWritten, Booting, Heads, InReader
<1>3. /\ fs'[mon] = Renamed(fs[mon], n, k)
      /\ \A m \in Mon \ {mon} : fs'[m] = fs[m]
      /\ writing'[mon] = k
      /\ reading'[mon] = IF r = n THEN k ELSE r
      /\ \A m \in Mon \ {mon} : writing'[m] = writing[m] /\ reading'[m] = reading[m]
  BY <1>1, <1>2 DEF OrderInv, LogInv, LogTypes
<1>4. /\ DOMAIN fs'[mon] = (DOMAIN fs[mon] \ {n}) \cup {k}
      /\ fs'[mon][k] = fs[mon][n]
      /\ \A x \in DOMAIN fs[mon] \ {n} : fs'[mon][x] = fs[mon][x]
  BY <1>1, <1>3, ZenonT(40) DEF Renamed
<1>5. ASSUME NEW m \in Mon, m = mon PROVE Ordered(m)'
  <2>1. r \in DOMAIN fs[mon]
    BY <1>2, FilesFound
  <2>2. \A x \in DOMAIN fs'[m] : \E y \in DOMAIN fs[m] : fs'[m][x] = fs[m][y]
    BY <1>2, <1>4, <1>5
  <2>3. /\ fs'[m][reading'[m]] = fs[m][reading[m]]
        /\ fs'[m][writing'[m]] = fs[m][writing[m]]
        /\ reading'[m] # writing'[m] => reading[m] # writing[m]
    BY <1>3, <1>4, <1>5, <2>1
  <2>4. ~ RollsOver(m)
    BY <1>2 DEF RollsOver
  <2>5. SameLog(m)
    BY <2>2, <2>3, <2>4 DEF SameLog
  <2>6. NextTime(m) = write_timer[m] /\ NextTime(m)' = write_timer[m] /\ write_timer[m] \in Int
    BY <1>1, <1>2, FilesFound DEF NextTime
  <2>7. Delivered => Delivered'
    <3>1. Received' = Received
      BY <1>1 DEF Received, time_start
    <3> QED  BY <1>1, <1>2, <3>1 DEF Delivered
  <2>8. AtServer(m)' = AtServer(m)
    BY <1>1 DEF AtServer
  <2>9. NextTime(m)' \in Int /\ NextTime(m) <= NextTime(m)'
    BY <2>6
  <2> QED  BY <1>1, <1>2, <2>5, <2>7, <2>8, <2>9, OrderKept
<1>6. ASSUME NEW m \in Mon, m # mon PROVE Ordered(m)'
  BY <1>1, <1>2, <1>3, <1>6, OthersOrdered
<1> QED  BY <1>1, <1>2, <1>5, <1>6 DEF OrderInv, OrderOK

-----------------------------------------------------------------------------
\* Order in the reader, and at the server.

\* An entry read is the first one left to send.
LEMMA ReadEntryOrder ==
    ASSUME OrderInv, ReadEntry
    PROVE  OrderOK'
<1> DEFINE r == reading[mon]
           h == fs[mon][r]
<1>1. /\ pc = "read" /\ pc' = "read" /\ mon \in Mon
      /\ \E e : e.mon = mon /\ e.sample = h.lines[h.last_idx + 1] /\ batch' = batch \cup {e}
      /\ sending' = sending \cup {mon}
      /\ UNCHANGED <<fs, writing, reading, server, now, write_timer, crashes>>
  <2> DEFINE e == [mon |-> mon, sample |-> NextLine(h), ts |-> EntryTime(h)]
  <2>1. e.mon = mon /\ e.sample = h.lines[h.last_idx + 1]
    <3>1. pc \notin Booting /\ mon \in Mon /\ h.last_idx < h.count
      BY DEF ReadEntry, Reading, Booting
    <3>2. /\ h.last_idx \in Nat /\ h.count \in Nat /\ Len(h.lines) \in Nat
          /\ h.count <= Len(h.lines)
      BY <3>1, FilesFound, FileHas DEF OrderInv, LogInv, IndexesInFile, Files
    <3> HIDE DEF h
    <3>3. h.last_idx < Len(h.lines)
      BY <3>1, <3>2
    <3> QED  BY <3>3 DEF NextLine
  <2>2. batch' = batch \cup {e}
    BY DEF ReadEntry
  <2> HIDE DEF e
  <2> QED  BY <2>1, <2>2 DEF ReadEntry, Reading, NextRead, disk, names, env
<1>2. /\ pc \notin Booting /\ pc' \notin Booting /\ ~ Heads'
      /\ pc # "confirm" /\ pc' # "confirm" /\ pc \in InReader /\ pc' \in InReader
  BY <1>1, Zenon DEF Booting, Heads, InReader
<1>3. ~ Delivered /\ ~ Delivered'
  BY <1>2 DEF Delivered
<1>4. PICK e : e.mon = mon /\ e.sample = h.lines[h.last_idx + 1] /\ batch' = batch \cup {e}
  BY <1>1
<1>5. ASSUME NEW m \in Mon PROVE Ordered(m)'
  <2>1. Ordered(m)
    BY <1>2, FilesFound
  <2>2. NextTime(m)' = NextTime(m) /\ AtServer(m)' = AtServer(m) /\ (RollsOver(m)' <=> RollsOver(m))
    BY <1>1 DEF NextTime, AtServer, RollsOver
  <2>3. Unsent(AtServer(m), fs[m][reading[m]], m \in sending' /\ Delivered')
    BY <1>3, <2>1 DEF Ordered, Unsent
  <2>4. ASSUME NEW x \in batch', x.mon = m
        PROVE  m \in sending' /\ x.sample = fs[m][reading[m]].lines[fs[m][reading[m]].last_idx + 1]
    <3>1. CASE x \in batch
      BY <1>1, <2>1, <2>4, <3>1 DEF Ordered
    <3>2. CASE x = e
      BY <1>1, <1>4, <2>4, <3>2
    <3> QED  BY <1>4, <3>1, <3>2
  <2> QED  BY <1>1, <2>1, <2>2, <2>3, <2>4 DEF Ordered
<1> QED  BY <1>1, <1>2, <1>5 DEF OrderInv, OrderOK

\* The reader goes on to the file being written, which is later than all that was sent.
LEMMA SwitchFileOrder ==
    ASSUME OrderInv, SwitchFile
    PROVE  OrderOK'
<1>1. /\ pc = "read" /\ pc' = "switch open" /\ mon' = mon /\ mon \in Mon
      /\ reading[mon] # writing[mon]
      /\ reading' = [reading EXCEPT ![mon] = writing[mon]]
      /\ UNCHANGED <<fs, writing, batch, sending, server, now, write_timer, crashes>>
  BY DEF SwitchFile, Reading, Goto, disk, upload, env
<1>2. /\ pc \notin Booting /\ pc' \notin Booting /\ ~ Heads' /\ pc' # "append"
      /\ pc # "confirm" /\ pc' # "confirm" /\ pc \in InReader /\ pc' \in InReader
  BY <1>1, Zenon DEF Booting, Heads, InReader
<1>3. /\ reading'[mon] = writing[mon]
      /\ \A m \in Mon \ {mon} : reading'[m] = reading[m]
  BY <1>1 DEF OrderInv, LogInv, LogTypes
<1>4. mon \notin sending
  <2>1. mon \in Int
    BY <1>1, MonInt
  <2>2. ~ (mon < mon)
    BY <2>1
  <2> QED  BY <1>2, <2>2 DEF OrderInv, LogInv, Uploading
<1>5. ASSUME NEW m \in Mon, m = mon PROVE Ordered(m)'
  <2>1. Ordered(m) /\ ~ RollsOver(m) /\ writing[m] \in DOMAIN fs[m]
    BY <1>1, <1>2, FilesFound DEF RollsOver
  <2>2. NextTime(m)' = NextTime(m) /\ AtServer(m)' = AtServer(m)
    BY <1>1 DEF NextTime, AtServer
  <2>3. Unsent(AtServer(m), fs[m][writing[m]], m \in sending' /\ Delivered')
    <3> DEFINE w == fs[m][writing[m]]
               S == AtServer(m)
    <3>1. Later(S, w.lines)
      BY <1>1, <1>5, <2>1 DEF Ordered
    <3>2. w.last_idx \in Nat /\ Len(w.lines) \in Nat
      BY <2>1, FileHas
    <3> HIDE DEF w, S
    <3>3. \A i \in w.last_idx + 1 .. Len(w.lines) : i \in 1 .. Len(w.lines)
      BY <3>2
    <3>4. Unsent(S, w, m \in sending' /\ Delivered')
      BY <3>1, <3>3 DEF Later, Unsent
    <3> QED  BY <3>4 DEF w, S
  <2>4. \A x \in batch' : x.mon # m
    BY <1>1, <1>4, <1>5, <2>1 DEF Ordered
  <2> QED  BY <1>1, <1>3, <1>5, <2>1, <2>2, <2>3, <2>4 DEF Ordered
<1>6. ASSUME NEW m \in Mon, m # mon PROVE Ordered(m)'
  BY <1>1, <1>2, <1>3, <1>6, OthersOrdered
<1> QED  BY <1>1, <1>2, <1>5, <1>6 DEF OrderInv, OrderOK

\* What is received of a monitor is the first entry left to send of it.
LEMMA ReceivedNext ==
    ASSUME OrderInv, pc \notin Booting, NEW m \in Mon, NEW x \in Received, x.mon = m
    PROVE  LET h == fs[m][reading[m]] IN
           /\ m \in sending
           /\ h.last_idx + 1 \in h.last_idx + 1 .. Len(h.lines)
           /\ h.last_idx + 1 \in 1 .. Len(h.lines)
           /\ x.sample = h.lines[h.last_idx + 1]
<1> DEFINE h == fs[m][reading[m]]
<1>1. PICK e \in batch : x = [e EXCEPT !.ts = time_start + int16(e.ts - time_start)]
  BY DEF Received
<1>2. e \in Entry
  BY DEF OrderInv, LogInv, LogTypes
<1>3. x.mon = e.mon /\ x.sample = e.sample
  BY <1>1, <1>2 DEF Entry
<1>4. m \in sending /\ x.sample = h.lines[h.last_idx + 1] /\ reading[m] \in DOMAIN fs[m]
  BY <1>3, FilesFound DEF Ordered
<1>5. h.last_idx < h.count /\ h.count <= Len(h.lines)
  BY <1>4 DEF OrderInv, LogInv, NextToSend, IndexesInFile, Files
<1>6. h.last_idx \in Nat /\ h.count \in Nat /\ Len(h.lines) \in Nat
  BY <1>4, FileHas
<1> HIDE DEF h
<1>7. h.last_idx + 1 \in h.last_idx + 1 .. Len(h.lines) /\ h.last_idx + 1 \in 1 .. Len(h.lines)
  BY <1>5, <1>6
<1> QED  BY <1>4, <1>7 DEF h

\* What was not received before is later than all the server has of the monitor.
LEMMA ReceivedLater ==
    ASSUME OrderInv, pc = "send", NEW e \in Received \ server, NEW f \in server, f.mon = e.mon
    PROVE  f.sample < e.sample
<1> DEFINE m == e.mon
           h == fs[m][reading[m]]
           x == f.sample
<1>1. m \in Mon /\ batch # {}
  <2>1. PICK b \in batch : e = [b EXCEPT !.ts = time_start + int16(b.ts - time_start)]
    BY DEF Received
  <2>2. b \in Entry
    BY DEF OrderInv, LogInv, LogTypes
  <2> QED  BY <2>1, <2>2 DEF Entry
<1>2. pc \notin Booting /\ ~ Delivered
  <2>1. pc # "confirm" /\ pc \notin Booting
    BY Zenon DEF Booting
  <2> QED  BY <2>1 DEF Delivered
<1>3. h.last_idx + 1 \in h.last_idx + 1 .. Len(h.lines) /\ e.sample = h.lines[h.last_idx + 1]
  BY <1>1, <1>2, ReceivedNext
<1>4. x \in AtServer(m)
  BY DEF AtServer
<1>5. Unsent(AtServer(m), h, m \in sending /\ Delivered)
  BY <1>1, <1>2, FilesFound DEF Ordered
<1> HIDE DEF h, x, m
<1>6. x < h.lines[h.last_idx + 1]
  BY <1>2, <1>3, <1>4, <1>5 DEF Unsent
<1> QED  BY <1>3, <1>6 DEF x

\* The batch is at the server, or nothing is.
LEMMA SendOrder ==
    ASSUME OrderInv, SendOk \/ \E arrives \in BOOLEAN : SendFails(arrives)
    PROVE  OrderOK' /\ server' \ server \subseteq Received
<1>1. /\ pc = "send" /\ mon' = mon
      /\ \/ server' = server /\ pc' = "idle" /\ batch' = batch
         \/ /\ server' = server \cup Received
            /\ pc' = "confirm" \/ (pc' = "idle" /\ batch' = batch)
      /\ batch' \subseteq batch
      /\ UNCHANGED <<fs, writing, reading, sending, write_timer, crashes>>
  BY Zenon DEF SendOk, SendFails, Goto, disk, names, Request, Busy
<1>2. /\ pc \notin Booting /\ pc' \notin Booting /\ ~ Heads' /\ pc' # "append" /\ pc # "confirm"
      /\ pc # "append" /\ pc # "roll" /\ pc' # "roll" /\ pc' \notin InReader /\ pc \notin InReader
  BY <1>1, Zenon DEF Booting, Heads, InReader
<1>3. Delivered => Delivered'
  <2>1. CASE pc' = "confirm"
    BY <2>1 DEF Delivered
  <2>2. CASE batch' = batch /\ pc' = "idle"
    <3>1. Received' = Received
      BY <2>2 DEF Received, time_start
    <3> QED  BY <1>1, <1>2, <2>2, <3>1 DEF Delivered
  <2> QED  BY <1>1, <2>1, <2>2
<1>4. ASSUME server' = server \cup Received, batch # {} PROVE Delivered'
  <2>1. CASE pc' = "confirm"
    BY <2>1 DEF Delivered
  <2>2. CASE batch' = batch /\ pc' = "idle"
    <3>1. Received' = Received
      BY <2>2 DEF Received, time_start
    <3> QED  BY <1>2, <1>4, <2>2, <3>1 DEF Delivered
  <2> QED  BY <1>1, <1>2, <1>4, <2>1, <2>2
<1>5. ASSUME NEW m \in Mon PROVE Ordered(m)'
  <2> DEFINE h == fs[m][reading[m]]
             S == AtServer(m)
             T == AtServer(m)'
             t == write_timer[m]
             k == h.last_idx + 1
             y == h.lines[k]
  <2>1. /\ Ordered(m) /\ ~ RollsOver(m) /\ ~ RollsOver(m)'
        /\ NextTime(m) = t /\ NextTime(m)' = t /\ t \in Int
        /\ reading[m] \in DOMAIN fs[m] /\ h.lines \in Seq(Int) /\ Len(h.lines) \in Nat
        /\ h.last_idx \in Nat
    BY <1>1, <1>2, FilesFound, FileHas DEF RollsOver, NextTime
  <2>2. CASE T = S
    <3>1. SameLog(m)
      BY <1>1, <1>2, <2>1, SameCard, EntriesKept
    <3>2. NextTime(m)' \in Int /\ NextTime(m) <= NextTime(m)'
      BY <2>1
    <3> QED  BY <1>1, <1>2, <1>3, <2>2, <3>1, <3>2, OrderKept
  <2>3. CASE T # S
    <3>1. \A x \in T : x \in S \/ (\E e \in Received : e.mon = m /\ x = e.sample /\ server' = server \cup Received)
      BY <1>1 DEF AtServer
    <3>2. S \subseteq T
      BY <1>1 DEF AtServer
    <3>3. PICK e \in Received : e.mon = m /\ server' = server \cup Received
      BY <2>3, <3>1, <3>2
    <3>4. m \in sending /\ k \in k .. Len(h.lines) /\ k \in 1 .. Len(h.lines)
      BY <1>2, <3>3, ReceivedNext
    <3>5. \A x \in T : x \in S \/ x = y
      BY <1>2, <3>1, ReceivedNext
    <3>6. Delivered'
      <4>1. batch # {}
        BY <3>3 DEF Received
      <4> QED  BY <1>4, <3>3, <4>1
    <3>7. /\ S \subseteq Int /\ \A x \in S : x < t
          /\ Unsent(S, h, m \in sending /\ Delivered)
          /\ Rising(h.lines) /\ Below(h.lines, t)
      BY <2>1 DEF Ordered
    <3>8. y \in Int /\ y < t
      BY <2>1, <3>4, <3>7 DEF Below
    <3>9. T \subseteq Int /\ \A x \in T : x < t
      BY <3>5, <3>7, <3>8
    <3>10. Unsent(T, h, m \in sending' /\ Delivered')
      <4>1. ASSUME NEW x \in T, NEW i \in h.last_idx + 1 .. Len(h.lines)
            PROVE  x < h.lines[i] \/ (i = h.last_idx + 1 /\ x = h.lines[i])
        <5>1. CASE x \in S
          BY <3>7, <4>1, <5>1 DEF Unsent
        <5>2. CASE x = y /\ i # k
          <6>1. Rising(h.lines) /\ k \in 1 .. Len(h.lines) /\ h.last_idx \in Nat /\ Len(h.lines) \in Nat
            BY <2>1, <3>4, <3>7
          <6> HIDE DEF h
          <6>2. i \in 1 .. Len(h.lines) /\ k < i
            BY <4>1, <5>2, <6>1
          <6> QED  BY <5>2, <6>1, <6>2 DEF Rising
        <5>3. CASE x = y /\ i = k
          BY <5>3
        <5> QED  BY <3>5, <5>1, <5>2, <5>3
      <4> QED  BY <1>1, <3>4, <3>6, <4>1 DEF Unsent
    <3>11. ASSUME reading[m] # writing[m]
           PROVE  Apart(h.lines, fs[m][writing[m]].lines) /\ Later(T, fs[m][writing[m]].lines)
      <4> DEFINE l == fs[m][writing[m]].lines
      <4>1. Apart(h.lines, l) /\ Later(S, l)
        BY <2>1, <3>11 DEF Ordered
      <4> HIDE DEF l, h
      <4>2. Later(T, l)
        BY <3>4, <3>5, <4>1 DEF Apart, Later
      <4> QED  BY <4>1, <4>2 DEF l
    <3>12. \A x \in batch' : x.mon = m => m \in sending' /\ x.sample = y
      BY <1>1, <2>1 DEF Ordered
    <3>13. \A x \in DOMAIN fs'[m] : Rising(fs'[m][x].lines) /\ Below(fs'[m][x].lines, t)
      BY <1>1, <2>1 DEF Ordered
    <3>14. fs'[m][reading'[m]] = h /\ fs'[m][writing'[m]] = fs[m][writing[m]]
           /\ (reading'[m] # writing'[m] => reading[m] # writing[m])
      BY <1>1
    <3> HIDE DEF h, t
    <3> QED  BY <2>1, <3>9, <3>10, <3>11, <3>12, <3>13, <3>14 DEF Ordered
  <2> QED  BY <2>2, <2>3
<1> QED  BY <1>1, <1>2, <1>5 DEF OrderInv, OrderOK

\* What is marked as sent was the entry being sent.
LEMMA ConfirmOrder ==
    ASSUME ~ CardErrors, OrderInv, Confirm
    PROVE  OrderOK'
<1>0. PICK m : m = CHOOSE k \in sending : \A n \in sending : k <= n
  OBVIOUS
<1>1. m \in sending
  <2>1. sending \subseteq Mon /\ sending # {}
    BY DEF Confirm, OrderInv, LogInv, LogTypes
  <2> QED  BY <1>0, <2>1, LeastMonitor
<1> DEFINE r == reading[m]
           h == fs[m][r]
           f == Sent(h)
<1>2. /\ pc = "confirm" /\ pc' = "confirm" /\ mon' = mon
      /\ sending' = sending \ {m}
      /\ \/ monitor_getheader(m, r) /\ fs' = [fs EXCEPT ![m][r] = Sent(fs[m][r])]
         \/ ~ monitor_getheader(m, r) /\ UNCHANGED fs
      /\ UNCHANGED <<writing, reading, batch, server, now, write_timer, crashes>>
  BY <1>0 DEF Confirm, Goto, names, env
<1>3. m \in Mon /\ NextToSend(m)
  BY <1>1 DEF OrderInv, LogInv, LogTypes
<1>4. /\ pc \notin Booting /\ pc' \notin Booting /\ ~ Heads' /\ pc # "append" /\ pc' # "append"
      /\ pc # "roll" /\ pc' # "roll" /\ Delivered'
  BY <1>2, Zenon DEF Booting, Heads, Delivered
<1>5. r \in DOMAIN fs[m] /\ monitor_getheader(m, r) /\ h \in File
  BY <1>3, FileHas DEF NextToSend, monitor_getheader
<1>6. fs' = [fs EXCEPT ![m][r] = f]
  BY <1>2, <1>5
<1>7. f.lines = h.lines /\ f.last_idx = h.last_idx + 1 /\ h.last_idx \in Nat /\ Len(h.lines) \in Nat
  <2> HIDE DEF h
  <2> QED  BY <1>5 DEF File, Sent
<1> HIDE DEF f
<1>8. /\ DOMAIN fs'[m] = DOMAIN fs[m] /\ fs'[m][r] = f
      /\ \A x \in DOMAIN fs[m] \ {r} : fs'[m][x] = fs[m][x]
      /\ \A k \in Mon \ {m} : fs'[k] = fs[k]
  BY <1>3, <1>5, <1>6 DEF OrderInv, LogInv, LogTypes
<1>9. ASSUME NEW k \in Mon, k # m PROVE Ordered(k)'
  <2>1. fs'[k] = fs[k] /\ (k \in sending <=> k \in sending')
    BY <1>2, <1>8, <1>9
  <2>2. /\ NextTime(k) = write_timer[k] /\ NextTime(k)' = write_timer[k] /\ write_timer[k] \in Int
        /\ ~ RollsOver(k) /\ AtServer(k)' = AtServer(k)
    BY <1>2, <1>4, FilesFound DEF NextTime, RollsOver, AtServer
  <2>3. SameLog(k)
    BY <1>2, <1>4, <2>1, <2>2, EntriesKept DEF SameEntries
  <2>4. NextTime(k)' \in Int /\ NextTime(k) <= NextTime(k)'
    BY <2>2
  <2> QED  BY <1>2, <1>4, <2>1, <2>2, <2>3, <2>4, OrderKept
<1>10. Ordered(m)'
  <2> DEFINE S == AtServer(m)
             t == write_timer[m]
             w == fs[m][writing[m]]
  <2>1. Ordered(m) /\ ~ RollsOver(m) /\ writing[m] \in DOMAIN fs[m]
    BY <1>3, <1>4, FilesFound DEF RollsOver
  <2>2. NextTime(m) = t /\ NextTime(m)' = t /\ AtServer(m)' = S
    BY <1>2, <1>4 DEF NextTime, AtServer
  <2>3. /\ S \subseteq Int /\ \A x \in S : x < t
        /\ Unsent(S, h, m \in sending /\ Delivered)
        /\ reading[m] # writing[m] => Apart(h.lines, w.lines) /\ Later(S, w.lines)
    BY <2>1, <2>2 DEF Ordered
  <2>4. \A x \in DOMAIN fs[m] : fs'[m][x].lines = fs[m][x].lines
    <3>1. ASSUME NEW x \in DOMAIN fs[m] PROVE fs'[m][x].lines = fs[m][x].lines
      <4>1. CASE x = r
        BY <1>7, <1>8, <4>1
      <4>2. CASE x # r
        BY <1>8, <4>2
      <4> QED  BY <4>1, <4>2
    <3> QED  BY <3>1
  <2>5. \A x \in DOMAIN fs'[m] : Rising(fs'[m][x].lines) /\ Below(fs'[m][x].lines, t)
    BY <1>8, <2>1, <2>2, <2>4 DEF Ordered
  <2>6. Unsent(S, f, m \in sending' /\ Delivered')
    <3> HIDE DEF S, h
    <3>1. ASSUME NEW x \in S, NEW i \in f.last_idx + 1 .. Len(f.lines) PROVE x < f.lines[i]
      <4>1. i \in h.last_idx + 1 .. Len(h.lines) /\ i # h.last_idx + 1
        BY <1>7
      <4> QED  BY <1>7, <2>3, <4>1 DEF Unsent
    <3> QED  BY <3>1 DEF Unsent
  <2>7. batch' = {}
    BY <1>2 DEF OrderInv, LogInv, Uploading
  <2>8. /\ fs'[m][reading'[m]] = f /\ fs'[m][writing'[m]].lines = w.lines
        /\ reading'[m] = reading[m] /\ writing'[m] = writing[m]
    BY <1>2, <1>8, <2>1, <2>4
  <2>9. reading'[m] # writing'[m] =>
          Apart(fs'[m][reading'[m]].lines, fs'[m][writing'[m]].lines) /\ Later(S, fs'[m][writing'[m]].lines)
    BY <1>7, <2>3, <2>8
  <2> HIDE DEF S, t, w, r, h
  <2> QED  BY <2>2, <2>3, <2>5, <2>6, <2>7, <2>8, <2>9 DEF Ordered
<1>11. \A k \in Mon : Ordered(k)'
  BY <1>9, <1>10
<1> QED  BY <1>2, <1>4, <1>11 DEF OrderInv, OrderOK

-----------------------------------------------------------------------------
LEMMA InitOrder == Init => OrderInv
<1> SUFFICES ASSUME Init PROVE OrderInv
  OBVIOUS
<1>1. /\ pc = "boot" /\ server = {} /\ batch = {} /\ crashes = 0
      /\ \A m \in Mon : DOMAIN fs[m] = {}
      /\ write_timer \in [Mon -> Int]
  BY DEF Init
<1>2. pc \in Booting /\ pc # "append" /\ ~ Heads
  BY <1>1, Zenon DEF Booting, Heads
<1>3. OrderOK
  BY <1>1, <1>2 DEF OrderOK, NothingTaken
<1> QED  BY <1>3, InitLog, InitNames DEF OrderInv

\* Every step keeps the order.
LEMMA NextOrder ==
    ASSUME MaxCrashes = 0, ~ CardErrors, ~ WriteFailures, OrderInv, RollsAway, Advancing, [Next]_vars
    PROVE  OrderInv'
<1>1. LogInv' /\ NamesInv'
  BY NextLog, NextNames DEF OrderInv
<1>2. CASE Boot
  BY <1>1, <1>2, BootOrder DEF OrderInv
<1>3. CASE Tick
  BY <1>1, <1>3, IdlingOrder DEF OrderInv, Idling
<1>4. CASE \E m \in Mon : SampleLost(m)
  BY <1>1, <1>4, SampleOrder DEF OrderInv
<1>5. CASE Write
  <2>1. CASE OpenWrite("recreate", "new header") \/ NewHeader("new header", "append")
    <3>1. pc \in {"recreate", "new header"}
      BY <2>1, Zenon DEF OpenWrite, NewHeader
    <3> QED  BY <3>1 DEF OrderInv, LogInv, Place
  <2>2. \/ \E m \in Mon : Sample(m)
        \/ AppendLine \/ CountEntry \/ NextFile \/ RollStamp
        \/ OpenWrite("recreate", "new header") \/ NewHeader("new header", "append")
    BY <1>5, Zenon DEF Write, NextFile, LineRefused, HeaderFails
  <2> QED  BY <1>1, <2>1, <2>2, SampleOrder, AppendOrder, CountOrder, RollOrder, DateOrder, Zenon
           DEF OrderInv
<1>6. CASE Sync
  BY <1>1, <1>6, IdlingOrder, DateOrder, RenameOrder, Zenon DEF OrderInv, Sync, DateAgain, Idling
<1>7. CASE Read
  BY <1>1, <1>7, IdlingOrder, ReadEntryOrder, SwitchFileOrder, Zenon DEF OrderInv, Read, Idling
<1>8. CASE Send
  BY <1>1, <1>8, IdlingOrder, SendOrder, ConfirmOrder, Zenon DEF OrderInv, Send, Idling
<1>9. CASE Crash
  <2>1. crashes < 0 /\ crashes = 0
    BY <1>9 DEF Crash, OrderInv, OrderOK
  <2> QED  BY <2>1
<1>10. CASE UNCHANGED vars
  <2>1. UNCHANGED <<fs, writing, reading, batch, sending, server, pc, mon, now, write_timer, crashes>>
    BY <1>10 DEF vars, disk, names, upload, env
  <2>2. Received' = Received
    BY <2>1 DEF Received, time_start
  <2>3. \A m \in Mon : Ordered(m) => Ordered(m)'
    BY <2>1, <2>2 DEF Ordered, NextTime, RollsOver, AtServer, Delivered
  <2>4. NothingTaken => NothingTaken'
    BY <2>1 DEF NothingTaken
  <2> QED  BY <1>1, <2>1, <2>3, <2>4 DEF OrderInv, OrderOK, Heads, Current
<1> QED  BY <1>2, <1>3, <1>4, <1>5, <1>6, <1>7, <1>8, <1>9, <1>10 DEF Next

\* Only a request adds to what the server has, and adds what is later.
LEMMA ServerKept ==
    ASSUME [Next]_vars, ~ (SendOk \/ \E arrives \in BOOLEAN : SendFails(arrives))
    PROVE  UNCHANGED server
<1>1. CASE Boot
  BY <1>1, Zenon DEF Boot, BootLog, BootRead, BootNext, NewHeader, OpenMeta, WriteMeta, upload
<1>2. CASE Write
  BY <1>2, Zenon DEF Write, Sample, AppendLine, LineRefused, HeaderFails, CountEntry, RollStamp, OpenWrite, NewHeader, upload
<1>3. CASE Sync
  BY <1>3, Zenon DEF Sync, SyncUnread, SyncFails, SyncStamp, RenameFails, DateAgain, Rename, OpenMeta, WriteMeta, upload
<1>4. CASE Read
  BY <1>4, Zenon DEF Read, StartRead, ReadEntry, SwitchFile, SwitchDone, ReadNothing, EndRead,
     OpenMeta, WriteMeta, upload
<1>5. CASE Send
  BY <1>5, Zenon DEF Send, Retry, Confirm, ConfirmDone, upload
<1>6. CASE Tick \/ Crash \/ (\E m \in Mon : SampleLost(m)) \/ UNCHANGED vars
  BY <1>6, Zenon DEF Tick, Crash, SampleLost, vars, upload
<1> QED  BY <1>1, <1>2, <1>3, <1>4, <1>5, <1>6 DEF Next

LEMMA NextInOrder ==
    ASSUME OrderInv, [Next]_vars
    PROVE  [\A e \in server' \ server : \A f \in server :
              f.mon = e.mon => f.sample < e.sample]_vars
<1>1. CASE SendOk \/ \E arrives \in BOOLEAN : SendFails(arrives)
  <2>1. pc = "send"
    BY <1>1, Zenon DEF SendOk, SendFails
  <2>2. server' \ server \subseteq Received
    BY <1>1, SendOrder
  <2>3. \A e \in server' \ server : e \in Received \ server
    BY <2>2
  <2> QED  BY <2>1, <2>3, ReceivedLater
<1>2. CASE ~ (SendOk \/ \E arrives \in BOOLEAN : SendFails(arrives))
  BY <1>2, ServerKept
<1> QED  BY <1>1, <1>2

\* Where a tenth of an interval is not nothing, as in the code, where intervals are
\* whole seconds in a timer of milliseconds, the writers advance.
LEMMA TenthAdvances ==
    ASSUME OrderInv, \A m \in Mon : time_interv[m] >= 10
    PROVE  Advancing
<1> SUFFICES ASSUME NEW m \in Mon PROVE Remaining(m) > 0
  BY DEF Advancing, Due
<1> DEFINE p == time_interv[m]
           d == now - write_timer[m]
           e == timer_elapsed(m)
<1>1. p \in Nat /\ p >= 10 /\ LateRange \in Nat \ {0}
  BY MonitorAssumption
<1>2. d \in Int
  BY DEF OrderInv, OrderOK, LogInv, LogTypes
<1>3. e \in Int
  <2> HIDE DEF d
  <2>1. d % LateRange \in Int
    BY <1>1, <1>2
  <2> QED  BY <2>1 DEF timer_elapsed, d
<1>4. Remaining(m) = IF e < p THEN p - e ELSE p \div 10
  BY DEF Remaining
<1> HIDE DEF p, e
<1>5. p \div 10 > 0
  BY <1>1
<1>6. CASE e < p
  BY <1>1, <1>3, <1>4, <1>6
<1>7. CASE ~ (e < p)
  BY <1>4, <1>5, <1>7
<1> QED  BY <1>6, <1>7

\* Without power failures, if the card answers, and the entries of a file take longer
\* than an hour and a request, each monitor's entries reach the server in the order they
\* were taken: whatever answers were lost, however late the writers are, and through
\* renames, rollovers and the change of files (monitor_writeentry,
\* monitor_settimestamp, monitor_reader_multiple, monitor_confirm_entry_sent).  An
\* interval is 10 ticks or more: the code counts seconds in milliseconds.
THEOREM EntriesInOrder ==
    ASSUME ~ CardErrors, ~ WriteFailures, Spacious, \A m \in Mon : time_interv[m] >= 10
    PROVE  Spec => InOrder
<1>1. MaxCrashes = 0
  BY DEF Spacious
<1>2. FreeInv => RollsAway
  BY FreeRollsFree, FreeRollsAway DEF FreeInv
<1>3. OrderInv /\ RollsAway /\ [Next]_vars => OrderInv'
  BY <1>1, NextOrder, TenthAdvances
<1>4. OrderInv /\ RollsAway /\ [Next]_vars =>
        [\A e \in server' \ server : \A f \in server :
           f.mon = e.mon => f.sample < e.sample]_vars
  BY NextInOrder
<1> QED  BY <1>2, <1>3, <1>4, AlwaysFree, InitOrder, PTL DEF Spec, InOrder
=============================================================================
