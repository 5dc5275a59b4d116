----------------------------- MODULE MonitorLog -----------------------------
(***************************************************************************)
(* The monitor application (monitor/monitor.c, monitor_main.c): for every  *)
(* meter a writer appends one entry per interval to a log file on the SD   *)
(* card, and a reader uploads the oldest entry not yet confirmed.          *)
(*                                                                         *)
(* One task runs everything, so steps never interleave; but power may fail *)
(* between any two file operations, and the card keeps what was written.   *)
(* Every action is therefore one operation on the card, or on the modem.   *)
(* A file is named by an hour, and time is counted in ticks.               *)
(***************************************************************************)
EXTENDS Integers, Sequences, FiniteSets

CONSTANTS
    num_monitores,       \* configured monitors
    time_interv,         \* interval of each monitor, in ticks
    MAX_NUM_OF_ENTRIES,  \* a file is full at one entry less
    HourLen,             \* ticks in an hour
    OffsetRange,         \* a 16-bit time offset is in -OffsetRange .. OffsetRange-1
    StartTime,           \* when the system is first switched on
    MaxTime,             \* bound: the last tick
    MaxCrashes,          \* bound: power failures
    MaxBusy,             \* ticks a long request to the server takes
    LateRange,           \* a writer's lateness is known modulo this (16 bits)
    OpenFailures,        \* whether an entry may be left out: no data, or no open file
    WriteFailures,       \* whether the card may refuse the line of an entry
    CardErrors           \* whether reading or writing a header may fail

Mon == 1 .. num_monitores
LOG_FILENAME_START == 99123123
NoName             == 99999999   \* what an empty metafile.txt holds
NoEntry            == -1         \* what is read where a file has no line

ASSUME MonitorAssumption ==
    /\ num_monitores \in Nat \ {0}
    /\ time_interv \in [Mon -> Nat \ {0}]
    /\ MAX_NUM_OF_ENTRIES \in Nat /\ MAX_NUM_OF_ENTRIES > 2
    /\ HourLen \in Nat \ {0} /\ OffsetRange \in Nat \ {0}
    /\ StartTime \in Nat /\ MaxTime \in Nat /\ StartTime < MaxTime
    /\ MaxTime < LOG_FILENAME_START
    /\ MaxCrashes \in Nat /\ MaxBusy \in Nat /\ LateRange \in Nat \ {0}
    /\ OpenFailures \in BOOLEAN /\ WriteFailures \in BOOLEAN /\ CardErrors \in BOOLEAN

VARIABLES
    fs,            \* the files of each monitor's directory, by name
    metafile,      \* the name in each metafile.txt
    writing,       \* monitor_name_writing
    reading,       \* monitor_name_reading
    clock,         \* simon_clock: ticks since boot until it is set
    clockSynched,  \* simon_clock_synched
    batch,         \* the entries of data_vector; not empty while monitor_sending
    sending,       \* monitors whose entry is to be confirmed
    pc, mon,       \* the next operation of the Monitors task, and on which monitor;
                   \* between operations, the last one this pass has served
    newname,       \* the name a file is being renamed to
    now,           \* true time
    write_timer,   \* the tick at which each monitor's write timer expires
    crashes,       \* power failures so far
    server         \* the entries the server has stored

disk   == <<fs, metafile>>
names  == <<writing, reading>>
simon  == <<clock, clockSynched>>
upload == <<batch, sending, server>>
env    == <<now, write_timer, crashes>>
vars   == <<disk, names, simon, upload, pc, mon, newname, env>>

Hour(t) == t \div HourLen

-----------------------------------------------------------------------------
\* Files.

Empty == [ok |-> FALSE, synched |-> FALSE, start |-> 0,
          last_idx |-> 0, count |-> 0, lines |-> <<>>]

\* Directory d with file n replaced or created, and with a file renamed.
With(d, n, file) == [x \in DOMAIN d \cup {n} |-> IF x = n THEN file ELSE d[x]]
Renamed(d, old, new) ==
    [x \in (DOMAIN d \ {old}) \cup {new} |-> IF x = new THEN d[old] ELSE d[x]]

Exists(n)           == n \in DOMAIN fs[mon]
monitor_getheader(m, n) == n \in DOMAIN fs[m] /\ fs[m][n].ok
Current             == fs[mon][writing[mon]]
Store(n, file)      == fs' = [fs EXCEPT ![mon] = With(@, n, file)]

\* The task goes on with operation p on the same monitor.
Goto(p) == pc' = p /\ UNCHANGED mon

Init ==
    /\ fs = [m \in Mon |-> <<>>]
    /\ metafile = [m \in Mon |-> NoName]
    /\ writing = [m \in Mon |-> NoName]
    /\ reading = [m \in Mon |-> NoName]
    /\ clock = 0 /\ clockSynched = FALSE
    /\ batch = {} /\ sending = {} /\ server = {}
    /\ pc = "boot" /\ mon = 1 /\ newname = NoName
    /\ now = StartTime /\ crashes = 0
    /\ write_timer = [m \in Mon |-> 0]

-----------------------------------------------------------------------------
\* Operations several handlers use.

\* monitor_newheader: a header with both indexes 0, on top of what is there.
NewHeader(from, to) ==
    /\ pc = from
    /\ Store(writing[mon], [Empty EXCEPT !.ok = TRUE, !.lines = Current.lines])
    /\ Goto(to)
    /\ UNCHANGED <<metafile, names, simon, upload, newname, env>>

\* Creating a file for writing truncates the one that has its name.
OpenWrite(from, to) ==
    /\ pc = from
    /\ Store(writing[mon], Empty)
    /\ Goto(to)
    /\ UNCHANGED <<metafile, names, simon, upload, newname, env>>

\* metafile.txt is truncated when it is opened, and written afterwards.
OpenMeta(from, to) ==
    /\ pc = from
    /\ metafile' = [metafile EXCEPT ![mon] = NoName]
    /\ Goto(to)
    /\ UNCHANGED <<fs, names, simon, upload, newname, env>>

WriteMeta(from, to) ==
    /\ pc = from
    /\ metafile' = [metafile EXCEPT ![mon] = reading[mon]]
    /\ Goto(to)
    /\ UNCHANGED <<fs, names, simon, upload, newname, env>>

-----------------------------------------------------------------------------
\* monitor_init, for each monitor in turn.

\* Writing always begins in LOG_FILENAME_START, made if it is not there.
BootLog ==
    /\ pc = "boot" /\ mon \in Mon
    /\ writing' = [writing EXCEPT ![mon] = LOG_FILENAME_START]
    /\ IF Exists(LOG_FILENAME_START)
       THEN UNCHANGED fs ELSE Store(LOG_FILENAME_START, Empty)
    /\ \/ Goto("meta") /\ monitor_getheader(mon, LOG_FILENAME_START)
       \/ /\ Goto("boot header")
          /\ monitor_getheader(mon, LOG_FILENAME_START) => CardErrors
    /\ UNCHANGED <<metafile, reading, simon, upload, newname, env>>

\* Reading goes on in the file metafile.txt names, if there is such a file.
BootRead ==
    /\ pc = "meta"
    /\ reading' = [reading EXCEPT ![mon] = IF Exists(metafile[mon])
                                           THEN metafile[mon] ELSE writing[mon]]
    /\ Goto(IF Exists(metafile[mon]) THEN "booted" ELSE "boot open")
    /\ UNCHANGED <<disk, writing, simon, upload, newname, env>>

\* With the last one, the write timers are set; booting takes less than a tick.
BootNext ==
    /\ pc = "booted"
    /\ \/ /\ mon < num_monitores
          /\ mon' = mon + 1 /\ pc' = "boot"
          /\ UNCHANGED write_timer
       \/ /\ mon = num_monitores
          /\ mon' = 0 /\ pc' = "idle"
          /\ write_timer' = [m \in Mon |-> now + time_interv[m]]
    /\ UNCHANGED <<disk, names, simon, upload, newname, now, crashes>>

Boot ==
    \/ BootLog \/ BootRead \/ BootNext
    \/ NewHeader("boot header", "meta")
    \/ OpenMeta("boot open", "boot write") \/ WriteMeta("boot write", "booted")

-----------------------------------------------------------------------------
\* The writer: monitor_write_thread, monitor_writer and monitor_writeentry.

Due == {m \in Mon : now >= write_timer[m]}

\* Each pass of the main loop serves the writers in order, then the reader; one
\* that becomes due when the pass is past it waits for the next.
Turn(m)      == m \in Due /\ m > mon /\ \A n \in Due : n > mon => m <= n
ReadersTurn  == pc = "idle" /\ \A m \in Due : m <= mon

\* Nobody is due: a tick passes.
Tick ==
    /\ pc = "idle" /\ Due = {}
    /\ now < MaxTime
    /\ now' = now + 1
    /\ clock' = clock + 1
    /\ mon' = 0
    /\ UNCHANGED <<disk, names, clockSynched, upload, pc, newname,
                   write_timer, crashes>>

timer_elapsed(m) == (now - write_timer[m]) % LateRange

\* Mutant: any lateness is taken for one of a whole interval.
RemainingTenth(m) ==
    IF timer_elapsed(m) = 0 THEN time_interv[m] ELSE time_interv[m] \div 10

\* What is left of the interval, or a tenth of one for a writer that is late by
\* a whole interval.
Remaining(m) ==
    IF timer_elapsed(m) < time_interv[m]
    THEN time_interv[m] - timer_elapsed(m)
    ELSE time_interv[m] \div 10

timer_set(m) == write_timer' = [write_timer EXCEPT ![m] = now + Remaining(m)]

\* The meter gives nothing, or the file cannot be opened: the entry is left out
\* and never made up for.
SampleLost(m) ==
    /\ pc = "idle" /\ Turn(m) /\ OpenFailures
    /\ timer_set(m)
    /\ mon' = m
    /\ UNCHANGED <<disk, names, simon, upload, pc, newname, now, crashes>>

\* The entry is written.  A file whose header cannot be read is made anew; the
\* header is always there, so that is when the card fails to read it.
Sample(m) ==
    /\ pc = "idle" /\ Turn(m)
    /\ timer_set(m)
    /\ mon' = m
    /\ \/ pc' = "append" /\ monitor_getheader(m, writing[m])
       \/ pc' = "recreate" /\ CardErrors
    /\ UNCHANGED <<disk, names, simon, upload, newname, now, crashes>>

AppendLine ==
    /\ pc = "append"
    /\ Store(writing[mon], [Current EXCEPT !.lines = Append(@, now)])
    /\ Goto("count")
    /\ UNCHANGED <<metafile, names, simon, upload, newname, env>>

\* What the writing of a line returns is ignored: one that is refused is counted.
LineRefused ==
    /\ pc = "append" /\ WriteFailures
    /\ Goto("count")
    /\ UNCHANGED <<disk, names, simon, upload, newname, env>>

\* Mutant: one entry more is written.
FullLate(n) == n = MAX_NUM_OF_ENTRIES

Full(n) == n = MAX_NUM_OF_ENTRIES - 1

\* The header on the card, or the old one when it is not taken: nobody asks.
StoreHeader(n, h) == Store(n, h) \/ (CardErrors /\ UNCHANGED fs)

\* The entry is counted; a full file is left for one named by the clock.
CountEntry ==
    LET h == [Current EXCEPT !.count = @ + 1] IN
    /\ pc = "count"
    /\ StoreHeader(writing[mon], h)
    /\ writing' = [writing EXCEPT ![mon] = IF Full(h.count) THEN Hour(clock) ELSE @]
    /\ Goto(IF Full(h.count) THEN "roll" ELSE IF h.synched THEN "idle" ELSE "sync")
    /\ UNCHANGED <<metafile, reading, simon, upload, newname, env>>

\* The new file starts now, and counts as synchronised.
RollStamp ==
    /\ pc = "roll stamp"
    /\ Store(writing[mon], [Current EXCEPT !.start = clock, !.synched = TRUE])
    /\ Goto("idle")
    /\ UNCHANGED <<metafile, names, simon, upload, newname, env>>

\* The header of a new file cannot be written, or not read again: the entry is
\* given up, or the file that was started left undated.  Whether it is dated then
\* depends on the header last read, the full file's or the new one.
HeaderFails ==
    /\ CardErrors
    /\ \/ pc = "new header" /\ Goto("idle")
       \/ pc \in {"roll header", "roll stamp"} /\ (Goto("idle") \/ Goto("sync"))
    /\ UNCHANGED <<disk, names, simon, upload, newname, env>>

Write ==
    \/ \E m \in Mon : Sample(m)
    \/ OpenWrite("recreate", "new header") \/ NewHeader("new header", "append")
    \/ AppendLine \/ LineRefused \/ CountEntry
    \/ OpenWrite("roll", "roll header") \/ NewHeader("roll header", "roll stamp")
    \/ RollStamp \/ HeaderFails

-----------------------------------------------------------------------------
\* monitor_settimestamp: dating a file once the clock can be set.

\* A request to the server keeps the task busy for less than a tick, or for long.
Busy ==
    /\ now' \in {now, now + MaxBusy} /\ now' <= MaxTime
    /\ UNCHANGED <<write_timer, crashes>>

Request == Busy /\ clock' = clock + now' - now /\ UNCHANGED clockSynched

\* The header is there to be read, and says that the file is not dated.
Undated == monitor_getheader(mon, writing[mon]) /\ ~Current.synched

SyncUnread ==
    /\ pc = "sync"
    /\ Undated => CardErrors
    /\ Goto("idle")
    /\ UNCHANGED <<disk, names, simon, upload, newname, env>>

\* The server does not tell the time.
SyncFails ==
    /\ pc = "sync" /\ Undated
    /\ ~clockSynched
    /\ Request
    /\ Goto("idle")
    /\ UNCHANGED <<disk, names, upload, newname>>

\* Mutant: the interval is taken for minutes.
TimeElapsedMinutes == 60 * time_interv[mon] * Current.count

TimeElapsed == time_interv[mon] * Current.count

\* The file is dated back by one interval for every entry in it; the server is
\* asked for the time once.
SyncStamp ==
    LET start == now' - TimeElapsed IN
    /\ pc = "sync" /\ Undated
    /\ IF clockSynched THEN UNCHANGED env ELSE Busy
    /\ clock' = now' /\ clockSynched' = TRUE
    /\ StoreHeader(writing[mon], [Current EXCEPT !.start = start, !.synched = TRUE])
    /\ newname' = Hour(start)
    /\ Goto("rename")
    /\ UNCHANGED <<metafile, names, upload>>

\* Mutant: a file of the same name is overwritten.
NameTakenNever == FALSE

NameTaken == Exists(newname)

\* The name is taken: the next hour is tried.
RenameFails ==
    /\ pc = "rename"
    /\ NameTaken
    /\ newname' = newname + 1
    /\ UNCHANGED <<disk, names, simon, upload, pc, mon, env>>

\* So is it after a header that was not taken, which is written again.
DateAgain ==
    /\ pc = "rename"
    /\ NameTaken
    /\ CardErrors /\ ~Current.synched
    /\ Store(writing[mon], [Current EXCEPT !.start = now - TimeElapsed, !.synched = TRUE])
    /\ newname' = newname + 1
    /\ UNCHANGED <<metafile, names, simon, upload, pc, mon, env>>

\* Mutant: the reader keeps the old name.
SameFileNever == FALSE

SameFile == reading[mon] = writing[mon]

\* A reader of the same file follows the new name.
Rename ==
    /\ pc = "rename"
    /\ ~NameTaken
    /\ fs' = [fs EXCEPT ![mon] = Renamed(@, writing[mon], newname)]
    /\ writing' = [writing EXCEPT ![mon] = newname]
    /\ reading' = [reading EXCEPT ![mon] = IF SameFile THEN newname ELSE @]
    /\ newname' = NoName
    /\ Goto(IF SameFile THEN "sync open" ELSE "idle")
    /\ UNCHANGED <<metafile, simon, upload, env>>

Sync ==
    \/ SyncUnread \/ SyncFails \/ SyncStamp \/ RenameFails \/ DateAgain \/ Rename
    \/ OpenMeta("sync open", "sync write") \/ WriteMeta("sync write", "idle")

-----------------------------------------------------------------------------
\* The reader: monitor_readentry and monitor_reader_multiple.

monitor_sending == batch # {}

\* The writers are served, and nothing is waiting for the server: one entry of
\* each monitor is read.
StartRead ==
    /\ ReadersTurn /\ ~monitor_sending
    /\ pc' = "read" /\ mon' = 1
    /\ UNCHANGED <<disk, names, simon, upload, newname, env>>

NextRead == pc' = "read" /\ mon' = mon + 1

Readable(m) == monitor_getheader(m, reading[m]) /\ fs[m][reading[m]].synched
Reading     == pc = "read" /\ mon \in Mon

\* Mutant: entries are read from the end.
NextLineNewest(h) == h.lines[h.count - h.last_idx]

NextLine(h)  == IF h.last_idx < Len(h.lines) THEN h.lines[h.last_idx + 1] ELSE NoEntry
EntryTime(h) == h.start + h.last_idx * time_interv[mon]

\* The oldest entry not confirmed.  Its index is not sent once it is past the
\* end of any file; its time follows from its place in the file.
ReadEntry ==
    LET h == fs[mon][reading[mon]] IN
    /\ Reading /\ Readable(mon)
    /\ h.last_idx < h.count /\ h.last_idx + 1 < MAX_NUM_OF_ENTRIES
    /\ batch' = batch \cup {[mon |-> mon, sample |-> NextLine(h), ts |-> EntryTime(h)]}
    /\ sending' = sending \cup {mon}
    /\ NextRead
    /\ UNCHANGED <<disk, names, simon, server, newname, env>>

\* The file is finished and is not the one being written: read that one next.
SwitchFile ==
    LET h == fs[mon][reading[mon]] IN
    /\ Reading /\ Readable(mon)
    /\ h.last_idx >= h.count
    /\ reading[mon] # writing[mon]
    /\ reading' = [reading EXCEPT ![mon] = writing[mon]]
    /\ Goto("switch open")
    /\ UNCHANGED <<disk, writing, simon, upload, newname, env>>

SwitchDone ==
    /\ pc = "switched"
    /\ NextRead
    /\ UNCHANGED <<disk, names, simon, upload, newname, env>>

ReadNothing ==
    LET h == fs[mon][reading[mon]] IN
    /\ Reading
    /\ Readable(mon) => \/ CardErrors
                        \/ IF h.last_idx < h.count
                           THEN h.last_idx + 1 >= MAX_NUM_OF_ENTRIES
                           ELSE reading[mon] = writing[mon]
    /\ NextRead
    /\ UNCHANGED <<disk, names, simon, upload, newname, env>>

EndRead ==
    /\ pc = "read" /\ mon \notin Mon
    /\ mon' = 0
    /\ pc' = IF monitor_sending THEN "send" ELSE "idle"
    /\ UNCHANGED <<disk, names, simon, upload, newname, env>>

\* The batch of an earlier pass is sent again.
Retry ==
    /\ ReadersTurn /\ monitor_sending
    /\ pc' = "send" /\ mon' = 0
    /\ UNCHANGED <<disk, names, simon, upload, newname, env>>

\* The first entry's time is sent whole, the others as 16-bit offsets from it.
time_start == (CHOOSE e \in batch : \A f \in batch : e.mon <= f.mon).ts
int16(d)   == ((d + OffsetRange) % (2 * OffsetRange)) - OffsetRange
Received   == {[e EXCEPT !.ts = time_start + int16(e.ts - time_start)] : e \in batch}

\* Mutant: the entries are taken as sent without a confirmation.
SendFailsConfirms(arrives) ==
    /\ pc = "send"
    /\ server' = IF arrives THEN server \cup Received ELSE server
    /\ batch' = {}
    /\ Goto("confirm")
    /\ Request
    /\ UNCHANGED <<disk, names, sending, newname>>

\* No confirmation: the request or its answer is lost.
SendFails(arrives) ==
    /\ pc = "send"
    /\ server' = IF arrives THEN server \cup Received ELSE server
    /\ Goto("idle")
    /\ Request
    /\ UNCHANGED <<disk, names, batch, sending, newname>>

SendOk ==
    /\ pc = "send"
    /\ server' = server \cup Received
    /\ batch' = {}
    /\ Goto("confirm")
    /\ Request
    /\ UNCHANGED <<disk, names, sending, newname>>

\* Mutant: the index moves when an entry is read and when it is confirmed.
SentTwice(h) == [h EXCEPT !.last_idx = @ + 2]

Sent(h) == [h EXCEPT !.last_idx = @ + 1]

\* monitor_confirm_entry_sent, for each monitor of the batch.
Confirm ==
    LET m == CHOOSE m \in sending : \A n \in sending : m <= n IN
    /\ pc = "confirm" /\ sending # {}
    /\ \/ /\ monitor_getheader(m, reading[m])
          /\ fs' = [fs EXCEPT ![m][reading[m]] = Sent(@)]
       \/ (monitor_getheader(m, reading[m]) => CardErrors) /\ UNCHANGED fs
    /\ sending' = sending \ {m}
    /\ Goto("confirm")
    /\ UNCHANGED <<metafile, names, simon, batch, server, newname, env>>

ConfirmDone ==
    /\ pc = "confirm" /\ sending = {}
    /\ Goto("idle")
    /\ UNCHANGED <<disk, names, simon, upload, newname, env>>

Read ==
    \/ StartRead \/ ReadEntry \/ SwitchFile \/ SwitchDone \/ ReadNothing \/ EndRead
    \/ OpenMeta("switch open", "switch write") \/ WriteMeta("switch write", "switched")

Send ==
    \/ Retry \/ SendOk \/ Confirm \/ ConfirmDone
    \/ \E arrives \in BOOLEAN : SendFails(arrives)

-----------------------------------------------------------------------------
\* Power fails and is back at once, or an hour later: memory is lost.
Crash ==
    /\ crashes < MaxCrashes
    /\ crashes' = crashes + 1
    /\ now' \in {now, now + HourLen} /\ now' <= MaxTime
    /\ writing' = [m \in Mon |-> NoName] /\ reading' = [m \in Mon |-> NoName]
    /\ clock' = 0 /\ clockSynched' = FALSE
    /\ batch' = {} /\ sending' = {} /\ write_timer' = [m \in Mon |-> 0]
    /\ pc' = "boot" /\ mon' = 1 /\ newname' = NoName
    /\ UNCHANGED <<disk, server>>

Next ==
    \/ Boot \/ Tick \/ Write \/ Sync \/ Read \/ Send \/ Crash
    \/ \E m \in Mon : SampleLost(m)

Spec == Init /\ [][Next]_vars

\* The main loop serves the writers and the reader in every pass, and the
\* server answers again and again.
Fairness ==
    /\ WF_vars(Boot \/ Write \/ Sync \/ Read \/ Send)
    /\ SF_vars(StartRead) /\ SF_vars(SendOk)
    /\ \A m \in Mon : SF_vars(Sample(m))

FairSpec == Spec /\ Fairness

-----------------------------------------------------------------------------
\* Properties.

Files(m)       == DOMAIN fs[m]
OnDisk(m)      == UNION {{fs[m][n].lines[i] : i \in 1 .. Len(fs[m][n].lines)} :
                           n \in Files(m)}
AtServer(m)    == {e.sample : e \in {f \in server : f.mon = m}}

\* Every variable has its type.
MonitorTypeOK ==
    /\ \A m \in Mon : \A n \in Files(m) :
         fs[m][n] \in [ok : BOOLEAN, synched : BOOLEAN, start : Nat,
                       last_idx : Nat, count : Nat, lines : Seq(StartTime .. MaxTime)]
    /\ metafile \in [Mon -> Nat] /\ writing \in [Mon -> Nat]
    /\ reading \in [Mon -> Nat] /\ newname \in Nat
    /\ clock \in 0 .. MaxTime /\ clockSynched \in BOOLEAN
    /\ \A e \in batch \cup server :
         e.mon \in Mon /\ e.sample \in (StartTime .. MaxTime) \cup {NoEntry} /\ e.ts \in Nat
    /\ sending \subseteq Mon /\ write_timer \in [Mon -> Nat]
    /\ now \in StartTime .. MaxTime /\ crashes \in 0 .. MaxCrashes
    /\ mon \in 0 .. num_monitores + 1

\* An entry is marked as sent only when the server has it, whatever answers
\* and power failures came between.
ConfirmedWasReceived ==
    \A m \in Mon : \A n \in Files(m) : \A i \in 1 .. fs[m][n].last_idx :
      i <= Len(fs[m][n].lines) /\ fs[m][n].lines[i] \in AtServer(m)

\* A file never claims entries it does not have, nor sends more than it has.
IndexesInFile ==
    \A m \in Mon : \A n \in Files(m) :
      fs[m][n].last_idx <= fs[m][n].count /\ fs[m][n].count <= Len(fs[m][n].lines)

\* Between passes of the main loop both names are those of existing files, and
\* metafile.txt would take the reader back to the file it is in.
NamesOnDisk ==
    pc = "idle" =>
      \A m \in Mon : /\ writing[m] \in Files(m) /\ reading[m] \in Files(m)
                     /\ metafile[m] = reading[m]

\* The stamps of a monitor's entries all lie at the same end of the intervals the
\* entries close, the first or the last, but for what one request of each monitor
\* delays them or the dating of their file: lateness is made up for, and never
\* adds up.
Late == num_monitores * MaxBusy
StampsExact ==
    \A m \in Mon : \E d \in {0, time_interv[m]} : \A e \in server :
      e.mon = m => e.sample - d - e.ts \in -Late .. Late

\* No entry leaves the card before the server has it.
NothingErased ==
    [][\A m \in Mon : OnDisk(m) \subseteq OnDisk(m)' \cup AtServer(m)']_vars

\* Each monitor's entries reach the server as an ordered time series.
InOrder ==
    [][\A e \in server' \ server : \A f \in server :
         f.mon = e.mon => f.sample < e.sample]_vars

\* Every entry counted in the dated file the reader is in reaches the server,
\* through lost answers, the renaming of that file and the start of the next.
InReadFile(m) ==
    IF Readable(m)
    THEN LET h == fs[m][reading[m]] IN {h.lines[i] : i \in 1 .. h.count}
    ELSE {}
EntriesReachServer ==
    \A m \in Mon : \A s \in StartTime .. MaxTime :
      s \in InReadFile(m) ~> s \in AtServer(m)

\* A file that is neither read nor written has been sent to its end.
NoStrandedFile ==
    pc = "idle" =>
      \A m \in Mon : \A n \in Files(m) \ {reading[m], writing[m]} :
        fs[m][n].last_idx = fs[m][n].count
=============================================================================
