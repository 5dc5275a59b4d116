---------------------------- MODULE ModbusMaster ----------------------------
(***************************************************************************)
(* The MODBUS master (app/MBMaster.c, modbus_master/modbus.c) over the     *)
(* RS-485 line (devices/rs485.c), and the meter drivers that read a list   *)
(* of registers through it (modbus_slaves/modbus_pm210.c, _t500.c).        *)
(*                                                                         *)
(* An answer is three tokens: the address, the function, and the body with *)
(* the CRC.  A token carries the query it answers; the CRC of what was     *)
(* collected is right exactly when the tokens make up one undamaged        *)
(* answer.  The state variable of Modbus_receive is the length of s_answ.  *)
(***************************************************************************)
EXTENDS Naturals, Sequences

CONSTANTS
    Caller,      \* tasks that read meters: the monitor's and the terminal's
    Terminal,    \* those that also read single registers
    AddressesOf, \* the addresses each caller may ask
    DeviceOf,    \* the kind of meter each caller reads
    Wiping,      \* kinds whose driver forgets everything on giving up (T500)
    Slave,       \* addresses of the meters on the line, at most 247
    BadSlave,    \* addresses above 247
    NREGS,       \* registers in a driver's list
    Quick,       \* the answer is there when the first wait is over, or never
    NoOne, Zero, Failed, Silent

Reg     == 1 .. NREGS
Device  == {DeviceOf[c] : c \in Caller}
Address == Slave \cup BadSlave
Query   == [slave : Slave, reg : Reg]
Part    == {"addr", "func", "body", "exfunc", "exbody", "noise"}
Token   == [part : Part, of : Query]

ASSUME ModbusAssumption ==
    /\ NREGS \in Nat \ {0}
    /\ Slave # {} /\ Slave \cap BadSlave = {}
    /\ Terminal \subseteq Caller /\ NoOne \notin Caller
    /\ AddressesOf \in [Caller -> SUBSET Address]
    /\ Quick \in BOOLEAN
    /\ Zero \notin Query /\ Failed \notin Query /\ Silent \notin Query

VARIABLES
    pc,         \* where each caller is
    asked,      \* [slave, reg] each caller asks for, whatever the address
    retries,    \* failures a driver's call still accepts; 0 outside a driver
    err,        \* what Modbus_GetData returned: a query answered, or Failed
    IRList,     \* the static register list of each kind of meter
    holder,     \* the owner of the line's mutex
    s_query,    \* the static query, Silent until the first one
    s_answ,     \* tokens of the answer collected so far
    rxq,        \* the receive queue of the line
    line,       \* tokens on their way to the master
    heard       \* the query each meter has still to answer

calls  == <<pc, asked, retries, err, IRList>>
master == <<holder, s_query, s_answ>>
bus    == <<rxq, line, heard>>
vars   == <<calls, master, bus>>

NoCall == [slave |-> CHOOSE s \in Slave : TRUE, reg |-> 1]

Init ==
    /\ pc = [c \in Caller |-> "idle"]
    /\ asked = [c \in Caller |-> NoCall]
    /\ retries = [c \in Caller |-> 0]
    /\ err = [c \in Caller |-> Failed]
    /\ IRList = [d \in Device |-> [r \in Reg |-> Zero]]
    /\ holder = NoOne /\ s_query = Silent /\ s_answ = <<>>
    /\ rxq = <<>> /\ line = <<>> /\ heard = [s \in Slave |-> Silent]

Goto(c, p) == pc' = [pc EXCEPT ![c] = p]

-----------------------------------------------------------------------------
\* Modbus_GetData.

IsDriver(c) == retries[c] # 0

\* The address is not one of MODBUS: the query stays the previous one's, and
\* the caller is told that all is well.
OpenBad(c) ==
    /\ asked[c].slave \in BadSlave
    /\ s_query # Silent
    /\ s_query' = [s_query EXCEPT !.reg = asked[c].reg]

Open(c) ==
    /\ asked[c].slave \in Slave
    /\ s_query' = asked[c]

\* Mutant: the line is not locked.
LockNever(c) == holder' = c

Lock(c) == holder = NoOne /\ holder' = c

MakeQuery(c) ==
    /\ pc[c] = "call"
    /\ Lock(c)
    /\ Open(c) \/ OpenBad(c)
    /\ s_answ' = <<>>
    /\ Goto(c, "send")
    /\ UNCHANGED <<asked, retries, err, IRList, bus>>

\* A meter that is busy with a query, or that damage kept from it, misses it.
Heard == \/ UNCHANGED heard
         \/ /\ heard[s_query.slave] = Silent
            /\ heard' = [heard EXCEPT ![s_query.slave] = s_query]

\* The receiver is off while the master sends, which takes longer than the
\* rest of an answer.
TxData(c) ==
    /\ pc[c] = "send"
    /\ line' = <<>>
    /\ Heard
    /\ Goto(c, "receive")
    /\ UNCHANGED <<asked, retries, err, IRList, master, rxq>>

\* Mutant: the receive queue is left as it is.
RxFlushNone == UNCHANGED rxq

RxFlush == rxq' = <<>>

\* The way out of Modbus_GetData: close, flush, unlock.  What was collected is
\* read no more (the code clears it on the way in, Modbus_prepare_receiver).
Exit(c, e) ==
    /\ err' = [err EXCEPT ![c] = e]
    /\ s_answ' = <<>>
    /\ RxFlush
    /\ holder' = NoOne
    /\ Goto(c, "returned")

\* A function the library does not know, or more registers than the answer's
\* buffer holds: the terminal may ask for either, and nothing is sent.
QueryError(c) ==
    /\ pc[c] = "call" /\ ~ IsDriver(c)
    /\ holder = NoOne
    /\ Open(c) \/ OpenBad(c)
    /\ Exit(c, Failed)
    /\ UNCHANGED <<asked, retries, IRList, line, heard>>

\* A byte that is not where it belongs may have any value.
AddressFits(t) == t.part = "addr" => t.of.slave = s_query.slave
FunctionFits(t) == t.part \in {"func", "exfunc"}

\* One undamaged answer, of registers or of an exception.
Check_crc16(a) ==
    /\ a[1].part = "addr"
    /\ <<a[2].part, a[3].part>> \in {<<"func", "body">>, <<"exfunc", "exbody">>}
    /\ a[1].of.slave = a[3].of.slave

Settled == line = <<>> /\ \A s \in Slave : heard[s] = Silent

\* The 10 ms after the query are over; then each byte is waited for.
Receives(c) == pc[c] = "receive" /\ rxq # <<>> /\ (Quick => Settled)
Collect     == s_answ \o <<Head(rxq)>>

ReceiveMore(c) ==
    /\ Receives(c)
    /\ \/ s_answ = <<>> /\ AddressFits(Head(rxq))
       \/ Len(s_answ) = 1
    /\ s_answ' = Collect
    /\ rxq' = Tail(rxq)
    /\ UNCHANGED <<calls, holder, s_query, line, heard>>

\* The bytes already received go, those still on the line do not.
ReceiveError(c) ==
    /\ Receives(c)
    /\ \/ s_answ = <<>> /\ (Head(rxq).part = "addr" => ~ AddressFits(Head(rxq)))
       \/ Len(s_answ) = 1 /\ ~ FunctionFits(Head(rxq))
       \/ Len(s_answ) = 2 /\ ~ Check_crc16(Collect)
    /\ Exit(c, Failed)
    /\ UNCHANGED <<asked, retries, IRList, s_query, line, heard>>

\* An exception's length disagrees with its count of bytes: ERR_DATA.
ProcessError(c) ==
    /\ Receives(c)
    /\ Len(s_answ) = 2
    /\ Check_crc16(Collect)
    /\ Head(rxq).part = "exbody"
    /\ Exit(c, Failed)
    /\ UNCHANGED <<asked, retries, IRList, s_query, line, heard>>

\* A driver has the registers copied into its static list.
ProcessAnswer(c) ==
    /\ Receives(c)
    /\ Len(s_answ) = 2
    /\ Check_crc16(Collect)
    /\ Head(rxq).part # "exbody"
    /\ IRList' = IF IsDriver(c)
                 THEN [IRList EXCEPT ![DeviceOf[c]][asked[c].reg] = Head(rxq).of]
                 ELSE IRList
    /\ Exit(c, Head(rxq).of)
    /\ UNCHANGED <<asked, retries, s_query, line, heard>>

\* Nothing in the queue for a whole wait: no meter is that slow.
RxTimeout(c) ==
    /\ pc[c] = "receive"
    /\ rxq = <<>>
    /\ Settled
    /\ Exit(c, Failed)
    /\ UNCHANGED <<asked, retries, IRList, s_query, line, heard>>

-----------------------------------------------------------------------------
\* The callers: a driver reads its registers in turn, and gives up after
\* 2 * NREGS failures; the terminal also reads a single register.

read_data(c, s) ==
    /\ pc[c] = "idle"
    /\ asked' = [asked EXCEPT ![c] = [slave |-> s, reg |-> 1]]
    /\ retries' = [retries EXCEPT ![c] = 2 * NREGS]
    /\ IRList' = [IRList EXCEPT ![DeviceOf[c]] = [r \in Reg |-> Zero]]
    /\ Goto(c, "call")
    /\ UNCHANGED <<err, master, bus>>

term_cmd_modbus(c, s, r) ==
    /\ pc[c] = "idle"
    /\ asked' = [asked EXCEPT ![c] = [slave |-> s, reg |-> r]]
    /\ Goto(c, "call")
    /\ UNCHANGED <<retries, err, IRList, master, bus>>

\* The caller's variables are gone with its call.
Return(c) ==
    /\ asked' = [asked EXCEPT ![c] = NoCall]
    /\ err' = [err EXCEPT ![c] = Failed]
    /\ retries' = [retries EXCEPT ![c] = 0]
    /\ Goto(c, "idle")
    /\ UNCHANGED <<IRList, master, bus>>

SingleDone(c) == pc[c] = "returned" /\ ~ IsDriver(c) /\ Return(c)

\* Mutant: one register past the list.
MoreOne(r) == r <= NREGS

More(r) == r < NREGS

NextRegister(c) ==
    /\ pc[c] = "returned" /\ IsDriver(c) /\ err[c] # Failed
    /\ IF More(asked[c].reg)
       THEN asked' = [asked EXCEPT ![c].reg = @ + 1] /\ Goto(c, "call")
       ELSE Goto(c, "copy") /\ UNCHANGED asked
    /\ UNCHANGED <<retries, err, IRList, master, bus>>

\* Mutant: a failure does not count.
LessOneNever(n) == n

LessOne(n) == n - 1

RetryRegister(c) ==
    /\ pc[c] = "returned" /\ IsDriver(c) /\ err[c] = Failed
    /\ retries[c] > 1
    /\ retries' = [retries EXCEPT ![c] = LessOne(@)]
    /\ Goto(c, "call")
    /\ UNCHANGED <<asked, err, IRList, master, bus>>

GiveUp(c) ==
    /\ pc[c] = "returned" /\ IsDriver(c) /\ err[c] = Failed
    /\ retries[c] = 1
    /\ retries' = [retries EXCEPT ![c] = 0]
    /\ IRList' = IF DeviceOf[c] \in Wiping
                 THEN [IRList EXCEPT ![DeviceOf[c]] = [r \in Reg |-> Zero]]
                 ELSE IRList
    /\ Goto(c, "copy")
    /\ UNCHANGED <<asked, err, master, bus>>

\* Full or not, the list is returned as an entry of the whole length.
CopyOut(c) == pc[c] = "copy" /\ Return(c)

-----------------------------------------------------------------------------
\* The line and the meters.

Frame(q, fun, body) == << [part |-> "addr", of |-> q],
                          [part |-> fun,    of |-> q],
                          [part |-> body,   of |-> q] >>

\* One meter at a time has the line.
Answer(s) ==
    /\ heard[s] # Silent
    /\ line = <<>>
    /\ \/ line' = Frame(heard[s], "func", "body")
       \/ line' = Frame(heard[s], "exfunc", "exbody")
       \/ UNCHANGED line
    /\ heard' = [heard EXCEPT ![s] = Silent]
    /\ UNCHANGED <<calls, master, rxq>>

\* The receive interrupt; a token may be damaged, or lost.
Arrive ==
    /\ line # <<>>
    /\ line' = Tail(line)
    /\ \/ rxq' = Append(rxq, Head(line))
       \/ rxq' = Append(rxq, [Head(line) EXCEPT !.part = "noise"])
       \/ UNCHANGED rxq
    /\ UNCHANGED <<calls, master, heard>>

-----------------------------------------------------------------------------
GetData(c) ==
    \/ MakeQuery(c)
    \/ QueryError(c)
    \/ TxData(c)
    \/ ReceiveMore(c)
    \/ ReceiveError(c)
    \/ ProcessError(c)
    \/ ProcessAnswer(c)
    \/ RxTimeout(c)

DriverStep(c) ==
    \/ NextRegister(c)
    \/ RetryRegister(c)
    \/ GiveUp(c)
    \/ CopyOut(c)

\* Before the first query an address above 247 reaches a null s_query, which
\* the model leaves out.
Call(c) ==
    \E s \in AddressesOf[c] :
      /\ s \in BadSlave => s_query # Silent
      /\ \/ read_data(c, s)
         \/ c \in Terminal /\ \E r \in Reg : term_cmd_modbus(c, s, r)

Next ==
    \/ \E c \in Caller : GetData(c) \/ DriverStep(c) \/ SingleDone(c) \/ Call(c)
    \/ \E s \in Slave : Answer(s)
    \/ Arrive

Spec == Init /\ [][Next]_vars

\* A task that can run does, time passes on the line, and the release of the
\* mutex hands it to the task that waits for it.
Fairness ==
    /\ \A c \in Caller :
         /\ SF_vars(MakeQuery(c))
         /\ WF_vars(GetData(c))
         /\ WF_vars(DriverStep(c))
         /\ WF_vars(SingleDone(c))
    /\ \A s \in Slave : WF_vars(Answer(s))
    /\ WF_vars(Arrive)

FairSpec == Spec /\ Fairness

-----------------------------------------------------------------------------
\* Properties.

\* Every variable has its type, and the line never holds more than an answer.
ModbusTypeOK ==
    /\ pc \in [Caller -> {"idle", "call", "send", "receive", "returned", "copy"}]
    /\ asked \in [Caller -> [slave : Address, reg : Reg]]
    /\ retries \in [Caller -> 0 .. 2 * NREGS]
    /\ err \in [Caller -> Query \cup {Failed}]
    /\ IRList \in [Device -> [Reg -> Query \cup {Zero}]]
    /\ holder \in Caller \cup {NoOne}
    /\ s_query \in Query \cup {Silent}
    /\ s_answ \in Seq(Token) /\ Len(s_answ) <= 3
    /\ rxq \in Seq(Token)
    /\ line \in Seq(Token) /\ Len(line) <= 3
    /\ heard \in [Slave -> Query \cup {Silent}]

\* A read that returns MODBUS_OK for an address of MODBUS delivers the register
\* it asked for, of the meter it asked: not another caller's, and not what a
\* damaged, retried or late exchange left behind (MBMaster.c, Modbus_GetData).
AnswersTheQuestion ==
    \A c \in Caller :
      pc[c] = "returned" /\ asked[c].slave \in Slave =>
        err[c] \in {asked[c], Failed}

\* An entry handed to the log has every register of the meter it is headed
\* with, or, after the driver gave up, zeros: all of them for a T500, those from
\* the register that failed on for the others (pm210_read_data, t500_read_data).
EntryIsTheMeters ==
    \A c \in Caller : pc[c] = "copy" /\ asked[c].slave \in Slave =>
      \A r \in Reg :
        IRList[DeviceOf[c]][r] =
          IF \/ IsDriver(c)
             \/ r < asked[c].reg /\ DeviceOf[c] \notin Wiping
          THEN [slave |-> asked[c].slave, reg |-> r]
          ELSE Zero

\* A call that started ends, however many answers are damaged or missing.
ReadEnds == \A c \in Caller : pc[c] = "call" ~> pc[c] = "idle"
=============================================================================
