------------------------ MODULE ModbusMaster_proofs ------------------------
(***************************************************************************)
(* When the answer to a query is in the receive queue before the master    *)
(* starts to read it, no read delivers anything but the register it asked  *)
(* for.                                                                    *)
(***************************************************************************)
EXTENDS ModbusMaster, SequenceTheorems, TLAPS

\* The variables the argument depends on have their types.
TypeInv ==
    /\ pc \in [Caller -> {"idle", "call", "send", "receive", "returned", "copy"}]
    /\ asked \in [Caller -> [slave : Address, reg : Reg]]
    /\ err \in [Caller -> Query \cup {Failed}]
    /\ holder \in Caller \cup {NoOne}
    /\ s_query \in Query \cup {Silent}
    /\ s_answ \in Seq(Token)
    /\ rxq \in Seq(Token)
    /\ line \in Seq(Token)
    /\ heard \in [Slave -> Query \cup {Silent}]

InGetData(c) == pc[c] \in {"send", "receive"}

\* The owner of the mutex, and nobody else, is between the lock and the unlock.
Locked == \A c \in Caller : InGetData(c) <=> holder = c

\* The static query is the one of the caller inside.
QueryIsAsked ==
    \A c \in Caller : InGetData(c) =>
      /\ s_query # Silent
      /\ asked[c].slave \in Slave => s_query = asked[c]

\* Nothing is left of an exchange that is over.
Quiet ==
    (\A c \in Caller : pc[c] # "receive") =>
      Settled /\ rxq = <<>> /\ s_answ = <<>>

AllOf(seq) == \A i \in 1 .. Len(seq) : seq[i].of = s_query

\* Whatever is under way belongs to the query in course.
OnlyThisQuery ==
    /\ AllOf(s_answ) /\ AllOf(rxq) /\ AllOf(line)
    /\ \A s \in Slave : heard[s] \in {s_query, Silent}

Inv == /\ TypeInv
       /\ Locked
       /\ QueryIsAsked
       /\ Quiet
       /\ OnlyThisQuery
       /\ AnswersTheQuestion

-----------------------------------------------------------------------------
\* Sequences of tokens.

LEMMA TailOfTokens ==
  ASSUME NEW seq \in Seq(Token), seq # <<>>
  PROVE  /\ Head(seq) \in Token /\ Tail(seq) \in Seq(Token)
         /\ Head(seq) = seq[1] /\ 1 \in 1 .. Len(seq)
         /\ Len(Tail(seq)) = Len(seq) - 1
         /\ \A i \in 1 .. Len(Tail(seq)) : Tail(seq)[i] = seq[i + 1] /\ i + 1 \in 1 .. Len(seq)
OBVIOUS

LEMMA AppendToken ==
  ASSUME NEW seq \in Seq(Token), NEW t \in Token
  PROVE  /\ Append(seq, t) \in Seq(Token)
         /\ seq \o <<t>> = Append(seq, t)
         /\ \A i \in 1 .. Len(Append(seq, t)) :
              \/ i \in 1 .. Len(seq) /\ Append(seq, t)[i] = seq[i]
              \/ i = Len(seq) + 1 /\ Append(seq, t)[i] = t
<1>1. Append(seq, t) \in Seq(Token) /\ Len(Append(seq, t)) = Len(seq) + 1
  OBVIOUS
<1>2. seq \o <<t>> = Append(seq, t)
  BY AppendIsConcat
<1> QED  BY <1>1, <1>2

\* What is added to, or taken from, a sequence that belongs to the query.
LEMMA AppendAllOf ==
  ASSUME NEW seq \in Seq(Token), NEW t \in Token,
         \A i \in 1 .. Len(seq) : seq[i].of = s_query, t.of = s_query
  PROVE  \A i \in 1 .. Len(Append(seq, t)) : Append(seq, t)[i].of = s_query
BY AppendToken

LEMMA TailAllOf ==
  ASSUME NEW seq \in Seq(Token), seq # <<>>,
         \A i \in 1 .. Len(seq) : seq[i].of = s_query
  PROVE  /\ Head(seq).of = s_query
         /\ \A i \in 1 .. Len(Tail(seq)) : Tail(seq)[i].of = s_query
BY TailOfTokens

LEMMA FrameTokens ==
  ASSUME NEW q \in Query, NEW f \in Part, NEW b \in Part
  PROVE  /\ Frame(q, f, b) \in Seq(Token)
         /\ \A i \in 1 .. Len(Frame(q, f, b)) : Frame(q, f, b)[i].of = q
<1>1. /\ [part |-> "addr", of |-> q] \in Token
      /\ [part |-> f, of |-> q] \in Token
      /\ [part |-> b, of |-> q] \in Token
  BY DEF Token, Part
<1> QED  BY <1>1 DEF Frame

-----------------------------------------------------------------------------
LEMMA InitInv == Init => Inv
<1> SUFFICES ASSUME Init PROVE Inv
  OBVIOUS
<1>1. PICK s0 \in Slave : s0 = CHOOSE s \in Slave : TRUE
  BY ModbusAssumption
<1>2. NoCall \in [slave : Address, reg : Reg]
  BY <1>1, ModbusAssumption DEF NoCall, Address, Reg
<1>3. TypeInv
  BY <1>2 DEF Init, TypeInv
<1> QED
  BY <1>3, ModbusAssumption DEF Init, Inv, Locked, QueryIsAsked, Quiet, OnlyThisQuery,
     AnswersTheQuestion, AllOf, InGetData, Settled

-----------------------------------------------------------------------------
\* The steps of Modbus_GetData.

LEMMA OpenQuery ==
  ASSUME Inv, NEW c \in Caller, Open(c) \/ OpenBad(c)
  PROVE  s_query' \in Query /\ (asked[c].slave \in Slave => s_query' = asked[c])
<1> USE DEF Inv
<1>1. asked[c] \in [slave : Address, reg : Reg]
  BY DEF TypeInv
<1>2. CASE Open(c)
  BY <1>1, <1>2 DEF Open, Query
<1>3. CASE OpenBad(c)
  <2>1. s_query \in Query
    BY <1>3 DEF OpenBad, TypeInv
  <2> QED  BY <1>1, <1>3, <2>1, ModbusAssumption DEF OpenBad, Query
<1> QED  BY <1>2, <1>3

LEMMA MakeQueryInv ==
  ASSUME Inv, NEW c \in Caller, MakeQuery(c)
  PROVE  Inv'
<1> USE DEF Inv
<1>1. holder = NoOne /\ \A d \in Caller : ~ InGetData(d)
  BY ModbusAssumption DEF MakeQuery, Lock, Locked
<1>2. Settled /\ rxq = <<>> /\ s_answ = <<>>
  BY <1>1 DEF Quiet, InGetData
<1>3. s_query' \in Query /\ (asked[c].slave \in Slave => s_query' = asked[c])
  BY OpenQuery DEF MakeQuery
<1>4. TypeInv'
  BY <1>3 DEF TypeInv, MakeQuery, Lock, Goto, bus
<1>5. Locked' /\ QueryIsAsked'
  BY <1>1, <1>3, ModbusAssumption DEF MakeQuery, Lock, Goto, Locked, QueryIsAsked, InGetData,
     TypeInv, Query
<1>6. Quiet' /\ OnlyThisQuery'
  BY <1>2 DEF MakeQuery, Goto, Quiet, OnlyThisQuery, AllOf, Settled, bus, TypeInv
<1>7. AnswersTheQuestion'
  BY DEF MakeQuery, Goto, AnswersTheQuestion, TypeInv
<1> QED  BY <1>4, <1>5, <1>6, <1>7

LEMMA QueryErrorInv ==
  ASSUME Inv, NEW c \in Caller, QueryError(c)
  PROVE  Inv'
<1> USE DEF Inv
<1>1. holder = NoOne /\ \A d \in Caller : ~ InGetData(d)
  BY ModbusAssumption DEF QueryError, Locked
<1>2. Settled /\ rxq = <<>> /\ s_answ = <<>>
  BY <1>1 DEF Quiet, InGetData
<1>3. s_query' \in Query
  BY OpenQuery DEF QueryError
<1>4. TypeInv'
  BY <1>3 DEF TypeInv, QueryError, Exit, RxFlush, Goto
<1>5. \A d \in Caller : ~ InGetData(d)' /\ d # holder'
  BY <1>1, ModbusAssumption DEF QueryError, Exit, Goto, InGetData, TypeInv
<1>6. Locked' /\ QueryIsAsked'
  BY <1>5 DEF Locked, QueryIsAsked
<1>7. Quiet' /\ OnlyThisQuery'
  BY <1>2 DEF QueryError, Exit, RxFlush, Quiet, OnlyThisQuery, AllOf, Settled, TypeInv
<1>8. AnswersTheQuestion'
  BY DEF QueryError, Exit, Goto, AnswersTheQuestion, TypeInv
<1> QED  BY <1>4, <1>6, <1>7, <1>8

LEMMA TxDataInv ==
  ASSUME Inv, NEW c \in Caller, TxData(c)
  PROVE  Inv'
<1> USE DEF Inv
<1>1. s_query \in Query
  BY DEF TypeInv, QueryIsAsked, InGetData, TxData
<1>2. TypeInv'
  <2>1. heard' \in [Slave -> Query \cup {Silent}]
    BY <1>1 DEF TypeInv, TxData, Heard
  <2>2. line' \in Seq(Token) /\ pc' \in [Caller -> {"idle", "call", "send", "receive", "returned", "copy"}]
    BY DEF TypeInv, TxData, Goto
  <2> QED  BY <2>1, <2>2 DEF TypeInv, TxData, master
<1>3. Locked' /\ QueryIsAsked'
  BY DEF TxData, Goto, Locked, QueryIsAsked, InGetData, master, TypeInv
<1>4. Quiet'
  BY DEF TxData, Goto, Quiet, TypeInv
<1>5. OnlyThisQuery'
  BY <1>1 DEF TxData, Heard, OnlyThisQuery, AllOf, master, TypeInv
<1>6. AnswersTheQuestion'
  BY DEF TxData, Goto, AnswersTheQuestion, TypeInv
<1> QED  BY <1>2, <1>3, <1>4, <1>5, <1>6

LEMMA ReceiveMoreInv ==
  ASSUME Inv, NEW c \in Caller, ReceiveMore(c)
  PROVE  Inv'
<1> USE DEF Inv
<1>1. rxq \in Seq(Token) /\ rxq # <<>> /\ s_answ \in Seq(Token) /\ pc[c] = "receive"
  BY DEF TypeInv, ReceiveMore, Receives
<1>2. Head(rxq) \in Token /\ Tail(rxq) \in Seq(Token)
  BY <1>1, TailOfTokens
<1>3. Collect = Append(s_answ, Head(rxq)) /\ Collect \in Seq(Token)
  BY <1>1, <1>2, AppendToken DEF Collect
<1>4. TypeInv'
  BY <1>2, <1>3 DEF TypeInv, ReceiveMore, calls
<1>5. Head(rxq).of = s_query /\ AllOf(rxq)'
  BY <1>1, TailAllOf DEF OnlyThisQuery, AllOf, ReceiveMore
<1>6. AllOf(s_answ)'
  BY <1>1, <1>2, <1>3, <1>5, AppendAllOf DEF OnlyThisQuery, AllOf, ReceiveMore
<1>7. Locked' /\ QueryIsAsked' /\ Quiet' /\ AnswersTheQuestion'
  BY <1>1 DEF ReceiveMore, calls, Locked, QueryIsAsked, InGetData, Quiet, AnswersTheQuestion
<1>8. OnlyThisQuery'
  BY <1>5, <1>6 DEF OnlyThisQuery, AllOf, ReceiveMore, calls
<1> QED  BY <1>4, <1>7, <1>8

\* Whatever it returns, the exit leaves the master ready for the next caller.
LEMMA ExitInv ==
  ASSUME Inv, NEW c \in Caller, NEW e \in Query \cup {Failed},
         pc[c] = "receive", Settled,
         asked[c].slave \in Slave => e \in {asked[c], Failed},
         Exit(c, e), UNCHANGED <<asked, s_query, line, heard>>
  PROVE  Inv'
<1> USE DEF Inv
<1>1. TypeInv'
  BY DEF TypeInv, Exit, RxFlush, Goto
<1>2. holder = c /\ \A d \in Caller : d # c => ~ InGetData(d)
  BY DEF Locked, InGetData
<1>3. Locked' /\ QueryIsAsked'
  BY <1>2, ModbusAssumption DEF Exit, Goto, Locked, QueryIsAsked, InGetData, TypeInv
<1>4. Quiet' /\ OnlyThisQuery'
  BY DEF Exit, RxFlush, Quiet, OnlyThisQuery, AllOf, Settled
<1>5. AnswersTheQuestion'
  BY DEF Exit, Goto, AnswersTheQuestion, TypeInv
<1> QED  BY <1>1, <1>3, <1>4, <1>5

LEMMA GetDataInv ==
  ASSUME Quick, Inv, NEW c \in Caller, GetData(c)
  PROVE  Inv'
<1>1. CASE MakeQuery(c) \/ QueryError(c) \/ TxData(c) \/ ReceiveMore(c)
  BY <1>1, MakeQueryInv, QueryErrorInv, TxDataInv, ReceiveMoreInv
<1>2. CASE ReceiveError(c) \/ ProcessError(c)
  BY <1>2, ExitInv DEF ReceiveError, ProcessError, Receives
<1>3. CASE ProcessAnswer(c)
  <2>1. rxq \in Seq(Token) /\ rxq # <<>> /\ pc[c] = "receive"
    BY <1>3 DEF Inv, TypeInv, ProcessAnswer, Receives
  <2>2. Head(rxq) \in Token /\ Head(rxq).of = s_query
    BY <2>1, TailOfTokens, TailAllOf DEF Inv, OnlyThisQuery, AllOf
  <2>3. Head(rxq).of \in Query
    BY <2>2 DEF Token
  <2>4. asked[c].slave \in Slave => Head(rxq).of = asked[c]
    BY <2>1, <2>2 DEF Inv, QueryIsAsked, InGetData
  <2> QED
    BY <1>3, <2>1, <2>3, <2>4, ExitInv DEF ProcessAnswer, Receives
<1>4. CASE RxTimeout(c)
  BY <1>4, ExitInv DEF RxTimeout
<1> QED  BY <1>1, <1>2, <1>3, <1>4 DEF GetData

-----------------------------------------------------------------------------
\* The steps of the callers and of the line.

\* A caller goes on to the next register of its list, or forgets its question.
LEMMA CallerAsks ==
  ASSUME asked \in [Caller -> [slave : Address, reg : Reg]],
         NEW c \in Caller, DriverStep(c) \/ SingleDone(c) \/ Call(c)
  PROVE  \E a \in [slave : Address, reg : Reg] : asked' = [asked EXCEPT ![c] = a]
<1>1. asked[c] \in [slave : Address, reg : Reg] /\ asked = [asked EXCEPT ![c] = asked[c]]
  OBVIOUS
<1>2. NoCall \in [slave : Address, reg : Reg] /\ 1 \in Reg
  <2>1. PICK s0 \in Slave : s0 = CHOOSE s \in Slave : TRUE
    BY ModbusAssumption
  <2> QED  BY <2>1, ModbusAssumption DEF NoCall, Address, Reg
<1>3. CASE CopyOut(c) \/ SingleDone(c)
  BY <1>2, <1>3 DEF CopyOut, SingleDone, Return
<1>4. CASE RetryRegister(c) \/ GiveUp(c)
  BY <1>1, <1>4 DEF RetryRegister, GiveUp
<1>5. CASE NextRegister(c)
  <2>1. CASE UNCHANGED asked
    BY <1>1, <2>1
  <2>2. CASE asked' = [asked EXCEPT ![c].reg = @ + 1] /\ asked[c].reg < NREGS
    <3>1. asked[c].reg + 1 \in Reg
      BY <1>1, <2>2, ModbusAssumption DEF Reg
    <3> DEFINE a == [slave |-> asked[c].slave, reg |-> asked[c].reg + 1]
    <3>2. a \in [slave : Address, reg : Reg]
      BY <1>1, <3>1
    <3>3. [asked[c] EXCEPT !.reg = @ + 1] = a
      BY <1>1
    <3>4. asked' = [asked EXCEPT ![c] = a]
      BY <2>2, <3>3
    <3> QED  BY <3>2, <3>4
  <2> QED  BY <1>5, <2>1, <2>2 DEF NextRegister, More
<1>6. CASE Call(c)
  BY <1>2, <1>6, ModbusAssumption DEF Call, read_data, term_cmd_modbus
<1> QED  BY <1>3, <1>4, <1>5, <1>6 DEF DriverStep

\* Outside Modbus_GetData nothing the exchange depends on changes.
LEMMA CallerInv ==
  ASSUME Inv, NEW c \in Caller, DriverStep(c) \/ SingleDone(c) \/ Call(c)
  PROVE  Inv'
<1> USE DEF Inv
<1>1. UNCHANGED <<master, bus>>
  BY DEF DriverStep, SingleDone, Call, NextRegister, RetryRegister, GiveUp, CopyOut, Return,
     read_data, term_cmd_modbus
<1>2. PICK p \in {"idle", "call", "copy"} : pc' = [pc EXCEPT ![c] = p]
  BY DEF DriverStep, SingleDone, Call, NextRegister, RetryRegister, GiveUp, CopyOut, Return,
     read_data, term_cmd_modbus, Goto
<1>3. ~ InGetData(c)
  BY DEF DriverStep, SingleDone, Call, NextRegister, RetryRegister, GiveUp, CopyOut, Return,
     read_data, term_cmd_modbus, InGetData
<1>4. PICK a \in [slave : Address, reg : Reg] : asked' = [asked EXCEPT ![c] = a]
  BY CallerAsks DEF TypeInv
<1>5. err' \in [Caller -> Query \cup {Failed}] /\ \A d \in Caller : d # c => err'[d] = err[d]
  BY DEF DriverStep, SingleDone, Call, NextRegister, RetryRegister, GiveUp, CopyOut, Return,
     read_data, term_cmd_modbus, TypeInv
<1>6. TypeInv'
  BY <1>1, <1>2, <1>4, <1>5 DEF TypeInv, master, bus
<1>7. Locked' /\ QueryIsAsked'
  BY <1>1, <1>2, <1>3, <1>4 DEF Locked, QueryIsAsked, InGetData, TypeInv, master
<1>8. Quiet' /\ OnlyThisQuery'
  BY <1>1, <1>2, <1>3 DEF Quiet, OnlyThisQuery, AllOf, Settled, InGetData, TypeInv, master, bus
<1>9. AnswersTheQuestion'
  BY <1>2, <1>4, <1>5 DEF AnswersTheQuestion, TypeInv
<1> QED  BY <1>6, <1>7, <1>8, <1>9

LEMMA AnswerInv ==
  ASSUME Inv, NEW s \in Slave, Answer(s)
  PROVE  Inv'
<1> USE DEF Inv
<1>1. heard[s] \in Query /\ heard[s] = s_query
  BY DEF Answer, TypeInv, OnlyThisQuery
<1>2. line' \in Seq(Token) /\ AllOf(line)'
  <2>1. CASE UNCHANGED line
    BY <2>1 DEF Answer, master, TypeInv, OnlyThisQuery, AllOf
  <2>2. ASSUME NEW f \in Part, NEW b \in Part, line' = Frame(heard[s], f, b)
        PROVE  line' \in Seq(Token) /\ AllOf(line)'
    BY <1>1, <2>2, FrameTokens DEF Answer, master, AllOf
  <2> QED  BY <2>1, <2>2 DEF Answer, Part
<1>3. TypeInv'
  BY <1>2 DEF TypeInv, Answer, calls, master
<1>4. Locked' /\ QueryIsAsked' /\ AnswersTheQuestion'
  BY DEF Answer, calls, master, Locked, QueryIsAsked, InGetData, AnswersTheQuestion
<1>5. Quiet'
  BY DEF Answer, calls, master, Quiet, Settled
<1>6. OnlyThisQuery'
  BY <1>2 DEF Answer, calls, master, OnlyThisQuery, AllOf, TypeInv
<1> QED  BY <1>3, <1>4, <1>5, <1>6

LEMMA ArriveInv ==
  ASSUME Inv, Arrive
  PROVE  Inv'
<1> USE DEF Inv
<1>1. line \in Seq(Token) /\ line # <<>> /\ rxq \in Seq(Token)
  BY DEF Arrive, TypeInv
<1>2. Head(line) \in Token /\ Tail(line) \in Seq(Token)
  BY <1>1, TailOfTokens
<1>3. [Head(line) EXCEPT !.part = "noise"] \in Token
  BY <1>2 DEF Token, Part
<1>4. Head(line).of = s_query /\ [Head(line) EXCEPT !.part = "noise"].of = s_query /\ AllOf(line)'
  BY <1>1, <1>2, TailAllOf DEF OnlyThisQuery, AllOf, Arrive, master, Token
<1>5. rxq' \in Seq(Token) /\ AllOf(rxq)'
  <2>1. CASE UNCHANGED rxq
    BY <1>1, <2>1 DEF OnlyThisQuery, AllOf, Arrive, master
  <2>2. ASSUME NEW t \in Token, t.of = s_query, rxq' = Append(rxq, t)
        PROVE  rxq' \in Seq(Token) /\ AllOf(rxq)'
    <3>1. \A i \in 1 .. Len(rxq) : rxq[i].of = s_query
      BY DEF OnlyThisQuery, AllOf
    <3>2. rxq' \in Seq(Token)
      BY <1>1, <2>2, AppendToken
    <3> QED  BY <1>1, <2>2, <3>1, <3>2, AppendAllOf DEF AllOf, Arrive, master
  <2> QED  BY <1>2, <1>3, <1>4, <2>1, <2>2 DEF Arrive
<1>6. TypeInv'
  BY <1>2, <1>5 DEF TypeInv, Arrive, calls, master
<1>7. Locked' /\ QueryIsAsked' /\ AnswersTheQuestion'
  BY DEF Arrive, calls, master, Locked, QueryIsAsked, InGetData, AnswersTheQuestion
<1>8. Quiet'
  BY DEF Arrive, calls, master, Quiet, Settled
<1>9. OnlyThisQuery'
  BY <1>4, <1>5 DEF Arrive, calls, master, OnlyThisQuery, AllOf
<1> QED  BY <1>6, <1>7, <1>8, <1>9

LEMMA StepInv == Quick /\ Inv /\ [Next]_vars => Inv'
<1> SUFFICES ASSUME Quick, Inv, [Next]_vars PROVE Inv'
  OBVIOUS
<1>1. CASE Next
  BY <1>1, GetDataInv, CallerInv, AnswerInv, ArriveInv DEF Next
<1>2. CASE UNCHANGED vars
  BY <1>2 DEF vars, calls, master, bus, Inv, TypeInv, Locked, QueryIsAsked, Quiet, Settled,
     OnlyThisQuery, AllOf, AnswersTheQuestion, InGetData
<1> QED  BY <1>1, <1>2

LEMMA AlwaysInv ==
  ASSUME Quick
  PROVE  Spec => []Inv
BY InitInv, StepInv, PTL DEF Spec

\* With meters that answer within the first wait, a read delivers the register
\* it asked for or fails, whatever is damaged, lost or refused, and whoever
\* else uses the line.
THEOREM ReadsAreTrue ==
  ASSUME Quick
  PROVE  Spec => []AnswersTheQuestion
<1>1. Inv => AnswersTheQuestion
  BY DEF Inv
<1> QED  BY <1>1, AlwaysInv, PTL

-----------------------------------------------------------------------------
\* The register lists, when no two callers read the same kind of meter.

OwnKinds == \A c, d \in Caller : DeviceOf[c] = DeviceOf[d] => c = d

ListTypes ==
    /\ IRList \in [Device -> [Reg -> Query \cup {Zero}]]
    /\ retries \in [Caller -> Nat]
    /\ \A c \in Caller : pc[c] = "idle" => retries[c] = 0

\* The registers read so far are the meter's, the others zero.
ListSoFar(c) ==
    pc[c] \in {"call", "send", "receive", "returned"} /\ IsDriver(c)
      /\ asked[c].slave \in Slave =>
        \A r \in Reg :
          IRList[DeviceOf[c]][r] =
            IF \/ r < asked[c].reg
               \/ r = asked[c].reg /\ pc[c] = "returned" /\ err[c] # Failed
            THEN [slave |-> asked[c].slave, reg |-> r]
            ELSE Zero

\* EntryIsTheMeters, of one caller.
Entry(c) ==
    pc[c] = "copy" /\ asked[c].slave \in Slave =>
      \A r \in Reg :
        IRList[DeviceOf[c]][r] =
          IF \/ IsDriver(c)
             \/ r < asked[c].reg /\ DeviceOf[c] \notin Wiping
          THEN [slave |-> asked[c].slave, reg |-> r]
          ELSE Zero

ListInv == ListTypes /\ \A c \in Caller : ListSoFar(c) /\ Entry(c)

\* What the lists of caller d are judged by.
Untouched(d) ==
    /\ pc'[d] = pc[d] /\ asked'[d] = asked[d] /\ err'[d] = err[d]
    /\ retries'[d] = retries[d] /\ IRList'[DeviceOf[d]] = IRList[DeviceOf[d]]

LEMMA UntouchedInv ==
  ASSUME NEW d \in Caller, ListSoFar(d), Entry(d), Untouched(d)
  PROVE  ListSoFar(d)' /\ Entry(d)'
BY DEF ListSoFar, Entry, Untouched, IsDriver

CallerStep(c) == GetData(c) \/ DriverStep(c) \/ SingleDone(c) \/ Call(c)

LEMMA OthersUntouched ==
  ASSUME OwnKinds, Inv, ListInv, NEW c \in Caller, CallerStep(c), NEW d \in Caller, d # c
  PROVE  Untouched(d)
<1>1. DeviceOf[c] \in Device /\ DeviceOf[d] \in Device /\ DeviceOf[d] # DeviceOf[c]
  BY DEF OwnKinds, Device
<1> USE <1>1 DEF Untouched, Inv, TypeInv, ListInv, ListTypes, Goto
<1>2. CASE GetData(c)
  BY <1>2 DEF GetData, MakeQuery, QueryError, TxData, ReceiveMore, ReceiveError, ProcessError,
     ProcessAnswer, RxTimeout, Exit, calls
<1>3. CASE DriverStep(c) \/ SingleDone(c)
  BY <1>3 DEF DriverStep, SingleDone, NextRegister, RetryRegister, GiveUp, CopyOut, Return
<1>4. CASE Call(c)
  BY <1>4 DEF Call, read_data, term_cmd_modbus
<1> QED  BY <1>2, <1>3, <1>4 DEF CallerStep

LEMMA GetDataLists ==
  ASSUME Quick, Inv, ListInv, NEW c \in Caller, GetData(c)
  PROVE  ListTypes' /\ ListSoFar(c)' /\ Entry(c)'
<1>1. DeviceOf[c] \in Device
  BY DEF Device
<1> USE <1>1 DEF Inv, TypeInv, ListInv, ListTypes, Goto
<1>2. CASE MakeQuery(c) \/ TxData(c) \/ ReceiveMore(c)
  <2>1. UNCHANGED <<asked, retries, err, IRList>>
    BY <1>2 DEF MakeQuery, TxData, ReceiveMore, calls
  <2>2. /\ pc[c] \in {"call", "send", "receive"} /\ pc'[c] \in {"call", "send", "receive"}
        /\ \A d \in Caller : d # c => pc'[d] = pc[d]
    BY <1>2 DEF MakeQuery, TxData, ReceiveMore, Receives, calls
  <2> QED  BY <2>1, <2>2 DEF ListSoFar, Entry, IsDriver
<1>3. CASE QueryError(c) \/ ReceiveError(c) \/ ProcessError(c) \/ RxTimeout(c)
  <2>1. UNCHANGED <<asked, retries, IRList>> /\ pc[c] \in {"call", "receive"}
    BY <1>3 DEF QueryError, ReceiveError, ProcessError, RxTimeout, Receives
  <2>2. pc' = [pc EXCEPT ![c] = "returned"] /\ err' = [err EXCEPT ![c] = Failed]
    BY <1>3 DEF QueryError, ReceiveError, ProcessError, RxTimeout, Exit
  <2> QED  BY <2>1, <2>2 DEF ListSoFar, Entry, IsDriver
<1>4. CASE ProcessAnswer(c)
  <2>1. rxq \in Seq(Token) /\ rxq # <<>> /\ pc[c] = "receive"
    BY <1>4 DEF ProcessAnswer, Receives
  <2>2. Head(rxq) \in Token /\ Head(rxq).of = s_query
    BY <2>1, TailOfTokens, TailAllOf DEF OnlyThisQuery, AllOf
  <2> DEFINE q == Head(rxq).of
  <2>3. q \in Query /\ q # Failed
    BY <2>2, ModbusAssumption DEF Token
  <2>4. /\ UNCHANGED <<asked, retries>>
        /\ pc' = [pc EXCEPT ![c] = "returned"] /\ err' = [err EXCEPT ![c] = q]
        /\ IRList' = IF IsDriver(c) THEN [IRList EXCEPT ![DeviceOf[c]][asked[c].reg] = q]
                     ELSE IRList
    BY <1>4 DEF ProcessAnswer, Exit
  <2> HIDE DEF q
  <2>5. asked[c] \in [slave : Address, reg : Reg]
    OBVIOUS
  <2>6. ListTypes'
    BY <2>1, <2>3, <2>4, <2>5
  <2>7. CASE IsDriver(c) /\ asked[c].slave \in Slave
    <3>1. q = asked[c]
      BY <2>1, <2>2, <2>7 DEF q, QueryIsAsked, InGetData
    <3>2. q = [slave |-> asked[c].slave, reg |-> asked[c].reg]
      BY <3>1, <2>5
    <3>3. \A r \in Reg : IRList'[DeviceOf[c]][r] =
                          IF r = asked[c].reg THEN q ELSE IRList[DeviceOf[c]][r]
      BY <2>4, <2>5, <2>7
    <3>4. \A r \in Reg : IRList[DeviceOf[c]][r] =
            IF r < asked[c].reg THEN [slave |-> asked[c].slave, reg |-> r] ELSE Zero
      BY <2>1, <2>7 DEF ListSoFar
    <3>5. err'[c] # Failed /\ pc'[c] = "returned" /\ asked'[c] = asked[c]
      BY <2>3, <2>4
    <3>6. ListSoFar(c)'
      <4> SUFFICES ASSUME NEW r \in Reg
                   PROVE  IRList'[DeviceOf[c]][r] =
                            IF r < asked[c].reg \/ r = asked[c].reg
                            THEN [slave |-> asked[c].slave, reg |-> r] ELSE Zero
        BY <3>5 DEF ListSoFar
      <4>1. CASE r = asked[c].reg
        BY <4>1, <3>2, <3>3
      <4>2. CASE r # asked[c].reg
        BY <4>2, <3>3, <3>4
      <4> QED  BY <4>1, <4>2
    <3> QED  BY <2>6, <3>5, <3>6 DEF Entry
  <2>8. CASE ~ (IsDriver(c) /\ asked[c].slave \in Slave)
    BY <2>1, <2>4, <2>6, <2>8 DEF ListSoFar, Entry, IsDriver
  <2> QED  BY <2>7, <2>8
<1> QED  BY <1>2, <1>3, <1>4 DEF GetData

LEMMA CallerLists ==
  ASSUME Inv, ListInv, NEW c \in Caller, DriverStep(c) \/ SingleDone(c) \/ Call(c)
  PROVE  ListTypes' /\ ListSoFar(c)' /\ Entry(c)'
<1>1. DeviceOf[c] \in Device /\ NREGS \in Nat \ {0}
  BY ModbusAssumption DEF Device
<1> USE <1>1 DEF Inv, TypeInv, ListInv, ListTypes, Goto
<1>2. CASE SingleDone(c) \/ CopyOut(c)
  <2>1. pc' = [pc EXCEPT ![c] = "idle"] /\ retries' = [retries EXCEPT ![c] = 0] /\ UNCHANGED IRList
    BY <1>2 DEF SingleDone, CopyOut, Return
  <2>2. ListTypes'
    BY <2>1
  <2> QED  BY <2>1, <2>2 DEF ListSoFar, Entry
<1>3. CASE NextRegister(c)
  <2>1. asked[c] \in [slave : Address, reg : Reg] /\ Reg \subseteq Nat
    BY DEF Reg
  <2>2. UNCHANGED <<retries, err, IRList>> /\ IsDriver(c) /\ err[c] # Failed /\ pc[c] = "returned"
    BY <1>3 DEF NextRegister
  <2>3. CASE asked[c].reg < NREGS
    <3>1. pc' = [pc EXCEPT ![c] = "call"] /\ asked' = [asked EXCEPT ![c].reg = @ + 1]
      BY <1>3, <2>3 DEF NextRegister, More
    <3>2. asked'[c].slave = asked[c].slave /\ asked'[c].reg = asked[c].reg + 1
      BY <2>1, <3>1
    <3>3. ListTypes' /\ Entry(c)'
      BY <2>2, <3>1 DEF Entry
    <3>4. ListSoFar(c)'
      <4> SUFFICES ASSUME asked[c].slave \in Slave, NEW r \in Reg
                   PROVE  IRList[DeviceOf[c]][r] =
                            IF r < asked[c].reg + 1
                            THEN [slave |-> asked[c].slave, reg |-> r] ELSE Zero
        BY <2>2, <3>1, <3>2 DEF ListSoFar
      <4>1. IRList[DeviceOf[c]][r] =
              IF r < asked[c].reg \/ r = asked[c].reg
              THEN [slave |-> asked[c].slave, reg |-> r] ELSE Zero
        BY <2>2 DEF ListSoFar
      <4>2. \A m, n \in Nat : m < n + 1 <=> m < n \/ m = n
        OBVIOUS
      <4>3. r \in Nat /\ asked[c].reg \in Nat
        BY <2>1
      <4> QED  BY <4>1, <4>2, <4>3
    <3> QED  BY <3>3, <3>4
  <2>4. CASE ~ (asked[c].reg < NREGS)
    <3>1. pc' = [pc EXCEPT ![c] = "copy"] /\ UNCHANGED asked
      BY <1>3, <2>4 DEF NextRegister, More
    <3>2. \A r \in Reg : r < asked[c].reg \/ r = asked[c].reg
      BY <2>1, <2>4 DEF Reg
    <3> QED  BY <2>2, <3>1, <3>2 DEF ListSoFar, Entry, IsDriver
  <2> QED  BY <2>3, <2>4
<1>4. CASE RetryRegister(c)
  BY <1>4 DEF RetryRegister, LessOne, ListSoFar, Entry, IsDriver
<1>5. CASE GiveUp(c)
  <2>1. UNCHANGED <<asked, err>> /\ IsDriver(c) /\ err[c] = Failed /\ pc[c] = "returned"
    BY <1>5 DEF GiveUp
  <2>2. pc' = [pc EXCEPT ![c] = "copy"] /\ retries' = [retries EXCEPT ![c] = 0]
    BY <1>5 DEF GiveUp
  <2>3. CASE DeviceOf[c] \in Wiping
    <3>1. IRList' = [IRList EXCEPT ![DeviceOf[c]] = [r \in Reg |-> Zero]]
      BY <1>5, <2>3 DEF GiveUp
    <3> QED  BY <2>1, <2>2, <2>3, <3>1 DEF ListSoFar, Entry, IsDriver
  <2>4. CASE DeviceOf[c] \notin Wiping
    <3>1. UNCHANGED IRList
      BY <1>5, <2>4 DEF GiveUp
    <3> QED  BY <2>1, <2>2, <2>4, <3>1 DEF ListSoFar, Entry, IsDriver
  <2> QED  BY <2>3, <2>4
<1>6. CASE Call(c)
  <2>1. PICK s \in AddressesOf[c] :
          read_data(c, s) \/ \E r \in Reg : term_cmd_modbus(c, s, r)
    BY <1>6 DEF Call
  <2>2. CASE read_data(c, s)
    <3>1. /\ pc' = [pc EXCEPT ![c] = "call"]
          /\ asked' = [asked EXCEPT ![c] = [slave |-> s, reg |-> 1]]
          /\ retries' = [retries EXCEPT ![c] = 2 * NREGS]
          /\ IRList' = [IRList EXCEPT ![DeviceOf[c]] = [r \in Reg |-> Zero]]
      BY <2>2 DEF read_data
    <3>2. \A r \in Reg : ~ (r < 1)
      BY DEF Reg
    <3>3. ListTypes' /\ Entry(c)'
      BY <3>1 DEF Entry
    <3> QED  BY <3>1, <3>2, <3>3 DEF ListSoFar
  <2>3. CASE \E r \in Reg : term_cmd_modbus(c, s, r)
    BY <2>3 DEF term_cmd_modbus, ListSoFar, Entry, IsDriver
  <2> QED  BY <2>1, <2>2, <2>3
<1> QED  BY <1>2, <1>3, <1>4, <1>5, <1>6 DEF DriverStep

LEMMA ListInitInv == Init => ListInv
BY DEF Init, ListInv, ListTypes, ListSoFar, Entry

LEMMA ListStepInv == Quick /\ OwnKinds /\ Inv /\ ListInv /\ [Next]_vars => ListInv'
<1> SUFFICES ASSUME Quick, OwnKinds, Inv, ListInv, [Next]_vars PROVE ListInv'
  OBVIOUS
<1>1. ASSUME NEW c \in Caller, CallerStep(c) PROVE ListInv'
  <2>1. ListTypes' /\ ListSoFar(c)' /\ Entry(c)'
    BY <1>1, GetDataLists, CallerLists DEF CallerStep
  <2>2. ASSUME NEW d \in Caller, d # c PROVE ListSoFar(d)' /\ Entry(d)'
    <3>1. Untouched(d)
      BY <1>1, <2>2, OthersUntouched
    <3> QED  BY <3>1, UntouchedInv DEF ListInv
  <2> QED  BY <2>1, <2>2 DEF ListInv
<1>2. CASE UNCHANGED calls
  BY <1>2 DEF calls, ListInv, ListTypes, ListSoFar, Entry, IsDriver
<1>3. ((\E s \in Slave : Answer(s)) \/ Arrive \/ UNCHANGED vars) => UNCHANGED calls
  BY DEF Answer, Arrive, vars
<1> QED  BY <1>1, <1>2, <1>3 DEF Next, CallerStep

\* Under the same assumption, and when no two callers read the same kind of
\* meter, an entry is the meter's registers up to the one the driver gave up on.
THEOREM EntriesAreTrue ==
  ASSUME Quick, OwnKinds
  PROVE  Spec => []EntryIsTheMeters
<1>1. ListInv => EntryIsTheMeters
  BY DEF ListInv, Entry, EntryIsTheMeters
<1> QED  BY <1>1, ListInitInv, ListStepInv, AlwaysInv, PTL DEF Spec

-----------------------------------------------------------------------------
\* Type correctness, whether the meters are quick or not.

\* A query is set before it is sent.
TypedInv ==
    /\ ModbusTypeOK
    /\ \A c \in Caller : InGetData(c) => s_query # Silent

LEMMA CollectToken ==
  ASSUME ModbusTypeOK, rxq # <<>>
  PROVE  /\ Head(rxq) \in Token /\ Head(rxq).of \in Query /\ Tail(rxq) \in Seq(Token)
         /\ Collect \in Seq(Token) /\ Len(Collect) = Len(s_answ) + 1
<1>1. rxq \in Seq(Token) /\ s_answ \in Seq(Token)
  BY DEF ModbusTypeOK
<1>2. Head(rxq) \in Token /\ Tail(rxq) \in Seq(Token)
  BY <1>1, TailOfTokens
<1>3. Collect = Append(s_answ, Head(rxq)) /\ Collect \in Seq(Token)
  BY <1>1, <1>2, AppendToken DEF Collect
<1> QED  BY <1>1, <1>2, <1>3 DEF Token

LEMMA GetDataTyped ==
  ASSUME TypedInv, NEW c \in Caller, GetData(c)
  PROVE  TypedInv'
<1> USE DEF TypedInv, ModbusTypeOK, Goto, InGetData
<1>0. ModbusTypeOK
  OBVIOUS
<1>1. CASE MakeQuery(c) \/ QueryError(c)
  <2>1. s_query' \in Query
    <3>1. asked[c] \in [slave : Address, reg : Reg]
      OBVIOUS
    <3>2. CASE Open(c)
      BY <3>1, <3>2 DEF Open, Query
    <3>3. CASE OpenBad(c)
      BY <3>1, <3>3 DEF OpenBad, Query
    <3> QED  BY <1>1, <3>2, <3>3 DEF MakeQuery, QueryError
  <2>2. s_query' # Silent
    BY <2>1, ModbusAssumption
  <2>3. CASE MakeQuery(c)
    BY <2>1, <2>2, <2>3 DEF MakeQuery, Lock, bus
  <2>4. CASE QueryError(c)
    BY <2>1, <2>2, <2>4 DEF QueryError, Exit, RxFlush
  <2> QED  BY <1>1, <2>3, <2>4
<1>2. CASE TxData(c)
  <2>1. s_query \in Query
    BY <1>2 DEF TxData
  <2>2. heard' \in [Slave -> Query \cup {Silent}]
    BY <1>2, <2>1 DEF TxData, Heard
  <2> QED  BY <1>2, <2>2 DEF TxData, master
<1>3. CASE ReceiveMore(c)
  <2>1. s_answ \in Seq(Token) /\ (s_answ = <<>> \/ Len(s_answ) = 1)
    BY <1>3 DEF ReceiveMore
  <2>2. Len(s_answ) = 0 \/ Len(s_answ) = 1
    BY <2>1
  <2>3. rxq' \in Seq(Token) /\ s_answ' \in Seq(Token) /\ Len(s_answ') = Len(s_answ) + 1
    BY <1>0, <1>3, CollectToken DEF ReceiveMore, Receives
  <2>4. Len(s_answ') <= 3
    <3>1. PICK m \in Nat, n \in Nat : m = Len(s_answ) /\ n = Len(s_answ')
      BY <2>1, <2>3
    <3>2. n = m + 1 /\ (m = 0 \/ m = 1)
      BY <2>2, <2>3, <3>1
    <3>3. n <= 3
      BY ONLY <3>2, m \in Nat, n \in Nat
    <3> QED  BY <3>1, <3>3
  <2>5. UNCHANGED <<pc, asked, retries, err, IRList, holder, s_query, line, heard>>
    BY <1>3 DEF ReceiveMore, calls
  <2> QED  BY <2>3, <2>4, <2>5
\* Every way out leaves both sequences empty.
<1>4. ASSUME NEW e \in Query \cup {Failed}, Exit(c, e),
             UNCHANGED <<asked, retries, s_query, line, heard>>,
             IRList' \in [Device -> [Reg -> Query \cup {Zero}]]
      PROVE  TypedInv'
  BY <1>4 DEF Exit, RxFlush
<1>5. CASE ReceiveError(c) \/ ProcessError(c) \/ RxTimeout(c)
  BY <1>4, <1>5 DEF ReceiveError, ProcessError, RxTimeout
<1>6. CASE ProcessAnswer(c)
  <2>1. Head(rxq).of \in Query
    BY <1>0, <1>6, CollectToken DEF ProcessAnswer, Receives
  <2>2. PICK q \in Query : q = Head(rxq).of
    BY <2>1
  <2>3. IRList' \in [Device -> [Reg -> Query \cup {Zero}]]
    <3>1. /\ DeviceOf[c] \in Device /\ asked[c].reg \in Reg
          /\ IRList' = IF IsDriver(c)
                       THEN [IRList EXCEPT ![DeviceOf[c]][asked[c].reg] = q] ELSE IRList
      BY <1>6, <2>2 DEF ProcessAnswer, Device
    <3> QED  BY <3>1
  <2> QED  BY <1>4, <1>6, <2>2, <2>3 DEF ProcessAnswer
<1> QED  BY <1>1, <1>2, <1>3, <1>5, <1>6 DEF GetData

LEMMA CallerTyped ==
  ASSUME TypedInv, NEW c \in Caller, DriverStep(c) \/ SingleDone(c) \/ Call(c)
  PROVE  TypedInv'
<1> USE ModbusAssumption
<1>0. /\ NREGS \in Nat \ {0} /\ 2 * NREGS \in Nat /\ DeviceOf[c] \in Device
      /\ retries[c] \in 0 .. 2 * NREGS
  BY DEF Device, TypedInv, ModbusTypeOK
<1>1. UNCHANGED <<master, bus>>
  BY DEF DriverStep, SingleDone, Call, NextRegister, RetryRegister, GiveUp, CopyOut, Return,
     read_data, term_cmd_modbus
<1>2. PICK p \in {"idle", "call", "copy"} : pc' = [pc EXCEPT ![c] = p]
  BY DEF DriverStep, SingleDone, Call, NextRegister, RetryRegister, GiveUp, CopyOut, Return,
     read_data, term_cmd_modbus, Goto
<1>3. asked' \in [Caller -> [slave : Address, reg : Reg]]
  BY CallerAsks DEF TypedInv, ModbusTypeOK
<1>4. err' \in [Caller -> Query \cup {Failed}]
  BY DEF DriverStep, SingleDone, Call, NextRegister, RetryRegister, GiveUp, CopyOut, Return,
     read_data, term_cmd_modbus, TypedInv, ModbusTypeOK
<1>5. retries' \in [Caller -> 0 .. 2 * NREGS]
  <2> DEFINE n == retries[c] - 1
  <2>1. 0 \in 0 .. 2 * NREGS /\ 2 * NREGS \in 0 .. 2 * NREGS
    BY <1>0
  <2>2. retries[c] > 1 => n \in 0 .. 2 * NREGS
    BY <1>0
  <2>3. \/ retries' = [retries EXCEPT ![c] = 0]
        \/ retries' = [retries EXCEPT ![c] = 2 * NREGS]
        \/ retries[c] > 1 /\ retries' = [retries EXCEPT ![c] = n]
        \/ UNCHANGED retries
    BY DEF DriverStep, SingleDone, Call, NextRegister, RetryRegister, LessOne, GiveUp,
       CopyOut, Return, read_data, term_cmd_modbus
  <2> HIDE DEF n
  <2> QED  BY <2>1, <2>2, <2>3 DEF TypedInv, ModbusTypeOK
<1>6. IRList' \in [Device -> [Reg -> Query \cup {Zero}]]
  <2> DEFINE zeros == [r \in Reg |-> Zero]
  <2>1. zeros \in [Reg -> Query \cup {Zero}]
    OBVIOUS
  <2>2. IRList' = [IRList EXCEPT ![DeviceOf[c]] = zeros] \/ UNCHANGED IRList
    BY DEF DriverStep, SingleDone, Call, NextRegister, RetryRegister, GiveUp, CopyOut, Return,
       read_data, term_cmd_modbus
  <2> HIDE DEF zeros
  <2> QED  BY <1>0, <2>1, <2>2 DEF TypedInv, ModbusTypeOK
<1> QED
  BY <1>1, <1>2, <1>3, <1>4, <1>5, <1>6 DEF TypedInv, ModbusTypeOK, InGetData, master, bus

LEMMA LineTyped ==
  ASSUME TypedInv, (\E s \in Slave : Answer(s)) \/ Arrive
  PROVE  TypedInv'
<1> USE DEF TypedInv, ModbusTypeOK, InGetData
<1>1. ASSUME NEW s \in Slave, Answer(s) PROVE TypedInv'
  <2>1. heard[s] \in Query
    BY <1>1 DEF Answer
  <2>2. ASSUME NEW f \in Part, NEW b \in Part, line' = Frame(heard[s], f, b)
        PROVE  line' \in Seq(Token) /\ Len(line') <= 3
    BY <2>1, <2>2, FrameTokens DEF Frame
  <2>3. line' \in Seq(Token) /\ Len(line') <= 3
    BY <1>1, <2>2 DEF Answer, Part
  <2> QED  BY <1>1, <2>3 DEF Answer, calls, master
<1>2. CASE Arrive
  <2>1. line \in Seq(Token) /\ line # <<>> /\ rxq \in Seq(Token)
    BY <1>2 DEF Arrive
  <2>2. Head(line) \in Token /\ Tail(line) \in Seq(Token) /\ Len(Tail(line)) = Len(line) - 1
    BY <2>1, TailOfTokens
  <2>3. [Head(line) EXCEPT !.part = "noise"] \in Token
    <3> HIDE DEF TypedInv, ModbusTypeOK, InGetData
    <3> QED  BY <2>2 DEF Token, Part
  <2>4. rxq' \in Seq(Token)
    <3>1. \A t \in Token : Append(rxq, t) \in Seq(Token)
      BY <2>1, AppendToken
    <3> QED  BY <1>2, <2>1, <2>2, <2>3, <3>1 DEF Arrive
  <2>5. line' \in Seq(Token) /\ Len(line') <= 3
    BY <1>2, <2>1, <2>2 DEF Arrive
  <2> QED  BY <1>2, <2>4, <2>5 DEF Arrive, calls, master
<1> QED  BY <1>1, <1>2

\* Every variable keeps its type, however late or damaged the answers: a driver's
\* failures and registers stay in range, the copy into its static list never
\* passes the end, and no more than an answer is on the line or collected.
THEOREM ModbusTypeCorrect == Spec => []ModbusTypeOK
<1>1. Init => TypedInv
  <2> SUFFICES ASSUME Init PROVE TypedInv
    OBVIOUS
  <2>1. TypeInv
    BY InitInv DEF Inv
  <2>2. 0 \in 0 .. 2 * NREGS
    BY ModbusAssumption
  <2> QED  BY <2>1, <2>2 DEF Init, TypeInv, TypedInv, ModbusTypeOK, InGetData
<1>2. TypedInv /\ [Next]_vars => TypedInv'
  <2>1. TypedInv /\ Next => TypedInv'
    BY GetDataTyped, CallerTyped, LineTyped DEF Next
  <2>2. TypedInv /\ UNCHANGED vars => TypedInv'
    BY DEF vars, calls, master, bus, TypedInv, ModbusTypeOK, InGetData
  <2> QED  BY <2>1, <2>2
<1>3. TypedInv => ModbusTypeOK
  BY DEF TypedInv
<1> QED  BY <1>1, <1>2, <1>3, PTL DEF Spec
=============================================================================
