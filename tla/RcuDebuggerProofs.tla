------------------------- MODULE RcuDebuggerProofs --------------------------
(***************************************************************************)
(* Proofs about the RCU debugger: about its log of messages, and about what *)
(* it says of pointers.                                                     *)
(***************************************************************************)
EXTENDS RcuDebugger, Induction, FiniteSetTheorems, TLAPS

-----------------------------------------------------------------------------
(* The message log.  Until a report ends, the offsets that threads take are     *)
(* different, and a message that is ready is never written to again.       *)

\* What is in a slot of the log.
Message == [id : 0 .. MaxLogged, a : 0 .. MaxLogged, b : 0 .. MaxLogged]

WriterType == [pc : {"idle", "claim", "a", "b", "id"}, n : 0 .. MaxLogged, index : Nat]
ReaderType == [pc : {"wait", "next", "id", "copy", "print"}, i : Nat, end : Nat, id : Nat,
               cont : [id : Nat, a : Nat, b : Nat]]

WriterTypes ==
    /\ NEXT_LOG_OFFSET \in Nat
    /\ MESSAGES \in [Slots -> Message]
    /\ writer \in [Threads -> WriterType]
    /\ \A t \in Threads : writer[t].pc # "idle" => writer[t].index \in Slots /\ writer[t].n # NotReady
    /\ logged \in 0 .. MaxLogged

ReaderTypes ==
    /\ reader \in ReaderType
    /\ reports \in Nat /\ printed.report \in 0 .. reports
    /\ reports = 0 => reader.pc = "wait"

\* No report has ended yet: no slot was used twice.
FirstReport == reports = 0 \/ (reports = 1 /\ reader.pc # "wait")

\* A message with its own arguments.
Complete(m) == m.id = m.a /\ m.a = m.b /\ m.id # NotReady


\* What the slot of a thread that is logging holds: its message up to where the thread
\* is, which is not ready, in a slot of its own.
Partial(t) ==
    LET w == writer[t]
        m == MESSAGES[w.index]
    IN  /\ w.index < NEXT_LOG_OFFSET
        /\ m.id = NotReady
        /\ w.pc \in {"b", "id"} => m.a = w.n
        /\ w.pc = "id" => m.b = w.n
        /\ \A u \in Threads \ {t} : writer[u].pc # "idle" => writer[u].index # w.index

\* What the report has read of a slot is still there.
Reading ==
    reader.i \in Slots =>
        /\ reader.pc \in {"id", "copy", "print"} => MESSAGES[reader.i].id # NotReady
        /\ reader.pc \in {"copy", "print"} => reader.id = MESSAGES[reader.i].id
        /\ reader.pc = "print" => reader.cont = MESSAGES[reader.i]

\* A message that is ready is complete, and slots that were not taken are empty.
SlotsInv ==
    /\ \A t \in Threads : writer[t].pc # "idle" => Partial(t)
    /\ \A i \in Slots : MESSAGES[i].id # NotReady => Complete(MESSAGES[i])
    /\ \A i \in Slots : i >= NEXT_LOG_OFFSET => MESSAGES[i].id = NotReady

\* The inductive invariant.
LogInv ==
    /\ WriterTypes /\ ReaderTypes
    /\ FirstReport => SlotsInv /\ Reading
    /\ FirstReportIsConsistent

\* What report reads is a message, in the array and beyond it.
LEMMA ReadType ==
  ASSUME LogOK, WriterTypes, NEW i \in Nat
  PROVE  \A m \in Read(i) : m \in [id : Nat, a : Nat, b : Nat]
  BY DEF LogOK, WriterTypes, Read, Message, Empty, NotReady, Slots

\* What each of the stores of log changes.
LEMMA Written ==
  ASSUME NEW t \in Threads, WriteMessage(t)
  PROVE  LET i == writer[t].index
             n == writer[t].n
             m == MESSAGES[i]
             Then(pc, v) == writer' = [writer EXCEPT ![t].pc = pc] /\ MESSAGES' = [MESSAGES EXCEPT ![i] = v]
         IN  \/ writer[t].pc = "claim" /\ Then("a", [m EXCEPT !.id = NotReady])
             \/ writer[t].pc = "a" /\ Then("b", [m EXCEPT !.a = n])
             \/ writer[t].pc = "b" /\ Then("id", [m EXCEPT !.b = n])
             \/ writer[t].pc = "id" /\ Then("idle", [m EXCEPT !.id = n])
  BY Zenon DEF WriteMessage

\* log claims slots of the array only.
LEMMA WriterTypesStep ==
  ASSUME LogOK, WriterTypes, [LogNext]_logVars
  PROVE  WriterTypes'
  <1> USE DEF LogOK, Slots, NotReady
  <1>1. ASSUME NEW t \in Threads, TakeOffset(t) PROVE WriterTypes'
    BY <1>1 DEF TakeOffset, WriterTypes, WriterType
  <1>2. ASSUME NEW t \in Threads, WriteMessage(t) PROVE WriterTypes'
    <2>1. writer[t] \in WriterType
      BY Zenon DEF WriterTypes
    <2>2. writer[t].pc # "idle"
      BY Zenon, <1>2, Written
    <2> DEFINE i == writer[t].index
               n == writer[t].n
               m == MESSAGES[i]
    <2>3. m \in Message /\ n \in 0 .. MaxLogged
      BY Zenon, <2>1, <2>2 DEF WriterTypes, WriterType
    <2>4. PICK v, pc : /\ MESSAGES' = [MESSAGES EXCEPT ![i] = v]
                       /\ writer' = [writer EXCEPT ![t].pc = pc]
                       /\ pc \in {"a", "b", "id", "idle"}
                       /\ v \in {[m EXCEPT !.id = NotReady], [m EXCEPT !.a = n], [m EXCEPT !.b = n],
                                  [m EXCEPT !.id = n]}
      BY Zenon, <1>2, Written
    <2> HIDE DEF m, n
    <2>5. v \in Message
      BY <2>3, <2>4 DEF Message
    <2>6. MESSAGES' \in [Slots -> Message]
      BY Zenon, <2>4, <2>5 DEF WriterTypes
    <2>7. /\ writer' \in [Threads -> WriterType]
          /\ \A u \in Threads : writer'[u].index = writer[u].index /\ writer'[u].n = writer[u].n
                                  /\ (writer'[u].pc # "idle" => writer[u].pc # "idle")
      BY Zenon, <2>1, <2>2, <2>4 DEF WriterTypes, WriterType
    <2> QED BY Zenon, <1>2, <2>6, <2>7 DEF WriteMessage, WriterTypes
  <1>3. CASE report
    <2>1. MESSAGES' = MESSAGES /\ writer' = writer /\ logged' = logged /\ NEXT_LOG_OFFSET' \in {NEXT_LOG_OFFSET, 0}
      BY <1>3, Zenon DEF report, StartReport, LookAtMessage, ReadId, CopyMessage, PrintMessage, EndReport
    <2> QED BY <2>1 DEF WriterTypes
  <1>9. CASE UNCHANGED logVars
    BY Zenon, <1>9 DEF logVars, WriterTypes
  <1> QED BY Zenon, <1>1, <1>2, <1>3, <1>9 DEF LogNext

\* report keeps its own state well-typed.
LEMMA ReaderTypesStep ==
  ASSUME LogOK, WriterTypes, ReaderTypes, [LogNext]_logVars
  PROVE  ReaderTypes'
  <1>0. reader \in ReaderType /\ \A m \in Read(reader.i) : m \in [id : Nat, a : Nat, b : Nat]
    BY Zenon, ReadType DEF ReaderTypes, ReaderType
  <1>1. ASSUME NEW t \in Threads, TakeOffset(t) \/ WriteMessage(t) PROVE ReaderTypes'
    BY Zenon, <1>1 DEF TakeOffset, WriteMessage, ReaderTypes
  <1>3. CASE StartReport
    <2>1. (IF MAX_NUM_MESSAGES > NEXT_LOG_OFFSET THEN MAX_NUM_MESSAGES ELSE NEXT_LOG_OFFSET) \in Nat
      BY Zenon DEF LogOK, WriterTypes
    <2>2. reader' \in ReaderType
      BY Zenon, <1>3, <2>1 DEF StartReport, Waiting, Empty, NotReady, ReaderType
    <2> QED BY <1>3, <2>2 DEF StartReport, ReaderTypes
  <1>4. CASE LookAtMessage
    <2>1. reader' \in ReaderType
      BY <1>0, <1>4 DEF LookAtMessage, ReaderType
    <2> QED BY Zenon, <1>4, <2>1 DEF LookAtMessage, ReaderTypes
  <1>5. CASE ReadId
    <2>1. reader' \in ReaderType
      BY Zenon, <1>0, <1>5 DEF ReadId, ReaderType
    <2> QED BY Zenon, <1>5, <2>1 DEF ReadId, ReaderTypes
  <1>6. CASE CopyMessage
    <2>1. reader' \in ReaderType
      BY Zenon, <1>0, <1>6 DEF CopyMessage, ReaderType
    <2> QED BY Zenon, <1>6, <2>1 DEF CopyMessage, ReaderTypes
  <1>7. CASE PrintMessage
    <2>1. reader' \in ReaderType
      <3>1. reader' = [reader EXCEPT !.pc = "next", !.i = @ + 1]
        BY Zenon, <1>7 DEF PrintMessage
      <3>2. reader \in ReaderType
        BY Zenon, <1>0
      <3> DEFINE r == [reader EXCEPT !.pc = "next"]
      <3>3. r \in ReaderType /\ r.i = reader.i
        BY Zenon, <3>2 DEF ReaderType
      <3>4. reader' = [r EXCEPT !.i = r.i + 1]
        BY Zenon, <3>1, <3>3
      <3> HIDE DEF r
      <3> QED BY <3>3, <3>4 DEF ReaderType
    <2> QED BY <1>7, <2>1 DEF PrintMessage, ReaderTypes
  <1>8. CASE EndReport
    <2>1. reader' \in ReaderType
      BY Zenon, <1>8 DEF EndReport, Waiting, Empty, NotReady, ReaderType
    <2> QED BY Zenon, <1>8, <2>1 DEF EndReport, ReaderTypes, Waiting
  <1>9. CASE UNCHANGED logVars
    BY Zenon, <1>9 DEF logVars, ReaderTypes
  <1> QED BY Zenon, <1>1, <1>3, <1>4, <1>5, <1>6, <1>7, <1>8, <1>9 DEF LogNext, report

\* Before the first report ends, log writes to slots that no other thread writes to, and
\* to none that is ready.
LEMMA SlotsStep ==
  ASSUME LogOK, WriterTypes, SlotsInv, NEW t \in Threads, TakeOffset(t) \/ WriteMessage(t)
  PROVE  /\ SlotsInv'
         /\ \A i \in Slots : MESSAGES[i].id # NotReady => MESSAGES'[i] = MESSAGES[i]
  <1>1. CASE TakeOffset(t)
    <2>1. CASE NEXT_LOG_OFFSET >= MAX_NUM_MESSAGES
      BY <1>1, <2>1 DEF TakeOffset, LogOK, WriterTypes, SlotsInv, Partial, Slots
    <2>2. CASE ~(NEXT_LOG_OFFSET >= MAX_NUM_MESSAGES)
      <3>1. /\ writer' = [writer EXCEPT ![t] = [pc |-> "claim", n |-> logged + 1, index |-> NEXT_LOG_OFFSET]]
            /\ MESSAGES' = MESSAGES /\ NEXT_LOG_OFFSET' = NEXT_LOG_OFFSET + 1 /\ NEXT_LOG_OFFSET \in Slots
        BY <1>1, <2>2 DEF TakeOffset, LogOK, WriterTypes, Slots
      <3>2. \A u \in Threads : writer'[u] = IF u = t THEN [pc |-> "claim", n |-> logged + 1, index |-> NEXT_LOG_OFFSET]
                                             ELSE writer[u]
        BY Zenon, <3>1 DEF WriterTypes
      <3>3. \A u \in Threads : writer'[u].pc # "idle" => Partial(u)'
        BY <3>1, <3>2 DEF SlotsInv, Partial, WriterTypes, Slots, LogOK
      <3> QED BY <3>1, <3>3 DEF SlotsInv, Slots, WriterTypes, LogOK
    <2> QED BY Zenon, <2>1, <2>2
  <1>2. CASE WriteMessage(t)
    <2> DEFINE i == writer[t].index
               n == writer[t].n
               m == MESSAGES[i]
    <2>1. writer[t].pc # "idle" /\ writer[t] \in WriterType
      BY Zenon, <1>2, Written DEF WriterTypes
    <2>2. m \in Message /\ n \in 0 .. MaxLogged /\ n # NotReady /\ i \in Slots /\ Partial(t)
      BY Zenon, <2>1 DEF WriterTypes, WriterType, SlotsInv
    <2>3. NEXT_LOG_OFFSET' = NEXT_LOG_OFFSET
      BY Zenon, <1>2 DEF WriteMessage
    <2>4. PICK v, pc : /\ MESSAGES' = [MESSAGES EXCEPT ![i] = v]
                       /\ writer' = [writer EXCEPT ![t].pc = pc]
                       /\ \/ writer[t].pc = "claim" /\ pc = "a" /\ v = [m EXCEPT !.id = NotReady]
                          \/ writer[t].pc = "a" /\ pc = "b" /\ v = [m EXCEPT !.a = n]
                          \/ writer[t].pc = "b" /\ pc = "id" /\ v = [m EXCEPT !.b = n]
                          \/ writer[t].pc = "id" /\ pc = "idle" /\ v = [m EXCEPT !.id = n]
      BY Zenon, <1>2, Written
    <2>5. /\ m.id = NotReady
          /\ writer[t].pc \in {"b", "id"} => m.a = n
          /\ writer[t].pc = "id" => m.b = n
      BY Zenon, <2>2 DEF Partial
    <2> HIDE DEF m
    <2>6. /\ pc # "idle" => v.id = NotReady
          /\ pc \in {"b", "id"} => v.a = n
          /\ pc = "id" => v.b = n
          /\ pc = "idle" => Complete(v)
      BY Zenon, <2>2, <2>4, <2>5 DEF Message, Complete
    <2>7. \A j \in Slots : MESSAGES'[j] = IF j = i THEN v ELSE MESSAGES[j]
      BY Zenon, <2>2, <2>4 DEF WriterTypes
    <2>8. /\ writer'[t].pc = pc /\ writer'[t].index = i /\ writer'[t].n = n
          /\ \A u \in Threads \ {t} : writer'[u] = writer[u]
      <3>1. writer'[t] = [writer[t] EXCEPT !.pc = pc] /\ \A u \in Threads \ {t} : writer'[u] = writer[u]
        BY Zenon, <2>4 DEF WriterTypes
      <3> QED BY Zenon, <2>1, <3>1 DEF WriterType
    <2>9. \A u \in Threads : writer'[u].pc # "idle" => Partial(u)'
      <3>1. ASSUME pc # "idle" PROVE Partial(t)'
        <4>1. \A u \in Threads \ {t} : writer'[u].pc # "idle" => writer'[u].index # i
          BY Zenon, <2>2, <2>8 DEF Partial
        <4> QED BY Zenon, <2>2, <2>3, <2>6, <2>7, <2>8, <3>1, <4>1 DEF Partial
      <3>2. SUFFICES ASSUME NEW u \in Threads \ {t}, writer'[u].pc # "idle" PROVE Partial(u)'
        BY Zenon, <2>8, <3>1
      <3>3. writer'[u] = writer[u] /\ writer[u].pc # "idle" /\ Partial(u) /\ writer[u].index \in Slots
        BY Zenon, <2>8, <3>2 DEF SlotsInv, WriterTypes
      <3>4. writer[u].index # i /\ writer'[t].index = i
        BY Zenon, <2>1, <2>8, <3>3 DEF Partial
      <3>5. MESSAGES'[writer[u].index] = MESSAGES[writer[u].index]
        BY Zenon, <2>7, <3>3, <3>4
      <3>6. \A x \in Threads \ {u} : writer'[x].pc # "idle" => writer'[x].index # writer[u].index
        BY Zenon, <2>8, <3>3, <3>4 DEF Partial
      <3> QED BY Zenon, <2>3, <3>3, <3>5, <3>6 DEF Partial
    <2>10. \A j \in Slots : MESSAGES'[j].id # NotReady => Complete(MESSAGES'[j])
      BY Zenon, <2>6, <2>7 DEF SlotsInv
    <2>11. \A j \in Slots : j >= NEXT_LOG_OFFSET => MESSAGES'[j].id = NotReady
      <3>1. i < NEXT_LOG_OFFSET /\ i \in Int /\ NEXT_LOG_OFFSET \in Int
        BY <2>2 DEF Partial, Slots, WriterTypes, LogOK
      <3> QED BY <2>7, <3>1 DEF SlotsInv, Slots
    <2>12. m = MESSAGES[i]
      BY Zenon DEF m
    <2> QED BY Zenon, <2>3, <2>5, <2>7, <2>9, <2>10, <2>11, <2>12 DEF SlotsInv
  <1> QED BY Zenon, <1>1, <1>2

\* The copy that report makes is of one message: what it saw ready does not change.
LEMMA ReadingStep ==
  ASSUME LogOK, WriterTypes, ReaderTypes, SlotsInv, Reading, FirstReport', report
  PROVE  Reading'
  <1>0. reader \in ReaderType /\ MESSAGES' = MESSAGES
    BY Zenon DEF ReaderTypes, report, StartReport, LookAtMessage, ReadId, CopyMessage, PrintMessage, EndReport
  <1>1. CASE StartReport
    BY Zenon, <1>1 DEF StartReport, Reading, Waiting
  <1>2. CASE LookAtMessage
    <2>1. PICK m \in Read(reader.i) :
             reader' = IF m.id = NotReady THEN [reader EXCEPT !.i = @ + 1] ELSE [reader EXCEPT !.pc = "id"]
      BY Zenon, <1>2 DEF LookAtMessage
    <2>2. reader.pc = "next"
      BY Zenon, <1>2 DEF LookAtMessage
    <2>3. CASE m.id = NotReady
      <3>1. reader'.pc = "next"
        BY Zenon, <1>0, <2>1, <2>2, <2>3 DEF ReaderType
      <3> QED BY Zenon, <3>1 DEF Reading
    <2>4. CASE m.id # NotReady
      <3>1. reader'.pc = "id" /\ reader'.i = reader.i
        BY Zenon, <1>0, <2>1, <2>4 DEF ReaderType
      <3>2. reader.i \in Slots => m = MESSAGES[reader.i]
        BY Zenon DEF Read
      <3> QED BY Zenon, <1>0, <2>4, <3>1, <3>2 DEF Reading
    <2> QED BY Zenon, <2>3, <2>4
  <1>3. CASE ReadId
    <2>1. PICK m \in Read(reader.i) : reader' = [reader EXCEPT !.pc = "copy", !.id = m.id]
      BY Zenon, <1>3 DEF ReadId
    <2>2. reader.pc = "id"
      BY Zenon, <1>3 DEF ReadId
    <2>3. reader'.pc = "copy" /\ reader'.i = reader.i /\ reader'.id = m.id
      BY Zenon, <1>0, <2>1 DEF ReaderType
    <2>4. reader.i \in Slots => m = MESSAGES[reader.i]
      BY Zenon DEF Read
    <2> QED BY Zenon, <1>0, <2>2, <2>3, <2>4 DEF Reading
  <1>4. CASE CopyMessage
    <2>1. PICK m \in Read(reader.i) :
             reader' = IF m.id # reader.id /\ m.id # NotReady THEN [reader EXCEPT !.pc = "id"]
                       ELSE [reader EXCEPT !.pc = "print", !.cont = m]
      BY Zenon, <1>4 DEF CopyMessage
    <2>2. reader.pc = "copy"
      BY Zenon, <1>4 DEF CopyMessage
    <2>3. reader.i \in Slots => m = MESSAGES[reader.i]
      BY Zenon DEF Read
    <2>4. /\ reader'.i = reader.i /\ reader'.id = reader.id
          /\ reader'.pc = "id" \/ (reader'.pc = "print" /\ reader'.cont = m)
      BY Zenon, <1>0, <2>1 DEF ReaderType
    <2> QED BY Zenon, <1>0, <2>2, <2>3, <2>4 DEF Reading
  <1>5. CASE PrintMessage
    <2>1. reader'.pc = "next"
      BY Zenon, <1>0, <1>5 DEF PrintMessage, ReaderType
    <2> QED BY Zenon, <2>1 DEF Reading
  <1>6. CASE EndReport
    <2>1. reader'.pc = "wait"
      BY Zenon, <1>6 DEF EndReport, Waiting
    <2> QED BY Zenon, <2>1 DEF Reading
  <1> QED BY Zenon, <1>1, <1>2, <1>3, <1>4, <1>5, <1>6 DEF report

\* Steps of log and of report, in any order, keep the invariant.
LEMMA LogInvStep ==
  ASSUME LogOK, LogInv, [LogNext]_logVars
  PROVE  LogInv'
  <1>1. WriterTypes /\ ReaderTypes /\ WriterTypes' /\ ReaderTypes'
    BY Zenon, WriterTypesStep, ReaderTypesStep DEF LogInv
  <1>2. ASSUME NEW t \in Threads, TakeOffset(t) \/ WriteMessage(t) PROVE LogInv'
    <2>1. reader' = reader /\ reports' = reports /\ printed' = printed
      BY Zenon, <1>2 DEF TakeOffset, WriteMessage
    <2>2. FirstReportIsConsistent'
      BY Zenon, <2>1 DEF LogInv, FirstReportIsConsistent, ReportIsConsistent
    <2>3. ASSUME FirstReport' PROVE SlotsInv' /\ Reading'
      <3>1. SlotsInv /\ Reading
        BY Zenon, <2>1, <2>3 DEF FirstReport, LogInv
      <3>2. /\ SlotsInv'
            /\ \A i \in Slots : MESSAGES[i].id # NotReady => MESSAGES'[i] = MESSAGES[i]
        BY Zenon, <1>1, <1>2, <3>1, SlotsStep
      <3> QED BY Zenon, <2>1, <3>1, <3>2 DEF Reading
    <2> QED BY Zenon, <1>1, <2>2, <2>3 DEF LogInv
  <1>3. CASE report
    <2>1. ASSUME FirstReport' PROVE FirstReport /\ NEXT_LOG_OFFSET' = NEXT_LOG_OFFSET
      <3>1. CASE StartReport
        BY <1>1, <2>1, <3>1 DEF StartReport, FirstReport, ReaderTypes
      <3>2. CASE EndReport
        BY Zenon, <1>1, <2>1, <3>2 DEF EndReport, FirstReport, ReaderTypes, Waiting
      <3>3. CASE LookAtMessage \/ ReadId \/ CopyMessage \/ PrintMessage
        <4>1. reader.pc # "wait" /\ reports' = reports /\ NEXT_LOG_OFFSET' = NEXT_LOG_OFFSET
          BY Zenon, <3>3 DEF LookAtMessage, ReadId, CopyMessage, PrintMessage
        <4> QED BY Zenon, <2>1, <4>1 DEF FirstReport
      <3> QED BY Zenon, <1>3, <3>1, <3>2, <3>3 DEF report
    <2>2. ASSUME FirstReport' PROVE SlotsInv' /\ Reading'
      <3>1. SlotsInv /\ Reading
        BY Zenon, <2>1, <2>2 DEF LogInv
      <3>2. MESSAGES' = MESSAGES /\ writer' = writer
        BY Zenon, <1>3 DEF report, StartReport, LookAtMessage, ReadId, CopyMessage, PrintMessage, EndReport
      <3>3. SlotsInv'
        BY Zenon, <2>1, <2>2, <3>1, <3>2 DEF SlotsInv, Partial
      <3> QED BY Zenon, <1>1, <1>3, <2>2, <3>1, <3>3, ReadingStep
    <2>3. CASE PrintMessage
      <3>1. reader.pc = "print" /\ reader \in ReaderType
        BY Zenon, <1>1, <2>3 DEF PrintMessage, ReaderTypes
      <3>2. printed'.report = reports /\ printed'.i = reader.i /\ printed'.m = [reader.cont EXCEPT !.id = reader.id]
        BY Zenon, <2>3 DEF PrintMessage
      <3>3. ASSUME reports <= 1, reader.i \in Slots PROVE ReportIsConsistent'
        <4>1. FirstReport
          BY <1>1, <3>1, <3>3 DEF FirstReport, ReaderTypes
        <4>2. reader.cont = MESSAGES[reader.i] /\ reader.id = MESSAGES[reader.i].id /\ Complete(MESSAGES[reader.i])
          BY Zenon, <3>1, <3>3, <4>1 DEF LogInv, Reading, SlotsInv
        <4>3. MESSAGES[reader.i] \in Message
          BY Zenon, <1>1, <3>3 DEF WriterTypes
        <4>4. printed'.m.id = reader.id /\ printed'.m.a = reader.cont.a /\ printed'.m.b = reader.cont.b
          BY Zenon, <3>1, <3>2 DEF ReaderType
        <4> QED BY <4>2, <4>3, <4>4 DEF ReportIsConsistent, Complete, Message
      <3>4. FirstReportIsConsistent'
        BY Zenon, <3>2, <3>3 DEF FirstReportIsConsistent
      <3> QED BY Zenon, <1>1, <2>2, <3>4 DEF LogInv
    <2>4. CASE ~PrintMessage
      <3>1. printed' = printed
        BY Zenon, <1>3, <2>4 DEF report, StartReport, LookAtMessage, ReadId, CopyMessage, EndReport
      <3>2. FirstReportIsConsistent'
        BY Zenon, <3>1 DEF LogInv, FirstReportIsConsistent, ReportIsConsistent
      <3> QED BY Zenon, <1>1, <2>2, <3>2 DEF LogInv
    <2> QED BY Zenon, <2>3, <2>4
  <1>4. CASE UNCHANGED logVars
    BY Zenon, <1>1, <1>4 DEF logVars, LogInv, FirstReport, SlotsInv, Partial, Reading, FirstReportIsConsistent, ReportIsConsistent
  <1> QED BY Zenon, <1>2, <1>3, <1>4 DEF LogNext

\* What the first report of the RCU debugger prints from the log is a message that was
\* logged, with its own arguments, whichever threads log at the same time: for any number
\* of threads and slots.
THEOREM FirstReportStaysConsistent ==
  ASSUME LogOK
  PROVE  LogSpec => []FirstReportIsConsistent
  <1>1. LogInit => LogInv
    <2> SUFFICES ASSUME LogInit PROVE LogInv
      OBVIOUS
    <2>1. WriterTypes
      BY DEF LogInit, LogOK, WriterTypes, WriterType, NotLogging, Message, Empty, NotReady
    <2>2. ReaderTypes
      BY DEF LogInit, ReaderTypes, ReaderType, Waiting, Empty, NotReady
    <2>3. SlotsInv /\ Reading
      BY Zenon DEF LogInit, SlotsInv, Reading, NotLogging, Empty, Waiting
    <2>4. FirstReportIsConsistent
      BY DEF LogInit, FirstReportIsConsistent, ReportIsConsistent, Empty, NotReady, LogOK
    <2> QED BY Zenon, <2>1, <2>2, <2>3, <2>4 DEF LogInv
  <1>2. LogInv /\ [LogNext]_logVars => LogInv'
    BY Zenon, LogInvStep
  <1>3. LogInv => FirstReportIsConsistent
    BY Zenon DEF LogInv
  <1> QED BY <1>1, <1>2, <1>3, PTL DEF LogSpec

-----------------------------------------------------------------------------
(* The events of the RCU debugger.  The sections get different ids: a       *)
(* thread that has chosen an id and not taken it yet is not overtaken by    *)
(* a search that has gone round all the ids, because then all of them       *)
(* would be in use.                                                         *)

Ids == 0 .. MAX_NUM_SECTION_IDS - 1
Cells == Globals \cup Objects
ThreadType == [depth : Nat, id : Ids, in : Nat, pc : {"run", "allocate", "take"}]
MarkedType == [to : Objects, mark : {"none", "assigned", "deref"}, id : Ids, in : Nat]

EventTypes ==
    /\ thread \in [Threads -> ThreadType]
    /\ reg \in [Threads -> MarkedType]
    /\ memory \in [Cells -> MarkedType]
    /\ NEXT_SECTION_ID \in Ids
    /\ \A t \in Threads : /\ thread[t].pc # "run" => thread[t].depth = 0
                          /\ thread[t].depth > 0 => thread[t].in > 0

\* The threads that are about to enter a section, and those of them that have an
\* id for it.
Entering == {t \in Threads : thread[t].pc # "run"}
Taking == {t \in Threads : thread[t].pc = "take"}
TakingIds == {thread[t].id : t \in Taking}

\* A dereferenced pointer has the id of the section that it came from.
Marked(p, N, f) == p.mark = "deref" => p.in \in 1 .. N /\ p.id = f[p.in]

\* N sections were entered, and f[n] is the id of the one with the number n.
Numbered(N, f) ==
    /\ f \in [1 .. N -> Ids]
    /\ \A k, l \in 1 .. N : f[k] = f[l] => k = l
    /\ taken = {f[k] : k \in 1 .. N}
    /\ \A t \in Threads : thread[t].in <= N
    /\ N = 0 \/ \E t \in Threads : thread[t].in = N
    /\ \A t \in Threads : thread[t].pc # "take" =>
          thread[t].id = IF thread[t].in = 0 THEN 0 ELSE f[thread[t].in]
    /\ \A t \in Threads : Marked(reg[t], N, f)
    /\ \A x \in Cells : Marked(memory[x], N, f)
    /\ N + Cardinality(Entering) <= MaxLocks

\* The search has come past j since i was chosen.
Passed(i, j, next) == IF i < next THEN i < j /\ j < next ELSE i < j \/ j < next

\* The ids that were chosen are free and different, and those that the search has
\* come past since are in use.
TakingOK ==
    \A t \in Taking :
        /\ thread[t].id \notin taken
        /\ \A u \in Taking : u # t => thread[u].id # thread[t].id
        /\ \A j \in Ids : Passed(thread[t].id, j, NEXT_SECTION_ID) =>
              j \in taken \cup {0} \cup TakingIds

LastOK ==
    /\ last.thread \in Threads
    /\ last.event \in {"read", "dereference"} => thread[last.thread].pc = "run"

EventInv ==
    /\ EventTypes
    /\ \E N \in Nat : \E f : Numbered(N, f)
    /\ TakingOK
    /\ LastOK
    /\ ReportsAreRight

\* The newest section is the last one that was entered.
LEMMA NewestIs ==
    ASSUME EventTypes, NEW N \in Nat, NEW f, Numbered(N, f)
    PROVE  Newest = N
  <1>1. \A t \in Threads : thread[t].in \in Nat /\ thread[t].in <= N
    BY DEF EventTypes, ThreadType, Numbered
  <1>2. N \in Sections
    BY DEF Numbered, Sections
  <1>3. \A m \in Sections : m \in Nat /\ m <= N
    BY <1>1 DEF Sections
  <1>4. \A n \in Sections : (\A m \in Sections : m <= n) => n = N
    BY <1>2, <1>3
  <1>5. \E n \in Sections : \A m \in Sections : m <= n
    BY Zenon, <1>2, <1>3
  <1> HIDE DEF Sections
  <1>6. Newest \in Sections /\ \A m \in Sections : m <= Newest
    BY Zenon, <1>5 DEF Newest
  <1> QED BY Zenon, <1>4, <1>6

\* Where a pointer may be is a variable or a field.
LEMMA PlacesOK ==
    ASSUME EventTypes, NEW t \in Threads, NEW p \in Places(t)
    PROVE  p.at \in Cells /\ memory[p.at] \in MarkedType
  <1>1. reg[t].to \in Objects
    BY DEF EventTypes, MarkedType
  <1>2. p.at \in Cells
    BY <1>1 DEF Places, VarAt, FieldAt, Cells
  <1> QED BY Zenon, <1>2 DEF EventTypes

\* Pointers are moved or marked, and no thread enters or leaves a section.
LEMMA MovesPointers ==
    ASSUME EventTypes, TakingOK, NEW N \in Nat, NEW f, Numbered(N, f),
           UNCHANGED <<thread, NEXT_SECTION_ID, taken>>,
           reg' \in [Threads -> MarkedType], memory' \in [Cells -> MarkedType],
           \A t \in Threads : Marked(reg'[t], N, f),
           \A x \in Cells : Marked(memory'[x], N, f)
    PROVE  EventTypes' /\ Numbered(N, f)' /\ TakingOK'
  <1>1. EventTypes'
    BY Zenon DEF EventTypes
  <1>2. Entering' = Entering /\ Taking' = Taking /\ TakingIds' = TakingIds
    BY Zenon DEF Entering, Taking, TakingIds
  <1>3. Numbered(N, f)'
    BY Zenon, <1>2 DEF Numbered, Marked
  <1>4. TakingOK'
    BY Zenon, <1>2 DEF TakingOK
  <1> QED BY Zenon, <1>1, <1>3, <1>4

\* A thread enters a nested section, leaves one, or begins to look for an id.
LEMMA LocksOrUnlocks ==
    ASSUME EventsOK, EventTypes, TakingOK, NEW N \in Nat, NEW f, Numbered(N, f),
           NEW t \in Threads, NEW x \in ThreadType, thread' = [thread EXCEPT ![t] = x],
           thread[t].pc = "run", x.id = thread[t].id, x.in = thread[t].in,
           x.depth > 0 => x.in > 0,
           \/ x.pc = "run"
           \/ x.pc = "allocate" /\ x.depth = 0 /\ Entered < MaxLocks,
           UNCHANGED <<reg, memory, NEXT_SECTION_ID, taken>>
    PROVE  EventTypes' /\ Numbered(N, f)' /\ TakingOK'
  <1>1. /\ thread' \in [Threads -> ThreadType] /\ thread'[t] = x
        /\ \A u \in Threads \ {t} : thread'[u] = thread[u]
        /\ \A u \in Threads : thread'[u].id = thread[u].id /\ thread'[u].in = thread[u].in
    BY Zenon DEF EventTypes
  <1>2. EventTypes'
    <2>1. ASSUME NEW u \in Threads
          PROVE  /\ thread'[u].pc # "run" => thread'[u].depth = 0
                 /\ thread'[u].depth > 0 => thread'[u].in > 0
      BY Zenon, <1>1 DEF EventTypes
    <2> QED BY Zenon, <1>1, <2>1 DEF EventTypes
  <1>3. \A u \in Threads : thread'[u].pc = "take" <=> thread[u].pc = "take"
    BY Zenon, <1>1
  <1>4. Taking' = Taking /\ TakingIds' = TakingIds
    <2>1. Taking' = Taking
      BY Zenon, <1>3 DEF Taking
    <2>2. \A u \in Taking : thread'[u].id = thread[u].id
      BY Zenon, <1>1 DEF Taking
    <2>3. TakingIds' = {thread'[u].id : u \in Taking}
      BY Zenon, <2>1 DEF TakingIds
    <2> QED BY <2>1, <2>2, <2>3 DEF TakingIds
  <1>5. N + Cardinality(Entering') <= MaxLocks
    <2>0. Cardinality(Entering) \in Nat /\ IsFiniteSet(Entering)
      <3>1. Entering \subseteq Threads
        BY Zenon DEF Entering
      <3> QED BY <3>1, FS_Subset, FS_CardinalityType DEF EventsOK
    <2>1. CASE x.pc = "run"
      <3>1. \A u \in Threads : thread'[u].pc # "run" <=> thread[u].pc # "run"
        BY Zenon, <1>1, <2>1
      <3>2. Entering' = Entering
        BY Zenon, <3>1 DEF Entering
      <3> QED BY Zenon, <3>2 DEF Numbered
    <2>2. CASE x.pc = "allocate" /\ Entered < MaxLocks
      <3>1. \A u \in Threads : thread'[u].pc # "run" <=> thread[u].pc # "run" \/ u = t
        BY Zenon, <1>1, <2>2
      <3>2. Entering' = Entering \cup {t} /\ t \notin Entering
        BY <3>1 DEF Entering
      <3>3. Cardinality(Entering \cup {t}) = Cardinality(Entering) + 1
        BY Zenon, <2>0, <3>2, FS_AddElement
      <3>4. Entered = N + Cardinality(Entering)
        BY Zenon, NewestIs DEF Entered, Entering
      <3> QED BY <2>0, <2>2, <3>2, <3>3, <3>4 DEF EventsOK
    <2> QED BY Zenon, <2>1, <2>2
  <1>6. Numbered(N, f)'
    <2>1. /\ f \in [1 .. N -> Ids]
          /\ \A k, l \in 1 .. N : f[k] = f[l] => k = l
          /\ taken' = {f[k] : k \in 1 .. N}
      BY Zenon DEF Numbered
    <2>2. /\ \A u \in Threads : thread'[u].in <= N
          /\ N = 0 \/ \E u \in Threads : thread'[u].in = N
      BY Zenon, <1>1 DEF Numbered
    <2>3. ASSUME NEW u \in Threads, thread'[u].pc # "take"
          PROVE  thread'[u].id = IF thread'[u].in = 0 THEN 0 ELSE f[thread'[u].in]
      BY ZenonT(60), <1>1, <1>3, <2>3 DEF Numbered
    <2>4. /\ \A u \in Threads : Marked(reg'[u], N, f)
          /\ \A y \in Cells : Marked(memory'[y], N, f)
      BY Zenon DEF Numbered
    <2> QED BY Zenon, <1>5, <2>1, <2>2, <2>3, <2>4 DEF Numbered, Marked
  <1>7. TakingOK'
    <2>1. \A u \in Taking : thread'[u].id = thread[u].id
      BY Zenon, <1>1 DEF Taking
    <2>2. ASSUME NEW u \in Taking
          PROVE  /\ thread'[u].id \notin taken'
                 /\ \A v \in Taking : v # u => thread'[v].id # thread'[u].id
                 /\ \A j \in Ids : Passed(thread'[u].id, j, NEXT_SECTION_ID') =>
                       j \in taken' \cup {0} \cup TakingIds
      <3>1. /\ thread[u].id \notin taken
            /\ \A v \in Taking : v # u => thread[v].id # thread[u].id
            /\ \A j \in Ids : Passed(thread[u].id, j, NEXT_SECTION_ID) =>
                  j \in taken \cup {0} \cup TakingIds
        BY Zenon DEF TakingOK
      <3>2. thread'[u].id = thread[u].id
        BY Zenon, <2>1
      <3>3. \A v \in Taking : v # u => thread'[v].id # thread'[u].id
        BY <2>1, <3>1
      <3> QED BY <3>1, <3>2, <3>3
    <2> QED BY Zenon, <1>4, <2>2 DEF TakingOK
  <1> QED BY Zenon, <1>2, <1>6, <1>7

\* The search goes on to the next id.
LEMMA NextIdIs ==
    ASSUME EventsOK, EventTypes,
           NEXT_SECTION_ID' = (NEXT_SECTION_ID + 1) % MAX_NUM_SECTION_IDS
    PROVE  /\ NEXT_SECTION_ID' \in Ids
           /\ NEXT_SECTION_ID' = IF NEXT_SECTION_ID = MAX_NUM_SECTION_IDS - 1 THEN 0
                                 ELSE NEXT_SECTION_ID + 1
  <1> DEFINE k == MAX_NUM_SECTION_IDS
             n == NEXT_SECTION_ID
  <1>1. k \in Nat \ {0} /\ n \in 0 .. k - 1
    BY DEF EventsOK, EventTypes, Ids
  <1> HIDE DEF k, n
  <1>2. (n + 1) % k = IF n = k - 1 THEN 0 ELSE n + 1
    BY <1>1
  <1> QED BY <1>1, <1>2 DEF k, n, Ids

\* It comes past the id that it looks at, and past no other one.
LEMMA PassesOne ==
    ASSUME EventsOK, NEW i \in Ids, NEW j \in Ids, NEW n \in Ids, NEW m \in Ids,
           m = IF n = MAX_NUM_SECTION_IDS - 1 THEN 0 ELSE n + 1, Passed(i, j, m)
    PROVE  Passed(i, j, n) \/ j = n
  BY DEF EventsOK, Ids, Passed

\* A search that is back at the id that it started behind has come past all others.
LEMMA PassesAll ==
    ASSUME EventsOK, NEW i \in Ids, NEW j \in Ids, j # i
    PROVE  Passed(i, j, i)
  BY DEF EventsOK, Ids, Passed

\* While a thread looks for an id, not all of them are in use.
LEMMA IdsAreLeft ==
    ASSUME EventsOK, EventTypes, NEW N \in Nat, NEW f, Numbered(N, f),
           NEW t \in Threads, thread[t].pc = "allocate"
    PROVE  \E j \in Ids : j \notin taken \cup {0} \cup TakingIds
  <1> SUFFICES ASSUME Ids \subseteq taken \cup {0} \cup TakingIds PROVE FALSE
    OBVIOUS
  <1>1. IsFiniteSet(Threads) /\ Entering \subseteq Threads /\ Taking \subseteq Threads
    BY Zenon DEF EventsOK, Entering, Taking
  <1>2. /\ IsFiniteSet(Entering) /\ Cardinality(Entering) \in Nat
        /\ IsFiniteSet(Taking) /\ Cardinality(Taking) \in Nat
    BY <1>1, FS_Subset, FS_CardinalityType
  <1>3. Cardinality(Taking) + 1 <= Cardinality(Entering)
    <2>1. Taking \cup {t} \subseteq Entering /\ t \notin Taking
      BY DEF Taking, Entering
    <2>2. /\ Cardinality(Taking \cup {t}) = Cardinality(Taking) + 1
          /\ Cardinality(Taking \cup {t}) <= Cardinality(Entering)
      BY <1>2, <2>1, FS_AddElement, FS_Subset
    <2> QED BY <2>2
  <1>4. IsFiniteSet(TakingIds) /\ Cardinality(TakingIds) \in Nat
        /\ Cardinality(TakingIds) <= Cardinality(Taking)
    <2> DEFINE g == [u \in Taking |-> thread[u].id]
    <2>1. g \in Surjection(Taking, TakingIds)
      BY Zenon DEF Surjection, TakingIds
    <2> HIDE DEF g
    <2> QED BY <1>2, <2>1, FS_Surjection, FS_CardinalityType
  <1>5. IsFiniteSet(taken) /\ Cardinality(taken) \in Nat /\ Cardinality(taken) <= N
    <2>1. f \in Surjection(1 .. N, taken)
      <3>1. f \in [1 .. N -> Ids] /\ taken = {f[k] : k \in 1 .. N}
        BY Zenon DEF Numbered
      <3> QED BY <3>1 DEF Surjection
    <2>2. IsFiniteSet(1 .. N) /\ Cardinality(1 .. N) = N
      <3>1. 1 \in Int /\ N \in Int /\ (IF 1 > N THEN 0 ELSE N - 1 + 1) = N
        OBVIOUS
      <3>2. /\ IsFiniteSet(1 .. N)
            /\ Cardinality(1 .. N) = IF 1 > N THEN 0 ELSE N - 1 + 1
        BY Zenon, <3>1, FS_Interval
      <3> QED BY <3>1, <3>2
    <2> QED BY <2>1, <2>2, FS_Surjection, FS_CardinalityType
  <1>6. IsFiniteSet(Ids) /\ Cardinality(Ids) = MAX_NUM_SECTION_IDS
    BY FS_Interval DEF Ids, EventsOK
  <1>7. /\ IsFiniteSet(taken \cup {0})
        /\ Cardinality(taken \cup {0}) \in Nat /\ Cardinality(taken \cup {0}) <= N + 1
    <2>1. /\ IsFiniteSet(taken \cup {0})
          /\ Cardinality(taken \cup {0}) = IF 0 \in taken THEN Cardinality(taken)
                                            ELSE Cardinality(taken) + 1
      BY Zenon, <1>5, FS_AddElement
    <2> QED BY <1>5, <2>1
  <1>8. /\ IsFiniteSet(taken \cup {0} \cup TakingIds)
        /\ Cardinality(taken \cup {0} \cup TakingIds) <= N + 1 + Cardinality(Taking)
    <2> DEFINE S == taken \cup {0}
    <2> HIDE DEF S
    <2>1. IsFiniteSet(S \cup TakingIds) /\ Cardinality(S \cap TakingIds) \in Nat
          /\ Cardinality(S \cup TakingIds) =
                Cardinality(S) + Cardinality(TakingIds) - Cardinality(S \cap TakingIds)
      BY Zenon, <1>4, <1>7, FS_Union, FS_Intersection, FS_CardinalityType DEF S
    <2> QED BY <1>2, <1>4, <1>7, <2>1 DEF S
  <1>9. Cardinality(Ids) <= Cardinality(taken \cup {0} \cup TakingIds)
    BY <1>8, FS_Subset
  <1>10. N + Cardinality(Entering) <= MaxLocks
    BY Zenon DEF Numbered
  <1>11. Cardinality(taken \cup {0} \cup TakingIds) \in Nat
    BY <1>8, FS_CardinalityType
  <1> QED BY <1>2, <1>3, <1>6, <1>8, <1>9, <1>10, <1>11 DEF EventsOK

\* A turn of the search: it goes past an id, or the thread chooses it.
LEMMA SearchStep ==
    ASSUME EventsOK, EventTypes, TakingOK, NEW N \in Nat, NEW f, Numbered(N, f),
           NEW t \in Threads, allocate_section_id(t)
    PROVE  EventTypes' /\ Numbered(N, f)' /\ TakingOK'
  <1> DEFINE n == NEXT_SECTION_ID
             m == NEXT_SECTION_ID'
  <1>1. /\ n \in Ids /\ m \in Ids
        /\ m = IF n = MAX_NUM_SECTION_IDS - 1 THEN 0 ELSE n + 1
        /\ thread[t].pc = "allocate" /\ UNCHANGED <<reg, memory, taken>>
    BY Zenon, NextIdIs DEF allocate_section_id, EventTypes
  <1>2. \A u \in Threads : thread[u].id \in Ids
    BY DEF EventTypes, ThreadType
  <1> HIDE DEF n, m
  <1>3. \A u \in Taking, j \in Ids : Passed(thread[u].id, j, m) => Passed(thread[u].id, j, n) \/ j = n
    <2> SUFFICES ASSUME NEW u \in Taking, NEW j \in Ids, Passed(thread[u].id, j, m)
                 PROVE  Passed(thread[u].id, j, n) \/ j = n
      BY Zenon
    <2>1. thread[u].id \in Ids
      BY Zenon, <1>2 DEF Taking
    <2> QED BY Zenon, <1>1, <2>1, PassesOne
  <1>4. CASE n \in taken \cup {thread[t].id}
    <2>1. thread' = thread
      BY Zenon, <1>4 DEF allocate_section_id, n
    <2>2. n \in taken \cup {0}
      <3>1. thread[t].id \in taken \cup {0}
        <4>1. thread[t].in \in Nat /\ thread[t].in <= N
          BY DEF EventTypes, ThreadType, Numbered
        <4>2. thread[t].in # 0 => thread[t].in \in 1 .. N
          BY <4>1
        <4>3. thread[t].id = IF thread[t].in = 0 THEN 0 ELSE f[thread[t].in]
          BY Zenon, <1>1 DEF Numbered
        <4> QED BY Zenon, <4>2, <4>3 DEF Numbered
      <3> QED BY Zenon, <1>4, <3>1
    <2>3. Entering' = Entering /\ Taking' = Taking /\ TakingIds' = TakingIds
      BY Zenon, <2>1 DEF Entering, Taking, TakingIds
    <2>4. EventTypes'
      BY Zenon, <1>1, <2>1 DEF EventTypes, m
    <2>5. Numbered(N, f)'
      BY Zenon, <1>1, <2>1, <2>3 DEF Numbered, Marked
    <2>6. ASSUME NEW u \in Taking
          PROVE  /\ thread[u].id \notin taken
                 /\ \A v \in Taking : v # u => thread[v].id # thread[u].id
                 /\ \A j \in Ids : Passed(thread[u].id, j, m) => j \in taken \cup {0} \cup TakingIds
      BY Zenon, <1>3, <2>2 DEF TakingOK, n
    <2>7. TakingOK'
      BY Zenon, <1>1, <2>1, <2>3, <2>6 DEF TakingOK, m
    <2> QED BY Zenon, <2>4, <2>5, <2>7
  <1>5. CASE n \notin taken \cup {thread[t].id}
    <2>1. thread' = [thread EXCEPT ![t].pc = "take", ![t].id = n]
      BY Zenon, <1>5 DEF allocate_section_id, n
    <2> DEFINE x == [thread[t] EXCEPT !.pc = "take", !.id = n]
    <2>2. /\ thread'[t] = x /\ \A u \in Threads \ {t} : thread'[u] = thread[u]
          /\ thread' = [u \in Threads |-> thread'[u]]
      BY Zenon, <2>1 DEF EventTypes
    <2>3. /\ x \in ThreadType /\ x.pc = "take" /\ x.id = n
          /\ x.in = thread[t].in /\ x.depth = thread[t].depth
      BY Zenon, <1>1 DEF EventTypes, ThreadType
    <2> HIDE DEF x
    <2>4. EventTypes'
      <3>1. ASSUME NEW u \in Threads
            PROVE  /\ thread'[u] \in ThreadType
                   /\ thread'[u].pc # "run" => thread'[u].depth = 0
                   /\ thread'[u].depth > 0 => thread'[u].in > 0
        BY Zenon, <1>1, <2>2, <2>3 DEF EventTypes
      <3>2. thread' \in [Threads -> ThreadType]
        BY Zenon, <2>2, <3>1
      <3> QED BY Zenon, <1>1, <3>1, <3>2 DEF EventTypes, m
    <2>5. Entering' = Entering
      <3>1. \A u \in Threads : thread'[u].pc # "run" <=> thread[u].pc # "run"
        BY Zenon, <1>1, <2>2, <2>3
      <3> QED BY Zenon, <3>1 DEF Entering
    <2>6. /\ Taking' = Taking \cup {t} /\ t \notin Taking
          /\ \A u \in Taking : u \in Threads /\ thread'[u] = thread[u]
      <3>1. \A u \in Threads : thread'[u].pc = "take" <=> thread[u].pc = "take" \/ u = t
        BY Zenon, <2>2, <2>3
      <3> QED BY <1>1, <2>2, <3>1 DEF Taking
    <2>7. TakingIds' = TakingIds \cup {n}
      <3>1. TakingIds' = {thread'[u].id : u \in Taking \cup {t}}
        BY Zenon, <2>6 DEF TakingIds
      <3> QED BY <2>2, <2>3, <2>6, <3>1 DEF TakingIds
    <2>8. Numbered(N, f)'
      <3>1. /\ f \in [1 .. N -> Ids]
            /\ \A k, l \in 1 .. N : f[k] = f[l] => k = l
            /\ taken' = {f[k] : k \in 1 .. N}
            /\ \A u \in Threads : Marked(reg'[u], N, f)
            /\ \A y \in Cells : Marked(memory'[y], N, f)
            /\ N + Cardinality(Entering') <= MaxLocks
        BY Zenon, <1>1, <2>5 DEF Numbered
      <3>2. \A u \in Threads : thread'[u].in = thread[u].in
        BY Zenon, <2>2, <2>3
      <3>3. /\ \A u \in Threads : thread'[u].in <= N
            /\ N = 0 \/ \E u \in Threads : thread'[u].in = N
        BY Zenon, <3>2 DEF Numbered
      <3>4. ASSUME NEW u \in Threads, thread'[u].pc # "take"
            PROVE  thread'[u].id = IF thread'[u].in = 0 THEN 0 ELSE f[thread'[u].in]
        <4>1. u # t
          BY Zenon, <2>2, <2>3, <3>4
        <4> QED BY Zenon, <2>2, <3>4, <4>1 DEF Numbered
      <3> QED BY Zenon, <3>1, <3>3, <3>4 DEF Numbered, Marked
    <2>9. n \notin TakingIds
      <3> SUFFICES ASSUME NEW u \in Taking, thread[u].id = n PROVE FALSE
        BY Zenon DEF TakingIds
      <3>1. PICK j \in Ids : j \notin taken \cup {0} \cup TakingIds
        BY Zenon, <1>1, IdsAreLeft
      <3>2. j # n
        BY Zenon, <3>1 DEF TakingIds
      <3>3. Passed(n, j, n)
        BY Zenon, <1>1, <3>2, PassesAll
      <3> QED BY Zenon, <3>1, <3>3 DEF TakingOK, n
    <2>10. \A u \in Taking : thread[u].id # n
      BY Zenon, <2>9 DEF TakingIds
    <2>11. ASSUME NEW u \in Taking
           PROVE  /\ thread[u].id \notin taken
                  /\ \A v \in Taking : v # u => thread[v].id # thread[u].id
                  /\ \A j \in Ids : Passed(thread[u].id, j, m) =>
                        j \in taken \cup {0} \cup (TakingIds \cup {n})
      BY Zenon, <1>3 DEF TakingOK, n
    <2>12. \A j \in Ids : ~ Passed(n, j, m)
      BY <1>1 DEF EventsOK, Ids, Passed
    <2>13. TakingOK'
      <3> SUFFICES ASSUME NEW u \in Taking \cup {t}
                   PROVE  /\ thread'[u].id \notin taken
                          /\ \A v \in Taking \cup {t} : v # u => thread'[v].id # thread'[u].id
                          /\ \A j \in Ids : Passed(thread'[u].id, j, m) =>
                                j \in taken \cup {0} \cup (TakingIds \cup {n})
        BY Zenon, <1>1, <2>6, <2>7 DEF TakingOK, m
      <3>1. CASE u = t
        <4>1. thread'[u].id = n
          BY Zenon, <2>2, <2>3, <3>1
        <4>2. \A v \in Taking \cup {t} : v # u => thread'[v].id # n
          BY Zenon, <2>6, <2>10, <3>1
        <4> QED BY Zenon, <1>5, <2>12, <4>1, <4>2
      <3>2. CASE u # t
        <4>1. u \in Taking /\ thread'[u].id = thread[u].id
          BY Zenon, <2>6, <3>2
        <4>2. \A v \in Taking : thread'[v].id = thread[v].id
          BY Zenon, <2>6
        <4>3. thread'[t].id = n
          BY Zenon, <2>2, <2>3
        <4>4. \A v \in Taking \cup {t} : v # u => thread'[v].id # thread'[u].id
          BY <2>10, <2>11, <4>1, <4>2, <4>3
        <4> QED BY <2>11, <4>1, <4>4
      <3> QED BY Zenon, <3>1, <3>2
    <2> QED BY Zenon, <2>4, <2>8, <2>13
  <1> QED BY Zenon, <1>4, <1>5

\* The thread takes the id that it has chosen, for the next section.
LEMMA SectionStep ==
    ASSUME EventsOK, EventTypes, TakingOK, NEW N \in Nat, NEW f, Numbered(N, f),
           NEW t \in Threads, TakeSection(t)
    PROVE  EventTypes' /\ TakingOK' /\ \E M \in Nat : \E g : Numbered(M, g)'
  <1> DEFINE i == thread[t].id
             n == IF InSection(t) THEN thread[t].in ELSE Newest + 1
             x == [thread[t] EXCEPT !.depth = thread[t].depth + 1, !.pc = "run", !.in = n]
  <1>1. /\ thread[t] \in ThreadType /\ thread[t].pc = "take" /\ thread[t].depth = 0
        /\ taken' = taken \cup {i} /\ UNCHANGED <<reg, memory, NEXT_SECTION_ID>>
    BY Zenon DEF TakeSection, EventTypes
  <1>2. /\ x \in ThreadType /\ x.pc = "run" /\ x.in = N + 1 /\ x.id = i /\ x.depth = 1
    <2>1. n = N + 1
      <3>1. ~ InSection(t)
        BY <1>1 DEF InSection
      <3> QED BY Zenon, <3>1, NewestIs
    <2> HIDE DEF n
    <2>2. thread[t].depth + 1 = 1 /\ thread[t].depth + 1 \in Nat /\ n \in Nat
      BY <1>1, <2>1
    <2>4. /\ x \in ThreadType /\ x.pc = "run" /\ x.in = n /\ x.id = i
          /\ x.depth = thread[t].depth + 1
      <3>1. PICK r \in ThreadType : r = thread[t]
        BY Zenon, <1>1
      <3>2. PICK d \in Nat : d = thread[t].depth + 1
        BY Zenon, <2>2
      <3>3. PICK k \in Nat : k = n
        BY Zenon, <2>2
      <3>4. x = [r EXCEPT !.depth = d, !.pc = "run", !.in = k]
        BY Zenon, <3>1, <3>2, <3>3
      <3>5. PICK y : y = x
        OBVIOUS
      <3>6. y = [r EXCEPT !.depth = d, !.pc = "run", !.in = k]
        BY Zenon, <3>4, <3>5
      <3>7. y \in ThreadType /\ y.pc = "run" /\ y.in = k /\ y.id = r.id /\ y.depth = d
        BY Zenon, <3>6 DEF ThreadType
      <3> QED BY Zenon, <3>1, <3>2, <3>3, <3>5, <3>7
    <2> QED BY Zenon, <2>1, <2>2, <2>4
  <1>3. thread' = [thread EXCEPT ![t] = x]
    BY Zenon DEF TakeSection, EventTypes
  <1> HIDE DEF x
  <1>4. /\ thread'[t] = x /\ thread' \in [Threads -> ThreadType]
        /\ \A u \in Threads \ {t} : thread'[u] = thread[u]
    BY Zenon, <1>2, <1>3 DEF EventTypes
  <1>5. EventTypes'
    <2>1. ASSUME NEW u \in Threads
          PROVE  /\ thread'[u].pc # "run" => thread'[u].depth = 0
                 /\ thread'[u].depth > 0 => thread'[u].in > 0
      <3>1. CASE u = t
        BY <1>2, <1>4, <3>1
      <3>2. CASE u # t
        BY Zenon, <1>4, <3>2 DEF EventTypes
      <3> QED BY Zenon, <3>1, <3>2
    <2> QED BY Zenon, <1>1, <1>4, <2>1 DEF EventTypes
  <1>6. /\ Taking' = Taking \ {t} /\ t \in Taking /\ t \in Entering
        /\ Entering' = Entering \ {t}
    <2>1. /\ \A u \in Threads : thread'[u].pc = "take" <=> thread[u].pc = "take" /\ u # t
          /\ \A u \in Threads : thread'[u].pc # "run" <=> thread[u].pc # "run" /\ u # t
      BY Zenon, <1>1, <1>2, <1>4
    <2> QED BY <1>1, <2>1 DEF Taking, Entering
  <1>7. i \in Ids /\ i \notin taken
    BY Zenon, <1>1, <1>6 DEF TakingOK, EventTypes, ThreadType
  <1>8. \A u \in Taking \ {t} : thread'[u] = thread[u] /\ thread[u].id # i
    BY Zenon, <1>4, <1>6 DEF TakingOK, Taking
  <1>9. TakingIds \subseteq TakingIds' \cup {i}
    BY Zenon, <1>6, <1>8 DEF TakingIds
  <1>10. TakingOK'
    <2> SUFFICES ASSUME NEW u \in Taking \ {t}
                 PROVE  /\ thread[u].id \notin taken \cup {i}
                        /\ \A v \in Taking \ {t} : v # u => thread[v].id # thread[u].id
                        /\ \A j \in Ids : Passed(thread[u].id, j, NEXT_SECTION_ID) =>
                              j \in taken \cup {i} \cup {0} \cup TakingIds'
      <3>1. \A u \in Taking' :
               /\ thread'[u].id \notin taken'
               /\ \A v \in Taking' : v # u => thread'[v].id # thread'[u].id
               /\ \A j \in Ids : Passed(thread'[u].id, j, NEXT_SECTION_ID') =>
                     j \in taken' \cup {0} \cup TakingIds'
        BY <1>1, <1>6, <1>8
      <3> QED BY Zenon, <3>1 DEF TakingOK
    <2> QED BY Zenon, <1>8, <1>9 DEF TakingOK
  <1>0. PICK g : g = [k \in 1 .. N + 1 |-> IF k = N + 1 THEN i ELSE f[k]]
    BY Zenon
  <1>11. /\ g \in [1 .. N + 1 -> Ids] /\ g[N + 1] = i
         /\ \A k \in 1 .. N : k \in 1 .. N + 1 /\ k # N + 1 /\ g[k] = f[k]
         /\ \A k \in 1 .. N + 1 : k = N + 1 \/ k \in 1 .. N
    <2>1. f \in [1 .. N -> Ids]
      BY Zenon DEF Numbered
    <2> QED BY <1>0, <1>7, <2>1
  <1>12. \A k \in 1 .. N : f[k] \in taken
    BY Zenon DEF Numbered
  <1>13. ASSUME NEW p, Marked(p, N, f)
         PROVE  Marked(p, N + 1, g)
    BY Zenon, <1>11, <1>13 DEF Marked
  <1>14. Numbered(N + 1, g)'
    <2>1. \A k, l \in 1 .. N + 1 : g[k] = g[l] => k = l
      <3> SUFFICES ASSUME NEW k \in 1 .. N + 1, NEW l \in 1 .. N + 1, g[k] = g[l]
                   PROVE  k = l
        BY Zenon
      <3>1. \A a, b \in 1 .. N : f[a] = f[b] => a = b
        BY Zenon DEF Numbered
      <3> QED BY Zenon, <1>7, <1>11, <1>12, <3>1
    <2>2. taken' = {g[k] : k \in 1 .. N + 1}
      <3>1. taken = {f[k] : k \in 1 .. N}
        BY Zenon DEF Numbered
      <3>2. \A j : j \in taken \cup {i} <=> \E k \in 1 .. N + 1 : j = g[k]
        <4>1. ASSUME NEW j \in taken PROVE \E k \in 1 .. N + 1 : j = g[k]
          BY Zenon, <1>11, <3>1
        <4>2. \E k \in 1 .. N + 1 : i = g[k]
          <5>1. N + 1 \in 1 .. N + 1
            OBVIOUS
          <5> QED BY Zenon, <1>11, <5>1
        <4>3. ASSUME NEW k \in 1 .. N + 1 PROVE g[k] \in taken \cup {i}
          BY Zenon, <1>11, <1>12
        <4> QED BY Zenon, <4>1, <4>2, <4>3
      <3> QED BY <1>1, <3>2
    <2>3. \A u \in Threads : thread[u].in \in Nat /\ thread[u].in <= N
      BY DEF Numbered, EventTypes, ThreadType
    <2>4. \A u \in Threads : thread'[u].in <= N + 1
      BY <1>2, <1>4, <2>3
    <2>5. \E u \in Threads : thread'[u].in = N + 1
      BY Zenon, <1>2, <1>4
    <2>6. ASSUME NEW u \in Threads, thread'[u].pc # "take"
          PROVE  thread'[u].id = IF thread'[u].in = 0 THEN 0 ELSE g[thread'[u].in]
      <3>1. CASE u = t
        <4>1. N + 1 # 0
          OBVIOUS
        <4> QED BY Zenon, <1>2, <1>4, <1>11, <3>1, <4>1
      <3>2. CASE u # t
        <4>1. thread[u].id = IF thread[u].in = 0 THEN 0 ELSE f[thread[u].in]
          BY Zenon, <1>4, <2>6, <3>2 DEF Numbered
        <4>2. thread[u].in # 0 => thread[u].in \in 1 .. N
          BY <2>3
        <4> QED BY Zenon, <1>4, <1>11, <3>2, <4>1, <4>2
      <3> QED BY Zenon, <3>1, <3>2
    <2>7. /\ \A u \in Threads : Marked(reg'[u], N + 1, g)
          /\ \A y \in Cells : Marked(memory'[y], N + 1, g)
      <3>1. /\ \A u \in Threads : Marked(reg[u], N + 1, g)
            /\ \A y \in Cells : Marked(memory[y], N + 1, g)
        BY Zenon, <1>13 DEF Numbered
      <3> QED BY Zenon, <1>1, <3>1
    <2>8. N + 1 + Cardinality(Entering') <= MaxLocks
      <3>1. Entering \subseteq Threads
        BY Zenon DEF Entering
      <3>2. IsFiniteSet(Entering) /\ Cardinality(Entering) \in Nat
        BY <3>1, FS_Subset, FS_CardinalityType DEF EventsOK
      <3>3. Cardinality(Entering \ {t}) = Cardinality(Entering) - 1
        BY Zenon, <1>6, <3>2, FS_RemoveElement
      <3>4. N + Cardinality(Entering) <= MaxLocks
        BY Zenon DEF Numbered
      <3> QED BY <1>6, <3>2, <3>3, <3>4 DEF EventsOK
    <2>9. g \in [1 .. N + 1 -> Ids]
      BY Zenon, <1>11
    <2> QED BY Zenon, <2>1, <2>2, <2>4, <2>5, <2>6, <2>7, <2>8, <2>9 DEF Numbered, Marked
  <1>15. N + 1 \in Nat
    OBVIOUS
  <1> QED BY Zenon, <1>5, <1>10, <1>14, <1>15

\* In a section, a dereferenced pointer has the thread's id exactly when it came
\* from that section.
LEMMA IdTellsSection ==
    ASSUME EventTypes, NEW N \in Nat, NEW f, Numbered(N, f), NEW t \in Threads,
           thread[t].pc = "run", InSection(t), NEW p, p.mark = "deref", Marked(p, N, f)
    PROVE  p.id = thread[t].id <=> p.in = thread[t].in
  <1>1. thread[t].in \in 1 .. N
    BY DEF EventTypes, ThreadType, InSection, Numbered
  <1>2. thread[t].in # 0
    BY <1>1
  <1>3. thread[t].id = f[thread[t].in]
    BY Zenon, <1>2 DEF Numbered
  <1>4. p.in \in 1 .. N /\ p.id = f[p.in]
    BY Zenon DEF Marked
  <1> QED BY Zenon, <1>1, <1>3, <1>4 DEF Numbered

\* An event other than those two is not one that ReportsAreRight is about.
LEMMA OtherEvent ==
    ASSUME NEW t \in Threads, NEW e, NEW ptr, NEW said, e \notin {"read", "dereference"},
           last' = [thread |-> t, event |-> e, ptr |-> ptr, said |-> said]
    PROVE  LastOK' /\ ReportsAreRight'
  <1>1. last'.thread = t /\ last'.event = e
    BY Zenon
  <1> QED BY Zenon, <1>1 DEF LastOK, ReportsAreRight

\* While no event happens, what was said about the last one stays right: its thread
\* is not one of those that enter a section.
LEMMA NoEvent ==
    ASSUME LastOK, ReportsAreRight, NEW t \in Threads, thread[t].pc # "run",
           \A u \in Threads \ {t} : thread'[u] = thread[u], last' = last
    PROVE  LastOK' /\ ReportsAreRight'
  <1>1. CASE last.event \in {"read", "dereference"}
    <2>1. thread'[last.thread] = thread[last.thread]
      BY Zenon, <1>1 DEF LastOK
    <2> QED BY Zenon, <2>1 DEF LastOK, ReportsAreRight, InSection
  <1>2. CASE last.event \notin {"read", "dereference"}
    BY Zenon, <1>2 DEF LastOK, ReportsAreRight
  <1> QED BY Zenon, <1>1, <1>2

\* The events of rcu_dereference.
LEMMA DereferenceStep ==
    ASSUME EventsOK, EventTypes, TakingOK, NEW N \in Nat, NEW f, Numbered(N, f),
           NEW t \in Threads, event_rcu_dereference(t)
    PROVE  EventTypes' /\ Numbered(N, f)' /\ TakingOK' /\ LastOK' /\ ReportsAreRight'
  <1> DEFINE th == thread[t]
             Said(ptr, p) ==
                 {s \in {"dereference outside", "unassigned address",
                         "unassigned value", "double", "double, wrong section"} :
                    CASE s = "dereference outside" -> ~InSection(t)
                      [] s = "unassigned address" ->
                             p.at \notin IF p.watched THEN assigned.watched ELSE assigned.unwatched
                      [] s = "unassigned value" -> ~IsWatched(ptr)
                      [] s = "double" -> ptr.mark = "deref" /\ ptr.id = th.id
                      [] OTHER -> ptr.mark = "deref" /\ ptr.id # th.id}
             Held(ptr) == IF InSection(t) THEN Deref(ptr.to, th.id, th.in) ELSE ptr
  <1>1. PICK p \in Places(t) :
           /\ th.pc = "run" /\ UNCHANGED <<thread, memory, NEXT_SECTION_ID, taken, assigned>>
           /\ reg' = [reg EXCEPT ![t] = Held(memory[p.at])]
           /\ last' = [thread |-> t, event |-> "dereference", ptr |-> memory[p.at],
                       said |-> Said(memory[p.at], p)]
    BY Zenon DEF event_rcu_dereference
  <1>2. PICK ptr : ptr = memory[p.at]
    OBVIOUS
  <1>3. /\ ptr \in MarkedType /\ Marked(ptr, N, f)
    BY Zenon, <1>2, PlacesOK DEF Numbered
  <1>4. Held(ptr) \in MarkedType /\ Marked(Held(ptr), N, f)
    <2>1. CASE InSection(t)
      <3>1. Held(ptr) = [to |-> ptr.to, mark |-> "deref", id |-> th.id, in |-> th.in]
        BY Zenon, <2>1 DEF Deref
      <3>2. th.in \in 1 .. N
        BY <2>1 DEF EventTypes, ThreadType, InSection, Numbered
      <3>3. th.in # 0
        BY <3>2
      <3>4. th.id = f[th.in]
        BY Zenon, <1>1, <3>3 DEF Numbered
      <3>5. th.id \in Ids /\ th.in \in Nat /\ ptr.to \in Objects
        BY <1>3 DEF EventTypes, ThreadType, MarkedType
      <3> HIDE DEF th, Held
      <3> QED BY <3>1, <3>2, <3>4, <3>5 DEF Marked, MarkedType
    <2>2. CASE ~ InSection(t)
      BY Zenon, <1>3, <2>2
    <2> QED BY Zenon, <2>1, <2>2
  <1>5. /\ reg' \in [Threads -> MarkedType] /\ reg'[t] = Held(ptr)
        /\ \A u \in Threads \ {t} : reg'[u] = reg[u]
    <2> HIDE DEF Held
    <2> QED BY Zenon, <1>1, <1>2, <1>4 DEF EventTypes
  <1>6. EventTypes' /\ Numbered(N, f)' /\ TakingOK'
    <2>1. \A u \in Threads : Marked(reg'[u], N, f)
      <3> HIDE DEF Held
      <3> QED BY Zenon, <1>4, <1>5 DEF Numbered
    <2>2. memory' = memory /\ memory \in [Cells -> MarkedType] /\ \A x \in Cells : Marked(memory[x], N, f)
      BY Zenon, <1>1 DEF Numbered, EventTypes
    <2>3. memory' \in [Cells -> MarkedType] /\ \A x \in Cells : Marked(memory'[x], N, f)
      BY Zenon, <2>2
    <2>4. UNCHANGED <<thread, NEXT_SECTION_ID, taken>>
      BY Zenon, <1>1
    <2> QED BY Zenon, <1>5, <2>1, <2>3, <2>4, MovesPointers
  <1>7. /\ last'.thread = t /\ last'.event = "dereference" /\ last'.ptr = ptr
        /\ last'.said = Said(ptr, p)
    BY Zenon, <1>1, <1>2
  <1>8. /\ "double" \in Said(ptr, p) <=> ptr.mark = "deref" /\ ptr.id = th.id
        /\ "double, wrong section" \in Said(ptr, p) <=> ptr.mark = "deref" /\ ptr.id # th.id
    OBVIOUS
  <1> HIDE DEF Said
  <1>9. LastOK' /\ ReportsAreRight'
    <2>1. ptr.mark = "deref" /\ InSection(t) => (ptr.id = th.id <=> ptr.in = th.in)
      BY Zenon, <1>1, <1>3, IdTellsSection
    <2>2. thread' = thread
      BY Zenon, <1>1
    <2>3. LastOK'
      BY Zenon, <1>1, <1>7, <2>2 DEF LastOK
    <2>4. InSection(t)' <=> InSection(t)
      BY Zenon, <2>2 DEF InSection
    <2>5. ReportsAreRight'
      <3> SUFFICES ASSUME ptr.mark = "deref", InSection(t)
                   PROVE  /\ "double" \in Said(ptr, p) <=> ptr.in = th.in
                          /\ "double, wrong section" \in Said(ptr, p) <=> ptr.in # th.in
        BY Zenon, <1>7, <2>2 DEF ReportsAreRight, InSection
      <3> QED BY Zenon, <1>8, <2>1
    <2> QED BY Zenon, <2>3, <2>5
  <1> QED BY Zenon, <1>6, <1>9

\* The events that leave the threads as they are and are no dereference: those of
\* rcu_assign_pointer, of the accesses, and what the program does itself.
LEMMA PointerSteps ==
    ASSUME EventsOK, EventTypes, TakingOK, NEW N \in Nat, NEW f, Numbered(N, f), NEW t \in Threads,
           event_rcu_assign_pointer(t) \/ instrumented_access(t) \/ Load(t) \/ Store(t)
    PROVE  EventTypes' /\ Numbered(N, f)' /\ TakingOK' /\ LastOK' /\ ReportsAreRight'
  <1>0. /\ reg \in [Threads -> MarkedType] /\ memory \in [Cells -> MarkedType]
        /\ \A u \in Threads : Marked(reg[u], N, f)
        /\ \A x \in Cells : Marked(memory[x], N, f)
    BY Zenon DEF EventTypes, Numbered
  <1>1. CASE event_rcu_assign_pointer(t)
    <2>1. PICK p \in Places(t), v \in {reg[t]} \cup {Plain(o) : o \in Objects} :
             /\ memory' = [memory EXCEPT ![p.at] = Assigned(v.to)]
             /\ \E said : last' = [thread |-> t, event |-> "assign", ptr |-> v, said |-> said]
             /\ UNCHANGED <<thread, reg, NEXT_SECTION_ID, taken>>
      BY Zenon, <1>1 DEF event_rcu_assign_pointer
    <2>2. v.to \in Objects
      BY <1>0 DEF Plain, MarkedType
    <2>3. Assigned(v.to) \in MarkedType /\ Assigned(v.to).mark = "assigned"
      <3>1. 0 \in Ids
        BY DEF EventsOK, Ids
      <3> QED BY <2>2, <3>1 DEF Assigned, MarkedType
    <2>4. p.at \in Cells
      BY Zenon, PlacesOK
    <2>5. /\ memory' \in [Cells -> MarkedType] /\ memory'[p.at] = Assigned(v.to)
          /\ \A x \in Cells \ {p.at} : memory'[x] = memory[x]
      BY Zenon, <1>0, <2>1, <2>3, <2>4
    <2>6. Marked(Assigned(v.to), N, f)
      BY <2>3 DEF Marked
    <2>7. \A x \in Cells : Marked(memory'[x], N, f)
      BY Zenon, <1>0, <2>5, <2>6
    <2>8. UNCHANGED <<thread, NEXT_SECTION_ID, taken>> /\ reg' = reg
      BY Zenon, <2>1
    <2>9. reg' \in [Threads -> MarkedType] /\ \A u \in Threads : Marked(reg'[u], N, f)
      BY Zenon, <1>0, <2>8
    <2>10. EventTypes' /\ Numbered(N, f)' /\ TakingOK'
      BY Zenon, <2>5, <2>7, <2>8, <2>9, MovesPointers
    <2>11. "assign" \notin {"read", "dereference"}
      OBVIOUS
    <2> QED BY Zenon, <2>1, <2>10, <2>11, OtherEvent
  <1>2. CASE Load(t)
    <2>1. PICK p \in Places(t) :
             /\ reg' = [reg EXCEPT ![t] = memory[p.at]]
             /\ last' = [thread |-> t, event |-> "load", ptr |-> reg[t], said |-> {}]
             /\ UNCHANGED <<thread, memory, NEXT_SECTION_ID, taken>>
      BY Zenon, <1>2 DEF Load, Happens
    <2>2. p.at \in Cells /\ memory[p.at] \in MarkedType /\ Marked(memory[p.at], N, f)
      BY Zenon, <1>0, PlacesOK
    <2>3. /\ reg' \in [Threads -> MarkedType] /\ reg'[t] = memory[p.at]
          /\ \A u \in Threads \ {t} : reg'[u] = reg[u]
      BY Zenon, <1>0, <2>1, <2>2
    <2>4. \A u \in Threads : Marked(reg'[u], N, f)
      BY Zenon, <1>0, <2>2, <2>3
    <2>5. UNCHANGED <<thread, NEXT_SECTION_ID, taken>> /\ memory' = memory
      BY Zenon, <2>1
    <2>6. memory' \in [Cells -> MarkedType] /\ \A x \in Cells : Marked(memory'[x], N, f)
      BY Zenon, <1>0, <2>5
    <2>7. EventTypes' /\ Numbered(N, f)' /\ TakingOK'
      BY Zenon, <2>3, <2>4, <2>5, <2>6, MovesPointers
    <2>8. "load" \notin {"read", "dereference"}
      OBVIOUS
    <2> QED BY Zenon, <2>1, <2>7, <2>8, OtherEvent
  <1>3. CASE Store(t)
    <2>1. PICK g \in Globals :
             /\ memory' = [memory EXCEPT ![g] = reg[t]]
             /\ last' = [thread |-> t, event |-> "store", ptr |-> reg[t], said |-> {}]
             /\ UNCHANGED <<thread, reg, NEXT_SECTION_ID, taken>>
      BY Zenon, <1>3 DEF Store, Happens
    <2>2. g \in Cells /\ reg[t] \in MarkedType /\ Marked(reg[t], N, f)
      BY Zenon, <1>0 DEF Cells
    <2>3. /\ memory' \in [Cells -> MarkedType] /\ memory'[g] = reg[t]
          /\ \A x \in Cells \ {g} : memory'[x] = memory[x]
      BY Zenon, <1>0, <2>1, <2>2
    <2>4. \A x \in Cells : Marked(memory'[x], N, f)
      BY Zenon, <1>0, <2>2, <2>3
    <2>5. UNCHANGED <<thread, NEXT_SECTION_ID, taken>> /\ reg' = reg
      BY Zenon, <2>1
    <2>6. reg' \in [Threads -> MarkedType] /\ \A u \in Threads : Marked(reg'[u], N, f)
      BY Zenon, <1>0, <2>5
    <2>7. EventTypes' /\ Numbered(N, f)' /\ TakingOK'
      BY Zenon, <2>3, <2>4, <2>5, <2>6, MovesPointers
    <2>8. "store" \notin {"read", "dereference"}
      OBVIOUS
    <2> QED BY Zenon, <2>1, <2>7, <2>8, OtherEvent
  <1>4. CASE instrumented_access(t)
    <2>1. /\ UNCHANGED <<thread, NEXT_SECTION_ID, taken>> /\ reg' = reg /\ memory' = memory
          /\ thread[t].pc = "run"
      BY Zenon, <1>4 DEF instrumented_access, access_assigned_pointer, write_to_deref_pointer,
                         read_from_deref_pointer
    <2>2. /\ reg' \in [Threads -> MarkedType] /\ memory' \in [Cells -> MarkedType]
          /\ \A u \in Threads : Marked(reg'[u], N, f)
          /\ \A x \in Cells : Marked(memory'[x], N, f)
      BY Zenon, <1>0, <2>1
    <2>3. EventTypes' /\ Numbered(N, f)' /\ TakingOK'
      BY Zenon, <2>1, <2>2, MovesPointers
    <2>4. "access" \notin {"read", "dereference"} /\ "write" \notin {"read", "dereference"}
      OBVIOUS
    <2>5. CASE access_assigned_pointer(t)
      BY Zenon, <2>3, <2>4, <2>5, OtherEvent DEF access_assigned_pointer, Happens
    <2>6. CASE write_to_deref_pointer(t)
      BY Zenon, <2>3, <2>4, <2>6, OtherEvent DEF write_to_deref_pointer, Happens
    <2>7. CASE reg[t].mark = "deref" /\ read_from_deref_pointer(t)
      <3> DEFINE said == IF ~InSection(t) THEN {"access of leaked"}
                         ELSE IF thread[t].id # reg[t].id THEN {"access of wrong"} ELSE {}
      <3>1. last' = [thread |-> t, event |-> "read", ptr |-> reg[t], said |-> said]
        BY Zenon, <2>7 DEF read_from_deref_pointer, Happens
      <3>2. InSection(t) => (reg[t].id = thread[t].id <=> reg[t].in = thread[t].in)
        BY Zenon, <1>0, <2>1, <2>7, IdTellsSection
      <3>3. said = {} <=> InSection(t) /\ reg[t].in = thread[t].in
        BY Zenon, <3>2
      <3> HIDE DEF said
      <3>4. last'.thread = t /\ last'.event = "read" /\ last'.ptr = reg[t] /\ last'.said = said
        BY Zenon, <3>1
      <3>5. ReportsAreRight'
        <4>1. thread' = thread
          BY Zenon, <2>1
        <4> QED BY <3>3, <3>4, <4>1 DEF ReportsAreRight, InSection
      <3>6. LastOK'
        BY Zenon, <2>1, <3>4 DEF LastOK
      <3> QED BY Zenon, <2>3, <3>5, <3>6
    <2> QED BY Zenon, <1>4, <2>5, <2>6, <2>7 DEF instrumented_access
  <1> QED BY Zenon, <1>1, <1>2, <1>3, <1>4

\* Every step keeps the ids of the sections apart and what was said right.
LEMMA NextEventInv ==
    ASSUME EventsOK, EventInv, [EventsNext]_eventVars
    PROVE  EventInv'
  <1>1. EventTypes /\ TakingOK /\ LastOK /\ ReportsAreRight
    BY Zenon DEF EventInv
  <1>0. PICK N \in Nat : \E f : Numbered(N, f)
    BY Zenon DEF EventInv
  <1>2. PICK f : Numbered(N, f)
    BY Zenon, <1>0
  <1>3. SUFFICES EventTypes' /\ TakingOK' /\ LastOK' /\ ReportsAreRight'
                 /\ \E M \in Nat : \E g : Numbered(M, g)'
    BY Zenon DEF EventInv
  <1>4. CASE UNCHANGED eventVars
    <2>1. UNCHANGED <<thread, reg, memory, NEXT_SECTION_ID, taken, last>>
      BY Zenon, <1>4 DEF eventVars
    <2>2. EventTypes' /\ LastOK' /\ ReportsAreRight'
      BY Zenon, <1>1, <2>1 DEF EventTypes, LastOK, ReportsAreRight, InSection
    <2>3. Entering' = Entering /\ Taking' = Taking /\ TakingIds' = TakingIds
      BY Zenon, <2>1 DEF Entering, Taking, TakingIds
    <2>4. TakingOK' /\ Numbered(N, f)'
      BY Zenon, <1>1, <1>2, <2>1, <2>3 DEF TakingOK, Numbered, Marked
    <2> QED BY Zenon, <2>2, <2>4
  <1>5. ASSUME NEW t \in Threads, event_rcu_read_lock(t)
        PROVE  EventTypes' /\ Numbered(N, f)' /\ TakingOK' /\ LastOK' /\ ReportsAreRight'
    <2>1. /\ thread[t].pc = "run" /\ UNCHANGED <<reg, memory, NEXT_SECTION_ID, taken>>
          /\ last' = [thread |-> t, event |-> "lock", ptr |-> reg[t], said |-> {}]
      BY Zenon, <1>5 DEF event_rcu_read_lock, Happens
    <2>2. LastOK' /\ ReportsAreRight'
      <3>1. "lock" \notin {"read", "dereference"}
        OBVIOUS
      <3> QED BY Zenon, <2>1, <3>1, OtherEvent
    <2>3. PICK r \in ThreadType : r = thread[t] /\ (r.depth > 0 => r.in > 0)
      BY Zenon, <1>1 DEF EventTypes
    <2>4. CASE InSection(t)
      <3> DEFINE x == [r EXCEPT !.depth = r.depth + 1]
      <3>1. thread' = [thread EXCEPT ![t] = x]
        <4>1. thread' = [thread EXCEPT ![t].depth = @ + 1]
          BY Zenon, <1>5, <2>4 DEF event_rcu_read_lock
        <4> QED BY <1>1, <2>3, <4>1 DEF EventTypes
      <3>2. /\ x \in ThreadType /\ x.pc = "run" /\ x.id = r.id /\ x.in = r.in /\ x.in > 0
        BY <2>1, <2>3, <2>4 DEF ThreadType, InSection
      <3> HIDE DEF x
      <3>3. x.id = thread[t].id /\ x.in = thread[t].in
        BY Zenon, <2>3, <3>2
      <3>4. EventTypes' /\ Numbered(N, f)' /\ TakingOK'
        BY Zenon, <1>1, <1>2, <2>1, <3>1, <3>2, <3>3, LocksOrUnlocks
      <3> QED BY Zenon, <2>2, <3>4
    <2>5. CASE ~ InSection(t)
      <3> DEFINE x == [r EXCEPT !.pc = "allocate"]
      <3>1. thread' = [thread EXCEPT ![t] = x] /\ Entered < MaxLocks
        <4>1. thread' = [thread EXCEPT ![t].pc = "allocate"] /\ Entered < MaxLocks
          BY Zenon, <1>5, <2>5 DEF event_rcu_read_lock
        <4> QED BY <1>1, <2>3, <4>1 DEF EventTypes
      <3>2. /\ x \in ThreadType /\ x.pc = "allocate" /\ x.id = r.id /\ x.in = r.in
            /\ x.depth = 0 /\ (x.depth > 0 => x.in > 0)
        BY <2>1, <2>3, <2>5 DEF ThreadType, InSection
      <3> HIDE DEF x
      <3>3. x.id = thread[t].id /\ x.in = thread[t].in
        BY Zenon, <2>3, <3>2
      <3>4. EventTypes' /\ Numbered(N, f)' /\ TakingOK'
        BY Zenon, <1>1, <1>2, <2>1, <3>1, <3>2, <3>3, LocksOrUnlocks
      <3> QED BY Zenon, <2>2, <3>4
    <2> QED BY Zenon, <2>4, <2>5
  <1>6. ASSUME NEW t \in Threads, event_rcu_read_unlock(t)
        PROVE  EventTypes' /\ Numbered(N, f)' /\ TakingOK' /\ LastOK' /\ ReportsAreRight'
    <2>1. /\ thread[t].pc = "run" /\ UNCHANGED <<reg, memory, NEXT_SECTION_ID, taken>>
          /\ thread' = [thread EXCEPT ![t].depth = IF @ > 0 THEN @ - 1 ELSE 0]
          /\ \E said : last' = [thread |-> t, event |-> "unlock", ptr |-> reg[t], said |-> said]
      BY Zenon, <1>6 DEF event_rcu_read_unlock, Happens
    <2>2. LastOK' /\ ReportsAreRight'
      <3>1. "unlock" \notin {"read", "dereference"}
        OBVIOUS
      <3> QED BY Zenon, <2>1, <3>1, OtherEvent
    <2>3. PICK r \in ThreadType : r = thread[t] /\ (r.depth > 0 => r.in > 0)
      BY Zenon, <1>1 DEF EventTypes
    <2> DEFINE d == IF r.depth > 0 THEN r.depth - 1 ELSE 0
               x == [r EXCEPT !.depth = d]
    <2>4. thread' = [thread EXCEPT ![t] = x]
      BY <1>1, <2>1, <2>3 DEF EventTypes
    <2>5. d \in Nat /\ (d > 0 => r.in > 0)
      BY <2>3 DEF ThreadType
    <2> HIDE DEF d
    <2>6. /\ x \in ThreadType /\ x.pc = "run" /\ x.id = r.id /\ x.in = r.in
          /\ x.depth > 0 => x.in > 0
      BY <2>1, <2>3, <2>5 DEF ThreadType
    <2> HIDE DEF x
    <2>7. x.id = thread[t].id /\ x.in = thread[t].in
      BY Zenon, <2>3, <2>6
    <2>8. EventTypes' /\ Numbered(N, f)' /\ TakingOK'
      BY Zenon, <1>1, <1>2, <2>1, <2>4, <2>6, <2>7, LocksOrUnlocks
    <2> QED BY Zenon, <2>2, <2>8
  <1>7. ASSUME NEW t \in Threads, allocate_section_id(t)
        PROVE  EventTypes' /\ Numbered(N, f)' /\ TakingOK' /\ LastOK' /\ ReportsAreRight'
    <2>1. EventTypes' /\ Numbered(N, f)' /\ TakingOK'
      BY Zenon, <1>1, <1>2, <1>7, SearchStep
    <2>2. thread[t].pc # "run" /\ last' = last
      BY <1>7 DEF allocate_section_id
    <2>3. \A u \in Threads \ {t} : thread'[u] = thread[u]
      BY Zenon, <1>1, <1>7 DEF allocate_section_id, EventTypes
    <2> QED BY Zenon, <1>1, <2>1, <2>2, <2>3, NoEvent
  <1>8. ASSUME NEW t \in Threads, TakeSection(t)
        PROVE  EventTypes' /\ TakingOK' /\ LastOK' /\ ReportsAreRight'
               /\ \E M \in Nat : \E g : Numbered(M, g)'
    <2>1. EventTypes' /\ TakingOK' /\ \E M \in Nat : \E g : Numbered(M, g)'
      BY Zenon, <1>1, <1>2, <1>8, SectionStep
    <2>2. thread[t].pc # "run" /\ last' = last
      BY <1>8 DEF TakeSection
    <2>3. \A u \in Threads \ {t} : thread'[u] = thread[u]
      BY Zenon, <1>1, <1>8 DEF TakeSection, EventTypes
    <2> QED BY Zenon, <1>1, <2>1, <2>2, <2>3, NoEvent
  <1>9. ASSUME NEW t \in Threads, event_rcu_dereference(t)
        PROVE  EventTypes' /\ Numbered(N, f)' /\ TakingOK' /\ LastOK' /\ ReportsAreRight'
    BY Zenon, <1>1, <1>2, <1>9, DereferenceStep
  <1>10. ASSUME NEW t \in Threads,
                event_rcu_assign_pointer(t) \/ instrumented_access(t) \/ Load(t) \/ Store(t)
         PROVE  EventTypes' /\ Numbered(N, f)' /\ TakingOK' /\ LastOK' /\ ReportsAreRight'
    BY Zenon, <1>1, <1>2, <1>10, PointerSteps
  <1> QED BY Zenon, <1>2, <1>4, <1>5, <1>6, <1>7, <1>8, <1>9, <1>10 DEF EventsNext

\* It holds at the start.
LEMMA InitEventInv ==
    ASSUME EventsOK, EventsInit
    PROVE  EventInv
  <1>1. PICK o \in Objects, u \in Threads :
           /\ memory = [p \in Cells |-> Plain(o)]
           /\ reg = [t \in Threads |-> Plain(o)]
           /\ last = [thread |-> u, event |-> "none", ptr |-> Plain(o), said |-> {}]
    BY Zenon DEF EventsInit, Cells
  <1>2. /\ thread = [t \in Threads |-> [depth |-> 0, id |-> 0, in |-> 0, pc |-> "run"]]
        /\ NEXT_SECTION_ID = 1 % MAX_NUM_SECTION_IDS /\ taken = {}
    BY Zenon DEF EventsInit
  <1>3. 0 \in Ids /\ NEXT_SECTION_ID \in Ids
    BY <1>2 DEF EventsOK, Ids
  <1>4. Plain(o) \in MarkedType /\ Plain(o).mark = "none"
    BY <1>3 DEF Plain, MarkedType
  <1>5. EventTypes
    BY <1>1, <1>2, <1>3, <1>4 DEF EventTypes, ThreadType
  <1>6. Entering = {} /\ Taking = {}
    BY <1>2 DEF Entering, Taking
  <1>7. PICK f : f = [k \in 1 .. 0 |-> 0]
    OBVIOUS
  <1>8. Numbered(0, f)
    <2>1. Cardinality(Entering) = 0
      BY Zenon, <1>6, FS_EmptySet
    <2>2. /\ \A t \in Threads : Marked(reg[t], 0, f)
          /\ \A x \in Cells : Marked(memory[x], 0, f)
      BY <1>1, <1>4 DEF Marked
    <2> QED BY <1>2, <1>7, <2>1, <2>2 DEF Numbered, EventsOK
  <1>9. TakingOK
    BY Zenon, <1>6 DEF TakingOK
  <1>10. LastOK /\ ReportsAreRight
    BY <1>1 DEF LastOK, ReportsAreRight
  <1>11. 0 \in Nat
    OBVIOUS
  <1> QED BY Zenon, <1>5, <1>8, <1>9, <1>10, <1>11 DEF EventInv

\* What the RCU debugger says of a read through a dereferenced pointer, and of a
\* second rcu_dereference, is right (rcudbg/events.cc, carat.cc): for any number of
\* threads and objects, as long as fewer sections are entered than there are ids.
THEOREM ReportsStayRight == ASSUME EventsOK PROVE EventsSpec => []ReportsAreRight
  <1>1. EventsInit => EventInv
    BY Zenon, InitEventInv
  <1>2. EventInv /\ [EventsNext]_eventVars => EventInv'
    BY Zenon, NextEventInv
  <1>3. EventInv => ReportsAreRight
    BY Zenon DEF EventInv
  <1> QED BY <1>1, <1>2, <1>3, PTL DEF EventsSpec
====
