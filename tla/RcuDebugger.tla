---------------------------- MODULE RcuDebugger -----------------------------
(***************************************************************************)
(* The RCU debugger.                                                        *)
(*                                                                         *)
(* Its events (rcudbg/events.cc, carat.cc): what rcu_read_lock,             *)
(* rcu_read_unlock, rcu_dereference and rcu_assign_pointer record and how   *)
(* they mark the pointers, and what is then said when a marked pointer is   *)
(* accessed. Threads share the pointers and the sections.                   *)
(*                                                                         *)
(* Its message log (rcudbg/log.h, log.cc): threads log messages while       *)
(* report, which may be asked for again, prints them.                       *)
(***************************************************************************)
EXTENDS Integers, Sequences, FiniteSets

CONSTANTS Threads,
          Globals,               \* variables that point to objects
          Objects,               \* objects; each has one field that points to one
          MAX_NUM_SECTION_IDS,
          MaxLocks,              \* bound: how often a section is entered
          MAX_NUM_MESSAGES,
          MaxLogged,             \* bound: how many messages are logged
          MaxReports             \* bound: how often a report is asked for

\* What is assumed of the constants: there are fewer sections than ids.
EventsOK ==
    /\ IsFiniteSet(Threads)
    /\ MAX_NUM_SECTION_IDS \in Nat \ {0}
    /\ MaxLocks \in 0 .. MAX_NUM_SECTION_IDS - 1

\* And for the log.
LogOK == MAX_NUM_MESSAGES \in Nat \ {0} /\ MaxLogged \in Nat

VARIABLES thread,            \* the state of each thread
          reg,               \* the pointer that each thread holds
          memory,            \* the pointer in every variable and field
          NEXT_SECTION_ID,   \* modulo MAX_NUM_SECTION_IDS
          taken,             \* the ids whose section_info has a thread
          assigned,          \* the two sets of shadow bits
          last               \* the last event, and what was logged for it

eventVars == <<thread, reg, memory, NEXT_SECTION_ID, taken, assigned, last>>

\* A pointer: the bits above the address say that it is unwatched, that it was
\* given to rcu_assign_pointer, or that it came from rcu_dereference in the
\* section with an id. in is the section itself, which no bit stands for.
Plain(o) == [to |-> o, mark |-> "none", id |-> 0, in |-> 0]
Assigned(o) == [to |-> o, mark |-> "assigned", id |-> 0, in |-> 0]
Deref(o, id, in) == [to |-> o, mark |-> "deref", id |-> id, in |-> in]

IsWatched(p) == p.mark # "none"

\* Where a pointer is: in a variable, or in a field that another points to.
VarAt(g) == [at |-> g, watched |-> FALSE, deref |-> FALSE]
FieldAt(p) == [at |-> p.to, watched |-> IsWatched(p), deref |-> p.mark = "deref"]
Places(t) == {VarAt(g) : g \in Globals} \cup {FieldAt(reg[t])}

Happens(t, event, said) == last' = [thread |-> t, event |-> event, ptr |-> reg[t], said |-> said]

-----------------------------------------------------------------------------

EventsInit ==
    /\ \E o \in Objects, u \in Threads :
        /\ memory = [p \in Globals \cup Objects |-> Plain(o)]
        /\ reg = [t \in Threads |-> Plain(o)]
        /\ last = [thread |-> u, event |-> "none", ptr |-> Plain(o), said |-> {}]
    /\ thread = [t \in Threads |-> [depth |-> 0, id |-> 0, in |-> 0, pc |-> "run"]]
    /\ NEXT_SECTION_ID = 1 % MAX_NUM_SECTION_IDS
    /\ taken = {}
    /\ assigned = [watched |-> {}, unwatched |-> {}]

Sections == {thread[t].in : t \in Threads} \cup {0}
Newest == CHOOSE n \in Sections : \A m \in Sections : m <= n
Entered == Newest + Cardinality({t \in Threads : thread[t].pc # "run"})
InSection(t) == thread[t].depth > 0

\* As event_rcu_read_lock would be if each lock began a section of its own.
event_rcu_read_lock_Each(t) ==
    /\ thread[t].pc = "run" /\ thread[t].depth < 2 /\ Entered < MaxLocks
    /\ thread' = [thread EXCEPT ![t].pc = "allocate"]
    /\ Happens(t, "lock", {})
    /\ UNCHANGED <<reg, memory, NEXT_SECTION_ID, taken, assigned>>

\* Only the outermost lock needs an id, which it gets in allocate_section_id.
event_rcu_read_lock(t) ==
    /\ thread[t].pc = "run" /\ thread[t].depth < 2
    /\ IF InSection(t)
       THEN thread' = [thread EXCEPT ![t].depth = @ + 1]
       ELSE Entered < MaxLocks /\ thread' = [thread EXCEPT ![t].pc = "allocate"]
    /\ Happens(t, "lock", {})
    /\ UNCHANGED <<reg, memory, NEXT_SECTION_ID, taken, assigned>>

\* One turn of the loop of allocate_section_id: the next id is passed over if
\* it is the thread's last one, or if its section_info has a thread.
allocate_section_id(t) ==
    /\ thread[t].pc = "allocate"
    /\ NEXT_SECTION_ID' = (NEXT_SECTION_ID + 1) % MAX_NUM_SECTION_IDS
    /\ IF NEXT_SECTION_ID \in taken \cup {thread[t].id} THEN UNCHANGED thread
       ELSE thread' = [thread EXCEPT ![t].pc = "take", ![t].id = NEXT_SECTION_ID]
    /\ UNCHANGED <<reg, memory, taken, assigned, last>>

\* Its end, which fills in the section_info, and that of event_rcu_read_lock.
TakeSection(t) ==
    /\ thread[t].pc = "take"
    /\ taken' = taken \cup {thread[t].id}
    /\ thread' = [thread EXCEPT ![t].depth = @ + 1, ![t].pc = "run",
                                ![t].in = IF InSection(t) THEN @ ELSE Newest + 1]
    /\ UNCHANGED <<reg, memory, NEXT_SECTION_ID, assigned, last>>

event_rcu_read_unlock(t) ==
    /\ thread[t].pc = "run"
    /\ thread' = [thread EXCEPT ![t].depth = IF @ > 0 THEN @ - 1 ELSE 0]
    /\ Happens(t, "unlock", IF InSection(t) THEN {} ELSE {"unlock outside"})
    /\ UNCHANGED <<reg, memory, NEXT_SECTION_ID, taken, assigned>>

\* p is where the pointer is read, and ptr the pointer that is found there.
event_rcu_dereference(t) ==
    \E p \in Places(t) :
        LET ptr == memory[p.at]
            th == thread[t]
            shadow == IF p.watched THEN assigned.watched ELSE assigned.unwatched
        IN  /\ th.pc = "run"
            /\ reg' = [reg EXCEPT ![t] = IF InSection(t) THEN Deref(ptr.to, th.id, th.in) ELSE ptr]
            /\ last' = [thread |-> t, event |-> "dereference", ptr |-> ptr,
                        said |-> {s \in {"dereference outside", "unassigned address",
                                         "unassigned value", "double", "double, wrong section"} :
                          CASE s = "dereference outside" -> ~InSection(t)
                            [] s = "unassigned address" -> p.at \notin shadow
                            [] s = "unassigned value" -> ~IsWatched(ptr)
                            [] s = "double" -> ptr.mark = "deref" /\ ptr.id = th.id
                            [] OTHER -> ptr.mark = "deref" /\ ptr.id # th.id}]
            /\ UNCHANGED <<thread, memory, NEXT_SECTION_ID, taken, assigned>>

\* v is the pointer that the thread holds, or that of an object of its own.
event_rcu_assign_pointer(t) ==
    \E p \in Places(t), v \in {reg[t]} \cup {Plain(o) : o \in Objects} :
        /\ thread[t].pc = "run"
        /\ assigned' = IF ~p.watched THEN [assigned EXCEPT !.unwatched = @ \cup {p.at}]
                       ELSE IF p.deref THEN assigned
                       ELSE [assigned EXCEPT !.watched = @ \cup {p.at}]
        /\ memory' = [memory EXCEPT ![p.at] = Assigned(v.to)]
        /\ last' = [thread |-> t, event |-> "assign", ptr |-> v,
                    said |-> {s \in {"assign in section", "assign to dereferenced",
                                     "assign with dereferenced"} :
                      CASE s = "assign in section" -> InSection(t)
                        [] s = "assign to dereferenced" -> p.deref
                        [] OTHER -> v.mark = "deref"}]
        /\ UNCHANGED <<thread, reg, NEXT_SECTION_ID, taken>>

\* The visitors of accesses through watched pointers.
access_assigned_pointer(t) ==
    /\ thread[t].pc = "run"
    /\ Happens(t, "access", {"access of assigned"})
    /\ UNCHANGED <<thread, reg, memory, NEXT_SECTION_ID, taken, assigned>>

write_to_deref_pointer(t) ==
    /\ thread[t].pc = "run"
    /\ Happens(t, "write", {"write to dereferenced"})
    /\ UNCHANGED <<thread, reg, memory, NEXT_SECTION_ID, taken, assigned>>

read_from_deref_pointer(t) ==
    /\ thread[t].pc = "run"
    /\ Happens(t, "read", IF ~InSection(t) THEN {"access of leaked"}
                          ELSE IF thread[t].id # reg[t].id THEN {"access of wrong"} ELSE {})
    /\ UNCHANGED <<thread, reg, memory, NEXT_SECTION_ID, taken, assigned>>

\* The code that is called before an access through a watched pointer, by the
\* bit that says whether the pointer was dereferenced or assigned.
instrumented_access(t) ==
    \/ reg[t].mark = "assigned" /\ access_assigned_pointer(t)
    \/ reg[t].mark = "deref" /\ write_to_deref_pointer(t)
    \/ reg[t].mark = "deref" /\ read_from_deref_pointer(t)

\* The program: a pointer is read or written without these events.
Load(t) ==
    /\ thread[t].pc = "run"
    /\ \E p \in Places(t) : reg' = [reg EXCEPT ![t] = memory[p.at]]
    /\ Happens(t, "load", {})
    /\ UNCHANGED <<thread, memory, NEXT_SECTION_ID, taken, assigned>>

Store(t) ==
    /\ thread[t].pc = "run"
    /\ \E g \in Globals : memory' = [memory EXCEPT ![g] = reg[t]]
    /\ Happens(t, "store", {})
    /\ UNCHANGED <<thread, reg, NEXT_SECTION_ID, taken, assigned>>

EventsNext == \E t \in Threads :
    \/ event_rcu_read_lock(t) \/ allocate_section_id(t) \/ TakeSection(t)
    \/ event_rcu_read_unlock(t) \/ event_rcu_dereference(t) \/ event_rcu_assign_pointer(t)
    \/ instrumented_access(t) \/ Load(t) \/ Store(t)

EventsSpec == EventsInit /\ [][EventsNext]_eventVars

FairEventsSpec == EventsSpec /\ \A t \in Threads : WF_eventVars(allocate_section_id(t) \/ TakeSection(t))

-----------------------------------------------------------------------------

\* While ids last, a read through a dereferenced pointer is reported exactly
\* when the section that it was dereferenced in is not the one that the thread
\* is in, whoever dereferenced it; and a second rcu_dereference is told from one in
\* another section.
ReportsAreRight ==
    LET t == last.thread
        own == InSection(t) /\ last.ptr.in = thread[t].in
    IN  /\ last.event = "read" => (last.said = {} <=> own)
        /\ last.event = "dereference" /\ last.ptr.mark = "deref" /\ InSection(t) =>
              ("double" \in last.said <=> own) /\ ("double, wrong section" \in last.said <=> ~own)

\* A thread that enters a section gets an id for it.
LocksReturn == \A t \in Threads : thread[t].pc = "allocate" ~> thread[t].pc = "run"

-----------------------------------------------------------------------------
(* The message log.                                                        *)

VARIABLES NEXT_LOG_OFFSET, MESSAGES,
          writer,             \* what each thread is logging
          reader,             \* report: where it is, and its copy of a message
          logged, reports,    \* how many messages and reports there were
          printed             \* what was printed last, and from which slot

logVars == <<NEXT_LOG_OFFSET, MESSAGES, writer, reader, logged, reports, printed>>

\* A message with the number n has the id n, and n in both of its arguments;
\* the id 0 is MESSAGE_NOT_READY.
NotReady == 0
Empty == [id |-> NotReady, a |-> 0, b |-> 0]
NotLogging == [pc |-> "idle", n |-> 0, index |-> 0]
Waiting == [pc |-> "wait", i |-> 0, end |-> 0, id |-> NotReady, cont |-> Empty]
Slots == 0 .. MAX_NUM_MESSAGES - 1

LogInit ==
    /\ NEXT_LOG_OFFSET = 0
    /\ MESSAGES = [i \in Slots |-> Empty]
    /\ writer = [t \in Threads |-> NotLogging]
    /\ reader = Waiting
    /\ logged = 0 /\ reports = 0
    /\ printed = [m |-> Empty, i |-> 0, report |-> 0]

-----------------------------------------------------------------------------

\* log: the offset is taken with fetch_add; messages beyond the last are lost.
TakeOffset(t) ==
    /\ writer[t].pc = "idle" /\ logged < MaxLogged
    /\ NEXT_LOG_OFFSET' = NEXT_LOG_OFFSET + 1
    /\ logged' = logged + 1
    /\ writer' = IF NEXT_LOG_OFFSET >= MAX_NUM_MESSAGES THEN writer
                 ELSE [writer EXCEPT ![t] = [pc |-> "claim", n |-> logged + 1, index |-> NEXT_LOG_OFFSET]]
    /\ UNCHANGED <<MESSAGES, reader, reports, printed>>

\* As WriteMessage would be if the id were stored before the arguments.
WriteMessage_IdFirst(t) ==
    LET w == writer[t]
        Then(pc, field, value) == /\ writer' = [writer EXCEPT ![t].pc = pc]
                                  /\ MESSAGES' = [MESSAGES EXCEPT ![w.index][field] = value]
    IN  /\ \/ w.pc = "claim" /\ Then("a", "id", w.n)
           \/ w.pc = "a" /\ Then("b", "a", w.n)
           \/ w.pc = "b" /\ Then("idle", "b", w.n)
        /\ UNCHANGED <<NEXT_LOG_OFFSET, reader, logged, reports, printed>>

\* The id is stored last; it was taken back before the arguments are stored.
WriteMessage(t) ==
    LET w == writer[t]
        Then(pc, field, value) == /\ writer' = [writer EXCEPT ![t].pc = pc]
                                  /\ MESSAGES' = [MESSAGES EXCEPT ![w.index][field] = value]
    IN  /\ \/ w.pc = "claim" /\ Then("a", "id", NotReady)
           \/ w.pc = "a" /\ Then("b", "a", w.n)
           \/ w.pc = "b" /\ Then("id", "b", w.n)
           \/ w.pc = "id" /\ Then("idle", "id", w.n)
        /\ UNCHANGED <<NEXT_LOG_OFFSET, reader, logged, reports, printed>>

-----------------------------------------------------------------------------
(* report                                                                  *)

\* The number of messages is at least MAX_NUM_MESSAGES.
StartReport ==
    /\ reader.pc = "wait" /\ reports < MaxReports
    /\ reports' = reports + 1
    /\ reader' = [Waiting EXCEPT !.pc = "next",
                    !.end = IF MAX_NUM_MESSAGES > NEXT_LOG_OFFSET THEN MAX_NUM_MESSAGES
                            ELSE NEXT_LOG_OFFSET]
    /\ UNCHANGED <<NEXT_LOG_OFFSET, MESSAGES, writer, logged, printed>>

\* What is beyond the array is some value.
Read(i) == IF i \in Slots THEN {MESSAGES[i]} ELSE {Empty, [id |-> MaxLogged + 1, a |-> 0, b |-> 0]}

LookAtMessage ==
    /\ reader.pc = "next" /\ reader.i < reader.end
    /\ \E m \in Read(reader.i) :
        reader' = IF m.id = NotReady THEN [reader EXCEPT !.i = @ + 1] ELSE [reader EXCEPT !.pc = "id"]
    /\ UNCHANGED <<NEXT_LOG_OFFSET, MESSAGES, writer, logged, reports, printed>>

\* The loop: the id, then the copy, whose own id is compared with it. The test
\* for an invalid id, a conjunction, never holds.
ReadId ==
    /\ reader.pc = "id"
    /\ \E m \in Read(reader.i) : reader' = [reader EXCEPT !.pc = "copy", !.id = m.id]
    /\ UNCHANGED <<NEXT_LOG_OFFSET, MESSAGES, writer, logged, reports, printed>>

CopyMessage ==
    /\ reader.pc = "copy"
    /\ \E m \in Read(reader.i) :
        reader' = IF m.id # reader.id /\ m.id # NotReady THEN [reader EXCEPT !.pc = "id"]
                  ELSE [reader EXCEPT !.pc = "print", !.cont = m]
    /\ UNCHANGED <<NEXT_LOG_OFFSET, MESSAGES, writer, logged, reports, printed>>

PrintMessage ==
    /\ reader.pc = "print"
    /\ printed' = [m |-> [reader.cont EXCEPT !.id = reader.id], i |-> reader.i, report |-> reports]
    /\ reader' = [reader EXCEPT !.pc = "next", !.i = @ + 1]
    /\ UNCHANGED <<NEXT_LOG_OFFSET, MESSAGES, writer, logged, reports>>

EndReport ==
    /\ reader.pc = "next" /\ reader.i = reader.end
    /\ NEXT_LOG_OFFSET' = 0
    /\ reader' = Waiting
    /\ UNCHANGED <<MESSAGES, writer, logged, reports, printed>>

report == StartReport \/ LookAtMessage \/ ReadId \/ CopyMessage \/ PrintMessage \/ EndReport

LogNext == report \/ \E t \in Threads : TakeOffset(t) \/ WriteMessage(t)

LogSpec == LogInit /\ [][LogNext]_logVars

-----------------------------------------------------------------------------

\* What report prints is a message that was logged, with its own arguments.
ReportIsConsistent == LET m == printed.m IN m.id = m.a /\ m.a = m.b /\ m.id <= MaxLogged

\* The same of the messages in the array until a report has made its slots
\* free again: threads may log while the report copies.
FirstReportIsConsistent ==
    printed.report <= 1 /\ printed.i \in Slots => ReportIsConsistent
=============================================================================
