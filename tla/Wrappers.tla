------------------------------ MODULE Wrappers ------------------------------
(***************************************************************************)
(* Type-aware wrapping (wrapper.h, kernel/linux/wrappers.h) and dynamic    *)
(* wrappers (dynamic_wrapper.cc).  When instrumented code calls a wrapped  *)
(* host function, the function pointers in the object that it passes are   *)
(* replaced, down to some depth, by dynamic wrappers that lead back into   *)
(* the code cache.  Threads pass the same objects at the same time, and    *)
(* nothing but the hash tables is locked.                                  *)
(***************************************************************************)
EXTENDS Integers, Sequences, SequencesExt

CONSTANTS Threads,
          Type,        \* object -> its struct: tracker, relax, pre and post fields
          Fields,      \* object -> field -> Fn(f), Obj(o) or Null
          HostFuncs,   \* functions of host code, which is not instrumented here
          Depth,       \* MAX_PRE_WRAP_DEPTH and MAX_POST_WRAP_DEPTH
          MaxCalls     \* of wrapped host functions, by all threads

VARIABLES mem,      \* the fields of every object
          wrappers, \* the table of dynamic_wrapper.cc: function -> wrapper, 0 for none
          cache,    \* CODE_CACHE for the functions, under the policy of wrappers
          target,   \* what each dynamic wrapper calls
          thread,
          calls     \* the objects that were passed so far, in order

vars == <<mem, wrappers, cache, target, thread, calls>>

Null == [is |-> "null", n |-> 0]
Fn(f) == [is |-> "function", n |-> f]
Obj(o) == [is |-> "object", n |-> o]
Wrapper(w) == [is |-> "wrapper", n |-> w]
Translated(f) == [is |-> "translation", n |-> f]

Objects == DOMAIN Type
Funcs == {v.n : v \in {x \in UNION {Range(Fields[o]) : o \in Objects} : x.is = "function"}}

Idle == [pc |-> "idle", arg |-> 0, post |-> FALSE, frames |-> <<>>, fn |-> 0, found |-> Null]

Init ==
    /\ mem = Fields
    /\ wrappers = [f \in Funcs |-> 0] /\ cache = [f \in Funcs |-> Null]
    /\ target = <<>>
    /\ thread = [t \in Threads |-> Idle]
    /\ calls = <<>>

-----------------------------------------------------------------------------

will_dynamic_wrap(v) == v.is = "function"
is_dynamically_wrapped(v) == v.is = "wrapper"

\* ABORT_IF_SUB_FUNCTION_IS_WRAPPED: a function of the struct, or of one that
\* it points to, tells whether all of it has been wrapped.
Tracked(o, depth) ==
    \E tr \in {Type[o].tracker} :
        /\ tr # <<>>
        /\ IF Len(tr) = 1 THEN is_dynamically_wrapped(mem[o][tr[1]])
           ELSE /\ depth > 0 /\ mem[o][tr[1]].is = "object"
                /\ is_dynamically_wrapped(mem[mem[o][tr[1]].n][tr[2]])

\* The wrapper of a pointer, and that of the struct that it points to: what
\* is left to do, if anything. RELAX_WRAP_DEPTH comes after the check.
Enter(v, depth, post) ==
    IF v.is # "object" \/ depth <= 0 \/ Tracked(v.n, depth - 1) THEN <<>>
    ELSE <<[o |-> v.n, depth |-> depth - 1 + Type[v.n].relax,
            todo |-> IF post THEN Type[v.n].post ELSE Type[v.n].pre]>>

\* wrapped_function_impl::apply begins to pre-wrap the argument.
Apply(t) ==
    /\ thread[t].pc = "idle" /\ Len(calls) < MaxCalls
    /\ \E o \in Objects :
        /\ thread' = [thread EXCEPT ![t] = [Idle EXCEPT !.pc = "wrap", !.arg = o,
                                              !.frames = Enter(Obj(o), Depth, FALSE)]]
        /\ calls' = Append(calls, o)
    /\ UNCHANGED <<mem, wrappers, cache, target>>

Frame(t) == Last(thread[t].frames)
Field(t) == mem[Frame(t).o][Head(Frame(t).todo)]

\* The frames once the field in hand is done.
Rest(t) ==
    Front(thread[t].frames) \o <<[Frame(t) EXCEPT !.todo = Tail(@)]>>

\* PRE_OUT_WRAP of a pointer, or the end of a struct.
Descend(t) ==
    /\ thread[t].pc = "wrap" /\ thread[t].frames # <<>>
    /\ IF Frame(t).todo = <<>> THEN thread' = [thread EXCEPT ![t].frames = Front(@)]
       ELSE /\ ~will_dynamic_wrap(Field(t))
            /\ thread' = [thread EXCEPT ![t].frames =
                            Rest(t) \o Enter(Field(t), Frame(t).depth, FALSE)]
    /\ UNCHANGED <<mem, wrappers, cache, target, calls>>

\* WRAP_FUNCTION calls dynamic_wrapper_of, which looks in the table.
Load(t) ==
    /\ thread[t].pc = "wrap" /\ thread[t].frames # <<>>
    /\ Frame(t).todo # <<>> /\ will_dynamic_wrap(Field(t))
    /\ thread' = [thread EXCEPT ![t].fn = Field(t).n,
                                ![t].pc = IF wrappers[Field(t).n] # 0 THEN "assign" ELSE "find"]
    /\ UNCHANGED <<mem, wrappers, cache, target, calls>>

\* The code cache version of the function: found, or translated and added.
Find(t) ==
    /\ thread[t].pc = "find"
    /\ LET f == thread[t].fn
           found == IF f \in HostFuncs THEN Fn(f)
                    ELSE IF cache[f] # Null THEN cache[f] ELSE Translated(f)
       IN  /\ thread' = [thread EXCEPT ![t].pc = "store", ![t].found = found]
           /\ cache' = IF f \in HostFuncs THEN cache ELSE [cache EXCEPT ![f] = found]
    /\ UNCHANGED <<mem, wrappers, target, calls>>

\* As Store would be if it kept one wrapper for all functions of a type.
Store_PerType(t) ==
    /\ thread[t].pc = "store"
    /\ target' = Append(target, thread[t].found)
    /\ wrappers' = [f \in Funcs |-> Len(target')]
    /\ thread' = [thread EXCEPT ![t].pc = "add", ![t].found = Wrapper(Len(target'))]
    /\ UNCHANGED <<mem, cache, calls>>

\* The wrapper is encoded, and stored in the table.
Store(t) ==
    /\ thread[t].pc = "store"
    /\ target' = Append(target, thread[t].found)
    /\ wrappers' = [wrappers EXCEPT ![thread[t].fn] = Len(target')]
    /\ thread' = [thread EXCEPT ![t].pc = "add", ![t].found = Wrapper(Len(target'))]
    /\ UNCHANGED <<mem, cache, calls>>

\* code_cache::add overwrites: from now on the function is found as a wrapper.
Add(t) ==
    /\ thread[t].pc = "add"
    /\ cache' = [cache EXCEPT ![thread[t].fn] = thread[t].found]
    /\ thread' = [thread EXCEPT ![t].pc = "assign"]
    /\ UNCHANGED <<mem, wrappers, target, calls>>

\* dynamic_wrapper_of(lvalue) once more, and the assignment to the field.
Assign(t) ==
    /\ thread[t].pc = "assign"
    /\ mem' = [mem EXCEPT ![Frame(t).o][Head(Frame(t).todo)] =
                 IF will_dynamic_wrap(@) THEN Wrapper(wrappers[@.n]) ELSE @]
    /\ thread' = [thread EXCEPT ![t].pc = "wrap", ![t].frames = Rest(t)]
    /\ UNCHANGED <<wrappers, cache, target, calls>>

\* The host function is called, and the argument post-wrapped; or all is done.
Call(t) ==
    /\ thread[t].pc = "wrap" /\ thread[t].frames = <<>>
    /\ thread' = [thread EXCEPT ![t] =
                     IF @.post THEN Idle
                     ELSE [@ EXCEPT !.post = TRUE, !.frames = Enter(Obj(thread[t].arg), Depth, TRUE)]]
    /\ UNCHANGED <<mem, wrappers, cache, target, calls>>

Step(t) == Descend(t) \/ Load(t) \/ Find(t) \/ Store(t) \/ Add(t) \/ Assign(t) \/ Call(t)

Next == \E t \in Threads : Apply(t) \/ Step(t)

Spec == Init /\ [][Next]_vars

-----------------------------------------------------------------------------

\* Where a call of the value ends up, through wrappers of wrappers.
Leads ==
    LET l[n \in 0 .. Len(target), v \in {Wrapper(w) : w \in DOMAIN target}] ==
            IF target[v.n].is # "wrapper" \/ n = 0 THEN target[v.n] ELSE l[n - 1, target[v.n]]
    IN  [w \in DOMAIN target |-> l[Len(target), Wrapper(w)]]

Home(f) == IF f \in HostFuncs THEN Fn(f) ELSE Translated(f)

\* A function pointer that the host gets leads to the code cache version of
\* the function that instrumented code put there, whichever threads wrapped
\* it at once.
WrappersLeadHome ==
    \A o \in Objects : \A x \in DOMAIN mem[o] :
        mem[o][x].is = "wrapper" => Leads[mem[o][x].n] = Home(Fields[o][x].n)

\* The functions that wrapping the object should reach: breadth first, as
\* deep as the wrappers of its type go.
Reached(o) ==
    LET struct(p, d, post) ==
            {[o |-> p, x |-> x, d |-> d - 1 + Type[p].relax] :
                x \in Range(IF post THEN Type[p].post ELSE Type[p].pre)}
        r[n \in 0 .. Depth + 1] ==
            IF n = 0 THEN struct(o, Depth, FALSE) \union struct(o, Depth, TRUE)
            ELSE UNION {struct(Fields[c.o][c.x].n, c.d, FALSE) :
                          c \in {c \in r[n - 1] : Fields[c.o][c.x].is = "object" /\ c.d > 0}}
    IN  {c \in UNION {r[n] : n \in 0 .. Depth + 1} : Fields[c.o][c.x].is = "function"}

\* Once no thread is wrapping, every function pointer that is in reach of an
\* object that was passed to the host has been replaced, although a thread
\* leaves alone what another one has begun to wrap.
PassedIsWrapped ==
    (\A t \in Threads : thread[t].pc = "idle") =>
        \A i \in DOMAIN calls : \A c \in Reached(calls[i]) :
            is_dynamically_wrapped(mem[c.o][c.x])

\* The wrapping of objects that point at each other comes to an end: each
\* struct nests one level deeper, unless its wrapper relaxes the depth.
WrappingIsBounded ==
    \A t \in Threads :
        Len(thread[t].frames) <= Depth + FoldLeft(LAMBDA n, o : n + o.relax, 0, Type)

\* will_dynamic_wrap avoids "double-wrapping a wrapper": what a dynamic
\* wrapper calls is not a dynamic wrapper.
WrappersAreSingle == \A w \in DOMAIN target : target[w].is # "wrapper"
=============================================================================
