------------------------------ MODULE Modules -------------------------------
(***************************************************************************)
(* module.c and kernel/linux/module.cc: Granary as a Linux module.  It     *)
(* follows the modules that the kernel loads and unloads, removes the      *)
(* execute permission of their text, and recognises their addresses when   *)
(* running that text faults: that is how a module's code comes to be       *)
(* instrumented.                                                           *)
(***************************************************************************)
EXTENDS Integers, Sequences

CONSTANTS Slots,      \* addresses of modules' text, in numbers of modules
          Granary,    \* the one at which Granary itself is
          TextPages,  \* the length of the text in each slot, in half pages
          KernelDoes  \* what the kernel does: a subset of {"reload", "early"}

VARIABLES loaded,     \* the state of the module in each slot, or "none"
          list,       \* LOADED_MODULES
          nx,         \* pages of text that are not executable
          device,     \* DEVICE_IS_OPEN, DEVICE_IS_INITIALISED
          wrapped     \* modules whose exit function has a dynamic wrapper

moduleVars == <<loaded, list, nx, device, wrapped>>

\* Pages have two halves; a slot is longer than any text.
SlotSize == 8

\* What is assumed of the constants: Granary is a module, and the text of a module
\* is whole pages, as the kernel's loader aligns it.
ModulesOK ==
    /\ Granary \in Slots
    /\ \A b \in Slots : b \in Nat /\ TextPages[b] \in {0, 2, 4, 6, 8}

-----------------------------------------------------------------------------
(* The list                                                                *)

\* The first entry for a base address; 0 if there is none.
Known(b) ==
    LET here == {i \in DOMAIN list : list[i].base = b}
    IN  IF here = {} THEN 0 ELSE CHOOSE i \in here : \A k \in here : i <= k

is_app_address(b) == Known(b) # 0 /\ ~list[Known(b)].is_granary
is_host_module(b) == Known(b) # 0 /\ list[Known(b)].is_granary

\* The page of a half, as PFN_DOWN gives it.
Text(b) == [begin |-> SlotSize * b, end |-> SlotSize * b + TextPages[b]]
PFN_DOWN(a) == a \div 2

\* As set_page_perms would be if the last whole page were left out.
set_page_perms_Short(r) ==
    IF r.begin = r.end THEN {}
    ELSE IF PFN_DOWN(r.end) > PFN_DOWN(r.begin) THEN PFN_DOWN(r.begin) .. PFN_DOWN(r.end) - 2
    ELSE {PFN_DOWN(r.begin)}

set_page_perms(r) ==
    IF r.begin = r.end THEN {}
    ELSE IF PFN_DOWN(r.end) > PFN_DOWN(r.begin) THEN PFN_DOWN(r.begin) .. PFN_DOWN(r.end) - 1
    ELSE {PFN_DOWN(r.begin)}

PagesOf(b) == {PFN_DOWN(a) : a \in Text(b).begin .. Text(b).end - 1}

Entry(b) == [base |-> b, is_granary |-> list = <<>>, state |-> "none",
             is_instrumented |-> device.initialised]

\* The entry of a module, the list, and the pages whose permission changes.
\* A module that comes again is entered anew, as the last of the list.
find_internal_module(b, state) ==
    LET i == Known(b)
        at == IF i = 0 THEN Len(list) + 1 ELSE i
    IN  CASE i # 0 /\ state # "coming" -> [i |-> i, list |-> list, nx |-> {}]
          [] i = 0 /\ state = "going" -> [i |-> 0, list |-> list, nx |-> {}]
          [] OTHER -> [i |-> at, list |-> Append(SubSeq(list, 1, at - 1), Entry(b)),
                       nx |-> IF list = <<>> THEN {} ELSE set_page_perms(Text(b))]

\* notify_module_state_change: the exit function of a new module is wrapped.
notify_module_state_change(m, state) ==
    wrapped' = IF ~m.is_granary /\ state = "coming" THEN wrapped \cup {m.base} ELSE wrapped

\* pages: those that are not executable when the kernel calls the notifier.
module_load_notifier(b, state, pages) ==
    LET f == find_internal_module(b, state)
    IN  IF f.i = 0 \/ ~f.list[f.i].is_instrumented
        THEN /\ list' = f.list
             /\ nx' = pages \cup f.nx
             /\ UNCHANGED wrapped
        ELSE /\ list' = [f.list EXCEPT ![f.i].state = state]
             /\ nx' = pages \cup f.nx \cup (IF state = "live" THEN {} ELSE set_page_perms(Text(b)))
             /\ notify_module_state_change(f.list[f.i], state)

-----------------------------------------------------------------------------

ModuleInit ==
    /\ loaded \in [Slots -> {"none", "live", "coming"}]
    /\ loaded[Granary] = "coming"
    /\ \A b \in Slots : loaded[b] = "coming" => b = Granary
    /\ list = <<>> /\ nx = {} /\ wrapped = {}
    /\ device = [open |-> 0, initialised |-> FALSE]

\* The kernel loads a module, with executable text.
Coming(b) ==
    /\ loaded[b] = "none"
    /\ list # <<>>
    /\ "early" \in KernelDoes \/ device.initialised
    /\ "reload" \in KernelDoes \/ Known(b) \in {0, Len(list)}
    /\ loaded' = [loaded EXCEPT ![b] = "coming"]
    /\ module_load_notifier(b, "coming", nx \ PagesOf(b))
    /\ UNCHANGED device

\* Its init function has returned. (Granary's own is the first notification.)
Live(b) ==
    /\ loaded[b] = "coming"
    /\ loaded' = [loaded EXCEPT ![b] = "live"]
    /\ module_load_notifier(b, "live", nx)
    /\ UNCHANGED device

\* Its exit function has returned; the memory is reset and freed.
Going(b) ==
    /\ loaded[b] = "live" /\ b # Granary /\ list # <<>>
    /\ loaded' = [loaded EXCEPT ![b] = "none"]
    /\ module_load_notifier(b, "going", nx)
    /\ UNCHANGED device

\* Opening the device initialises Granary the first time, and reports later.
device_open ==
    /\ list # <<>> /\ device.open = 0
    /\ device' = [open |-> 1, initialised |-> TRUE]
    /\ UNCHANGED <<loaded, list, nx, wrapped>>

device_close ==
    /\ device.open > 0
    /\ device' = [device EXCEPT !.open = @ - 1]
    /\ UNCHANGED <<loaded, list, nx, wrapped>>

ModuleNext ==
    \/ \E b \in Slots : Coming(b) \/ Live(b) \/ Going(b)
    \/ device_open \/ device_close

ModuleSpec == ModuleInit /\ [][ModuleNext]_moduleVars

-----------------------------------------------------------------------------

\* Running the text of a loaded module that may not be executed faults; the
\* fault is taken over: Granary is initialised and is_app_address recognises
\* the address, so that the module goes on in the code cache.  Granary itself
\* is never among those modules.
FaultsAreTakenOver ==
    /\ \A b \in Slots : loaded[b] \in {"coming", "live"} /\ PagesOf(b) \cap nx # {} =>
            device.initialised /\ is_app_address(b)
    /\ loaded[Granary] = "live" => is_host_module(Granary)

\* No instrumented module runs natively: each page of its text faults, up to
\* the moment that the module is gone, also when its memory was used before.
NoneRunsNatively ==
    \A b \in Slots : /\ b # Granary /\ loaded[b] \in {"coming", "live"} /\ Known(b) # 0
                     /\ list[Known(b)].is_instrumented
                     => PagesOf(b) \subseteq nx /\ b \in wrapped

\* A module that is loaded runs in the code cache: its pages fault, and each fault
\* is recognised as one of an instrumented module.
ModulesAreInstrumented == FaultsAreTakenOver /\ NoneRunsNatively
=============================================================================
