-------------------------- MODULE KernelCallbacks --------------------------
(***************************************************************************)
(* The modules of module/ that give the kernel functions to call: a timer, *)
(* a tasklet, works, probes of tracepoints and of a function, interrupt    *)
(* handlers, files of /proc.  The kernel calls them on any processor while *)
(* the module is loaded, and while its exit function runs; after that the  *)
(* module's code and data are gone.                                        *)
(*     "timer"  timer_example       "sched"       sched_display            *)
(*     "tasklet"  tasklet           "tracepoint"  tracepoint_example       *)
(*     "work0"  workqueue0          "kprobe"      kprobe_example           *)
(*     "work1"  workqueue1          "irq"  irq_request_example             *)
(*     "irq_test"  irq_test         "normal"  proc_entry_normal_file       *)
(*     "entry0"  proc_entry0        "seq"  proc_entry_seq_file             *)
(* alloc_percpu and create_workqueue are taken to succeed.                 *)
(***************************************************************************)
EXTENDS ProcEntry

CONSTANTS
    Programs,       \* the modules that are checked
    LastExpiry      \* 10 in timer_example_expire__

OneShot == {"timer", "tasklet", "work0", "work1"}
Traced == {"sched", "tracepoint"}
Entries == {"normal", "seq"}

ASSUME CallbackAssumption ==
    /\ Programs \subseteq OneShot \cup Traced \cup Entries \cup {"entry0", "kprobe", "irq", "irq_test"}
    /\ IsFiniteSet(Cpus) /\ Cpus # {}
    /\ LastExpiry \in Nat \ {0} /\ NONE \notin {"callback", "rearmed"}

VARIABLES
    known,      \* the tracepoints that this kernel has
    found,      \* the entries whose tp tracepoint_lookup has set
    mod,        \* what insmod or rmmod does next; "gone": the memory is freed
    todo,       \* the callbacks that the loop of this step has still to treat
    hooked,     \* what the kernel may call: registered, armed or queued
    percpu,     \* the counters that are allocated, one for each probe
    count,      \* cnt of the timer
    seen        \* what exit found hooked or running, where it does not wait

kernelVars == <<program, known, entryVars>>
vars == <<kernelVars, found, mod, todo, hooked, call, percpu, count, seen>>

Callbacks(g) ==
    CASE g = "sched" -> {"wakeup", "switch", "migrate"}
      [] g \in Entries -> {"read", "write"}
      [] OTHER -> {"callback"}

Mine == Callbacks(program)

Running == {call[k] : k \in Cpus} \ {NONE}

Init ==
    /\ program \in Programs
    /\ known \in SUBSET Mine
    /\ program \notin Traced => known = Mine
    /\ found = {} /\ mod = "init" /\ todo = {} /\ hooked = {}
    /\ call = [k \in Cpus |-> NONE]
    /\ percpu = {} /\ count = 0 /\ seen = {}
    /\ EntryInit

Goto(from, to) == mod = from /\ mod' = to

------------------------------------------------------------------------------
(* Loading.                                                                *)

\* The init function hooks its callback, or fails to and then goes to l.
Hook ==
    /\ Goto("init", "live")
    /\ hooked' = Mine
    /\ UNCHANGED <<kernelVars, found, todo, call, percpu, count, seen>>

HookFails(l) ==
    /\ Goto("init", l)
    /\ UNCHANGED <<kernelVars, found, todo, hooked, call, percpu, count, seen>>

\* mod_timer, tasklet_schedule, schedule_work, queue_work.
timer_example_module_init == program = "timer" /\ Hook
tasklet_module_init == program = "tasklet" /\ Hook
workqueue0_init == program = "work0" /\ Hook
workqueue1_init == program = "work1" /\ Hook

\* register_kprobe, request_irq: irq_test goes on when it fails.
kprobe_init == program = "kprobe" /\ (Hook \/ HookFails("failed"))
irq_request_init == program = "irq" /\ (Hook \/ HookFails("failed"))
irq_test_init == program = "irq_test" /\ (Hook \/ HookFails("live"))

\* proc_mkdir and proc_create_data; when the second fails the directory goes.
\* proc_entry0 does not look at what proc_create returned.
proc_entry2_init == program = "normal" /\ (Hook \/ HookFails("failed"))
proc_entry1_init == program = "seq" /\ (Hook \/ HookFails("failed"))
proc_entry0_init == program = "entry0" /\ (Hook \/ HookFails("live"))

\* alloc_percpu for each probe; the entries are reset.
AllocPercpu ==
    /\ program \in Traced
    /\ Goto("init", "find")
    /\ percpu' = Mine
    /\ found' = {}
    /\ UNCHANGED <<kernelVars, todo, hooked, call, count, seen>>

\* tracepoint_lookup, called by the kernel for one of its tracepoints.
TracepointLookup ==
    /\ mod = "find"
    /\ \E c \in known \ found : found' = found \cup {c}
    /\ UNCHANGED <<kernelVars, mod, todo, hooked, call, percpu, count, seen>>

\* The kernel has no more tracepoints: found_num is compared with init_num.
FindTracepoints ==
    /\ mod = "find" /\ found = known
    /\ mod' = IF found = Mine THEN "register" ELSE "failed"
    /\ todo' = found
    /\ UNCHANGED <<kernelVars, found, hooked, call, percpu, count, seen>>

\* A registration that fails is only printed.
RegisterProbe(c) ==
    /\ mod = "register" /\ c \in todo
    /\ todo' = todo \ {c}
    /\ mod' = IF todo' = {} THEN "live" ELSE "register"
    /\ hooked' \in {hooked, hooked \cup {c}}
    /\ UNCHANGED <<kernelVars, found, call, percpu, count, seen>>

InitFails ==
    /\ Goto("failed", "gone")
    /\ UNCHANGED <<kernelVars, found, todo, hooked, call, percpu, count, seen>>

------------------------------------------------------------------------------
(* The callbacks, on processor k.                                          *)

\* A callback that is armed or queued is taken out before it is called, and
\* the kernel runs it on one processor at a time, also when it is armed again.
Fire(k, c) ==
    /\ c \in hooked /\ call[k] = NONE
    /\ program \in OneShot => Running = {}
    /\ call' = [call EXCEPT ![k] = c]
    /\ hooked' = IF program \in OneShot THEN hooked \ {c} ELSE hooked
    /\ UNCHANGED <<kernelVars, found, mod, todo, percpu, count, seen>>

Return(k) == call' = [call EXCEPT ![k] = NONE]

\* Mutant: the timer is armed again whatever the count.
ExpireAgain(k) ==
    /\ program = "timer" /\ call[k] = "callback"
    /\ count' = IF count < LastExpiry THEN count + 1 ELSE count
    /\ hooked' = Mine
    /\ call' = [call EXCEPT ![k] = "rearmed"]
    /\ UNCHANGED <<kernelVars, found, mod, todo, percpu, seen>>

\* timer_example_expire__: mod_timer, or del_timer the tenth time ...
Expire(k) ==
    /\ program = "timer" /\ call[k] = "callback"
    /\ count' = count + 1
    /\ hooked' = IF count' = LastExpiry THEN {} ELSE Mine
    /\ call' = [call EXCEPT ![k] = "rearmed"]
    /\ UNCHANGED <<kernelVars, found, mod, todo, percpu, seen>>

\* ... and what it prints while it may be armed already.
ExpireReturns(k) ==
    /\ program = "timer" /\ call[k] = "rearmed"
    /\ Return(k)
    /\ UNCHANGED <<kernelVars, found, mod, todo, hooked, percpu, count, seen>>

\* The other callbacks print, and count what nobody reads.
Counts(k) ==
    /\ call[k] # NONE
    /\ Return(k)
    /\ UNCHANGED <<kernelVars, found, mod, todo, hooked, percpu, count, seen>>

Probe(k) == program \in Traced /\ Counts(k)
handler_pre(k) == program = "kprobe" /\ Counts(k)
example_interrupt(k) == program = "irq" /\ Counts(k)
intr_handler(k) == program = "irq_test" /\ Counts(k)
tasklet_hello(k) == program = "tasklet" /\ Counts(k)
pet_entry_show(k) == program = "entry0" /\ Counts(k)
work_func(k) == program \in {"work0", "work1"} /\ Counts(k)

\* Reads and writes of a file of /proc, and its user.
Entry(k) ==
    /\ program \in Entries
    /\ EntryCall(k) \/ Reopen(k)
    /\ UNCHANGED <<program, known, found, mod, todo, hooked, percpu, count, seen>>

------------------------------------------------------------------------------
(* Unloading.                                                              *)

\* timer_example_exit: the test of timer_pending.
ExitPending ==
    /\ program = "timer"
    /\ Goto("live", IF hooked # {} THEN "delete" ELSE "freed")
    /\ seen' = Running
    /\ UNCHANGED <<kernelVars, found, todo, hooked, call, percpu, count>>

\* Mutant: the exit function leaves the armed timer alone.
ExitNoDelete ==
    /\ Goto("delete", "freed")
    /\ seen' = seen \cup Running
    /\ UNCHANGED <<kernelVars, found, todo, hooked, call, percpu, count>>

\* del_timer does not wait for a handler that runs.
ExitDelete ==
    /\ Goto("delete", "freed")
    /\ hooked' = {}
    /\ seen' = seen \cup Running
    /\ UNCHANGED <<kernelVars, found, todo, call, percpu, count>>

\* The exit functions of tasklet and workqueue0 only print.
PrintOnly ==
    /\ Goto("live", "freed")
    /\ seen' = Running \cup hooked
    /\ UNCHANGED <<kernelVars, found, todo, hooked, call, percpu, count>>

tasklet_module_exit == program = "tasklet" /\ PrintOnly
workqueue0_exit == program = "work0" /\ PrintOnly

\* flush_workqueue waits for the work; then destroy_workqueue.
workqueue1_exit ==
    /\ program = "work1"
    /\ hooked = {} /\ Running = {}
    /\ Goto("live", "freed")
    /\ UNCHANGED <<kernelVars, found, todo, hooked, call, percpu, count, seen>>

\* unregister_kprobe and free_irq return when the handler runs nowhere, and
\* remove_proc_entry when no call of the file's operations is under way.
Unhook ==
    /\ \/ Goto("live", "wait") /\ hooked' = {}
       \/ Goto("wait", "freed") /\ Running = {} /\ UNCHANGED hooked
    /\ UNCHANGED <<kernelVars, found, todo, call, percpu, count, seen>>

kprobe_exit == program = "kprobe" /\ Unhook
irq_request_exit == program = "irq" /\ Unhook
irq_test_exit == program = "irq_test" /\ Unhook
proc_entry2_exit == program = "normal" /\ Unhook
proc_entry1_exit == program = "seq" /\ Unhook
proc_entry0_exit == program = "entry0" /\ Unhook

\* Each entry is unregistered, whether its registration failed or not.
UnregisterProbe(c) ==
    /\ mod = "live" /\ program \in Traced
    /\ c \in Mine \ todo
    /\ todo' = todo \cup {c}
    /\ hooked' = hooked \ {c}
    /\ UNCHANGED <<kernelVars, found, mod, call, percpu, count, seen>>

\* Mutant: the counters are freed without waiting.
FreeAtOnce ==
    /\ mod = "live" /\ program \in Traced /\ todo = Mine
    /\ mod' = "free"
    /\ UNCHANGED <<kernelVars, found, todo, hooked, call, percpu, count, seen>>

\* tracepoint_synchronize_unregister.
Synchronize ==
    /\ mod = "live" /\ program \in Traced /\ todo = Mine
    /\ Running = {}
    /\ mod' = "free"
    /\ UNCHANGED <<kernelVars, found, todo, hooked, call, percpu, count, seen>>

\* free_percpu.
FreePercpu ==
    /\ Goto("free", "freed")
    /\ percpu' = {}
    /\ UNCHANGED <<kernelVars, found, todo, hooked, call, count, seen>>

\* The exit function has returned; rmmod frees the module.
Gone ==
    /\ Goto("freed", "gone")
    /\ UNCHANGED <<kernelVars, found, todo, hooked, call, percpu, count, seen>>

------------------------------------------------------------------------------
Load ==
    \/ timer_example_module_init \/ tasklet_module_init \/ workqueue0_init \/ workqueue1_init
    \/ kprobe_init \/ irq_request_init \/ irq_test_init
    \/ proc_entry2_init \/ proc_entry1_init \/ proc_entry0_init
    \/ AllocPercpu \/ TracepointLookup \/ FindTracepoints \/ (\E c \in Mine : RegisterProbe(c))
    \/ InitFails

Body(k) ==
    \/ Expire(k) \/ ExpireReturns(k) \/ Probe(k) \/ handler_pre(k) \/ example_interrupt(k) 
    \/ intr_handler(k) \/ tasklet_hello(k) \/ work_func(k) \/ pet_entry_show(k)

Unload ==
    \/ ExitPending \/ ExitDelete \/ tasklet_module_exit \/ workqueue0_exit \/ workqueue1_exit
    \/ kprobe_exit \/ irq_request_exit \/ irq_test_exit
    \/ proc_entry2_exit \/ proc_entry1_exit \/ proc_entry0_exit
    \/ (\E c \in Mine : UnregisterProbe(c)) \/ Synchronize \/ FreePercpu
    \/ Gone

Next ==
    \/ Load
    \/ \E k \in Cpus : Body(k) \/ Entry(k) \/ \E c \in Mine : Fire(k, c)
    \/ Unload

Spec == Init /\ [][Next]_vars

\* The kernel calls what is armed or queued, and callbacks return.  Nobody
\* need ever remove the module.
FairSpec ==
    /\ Spec
    /\ WF_vars(Load)
    /\ \A k \in Cpus : WF_vars(Body(k))
    /\ WF_vars(program \in OneShot /\ \E k \in Cpus, c \in Mine : Fire(k, c))

------------------------------------------------------------------------------
(* Properties; ReadsText is in ProcEntry.                                  *)

\* When the module's memory is gone nothing runs in it and the kernel holds
\* no pointer into it: for every module whose exit function waits, however
\* many registrations failed; for the others, if exit overlapped no callback.
NothingLeft ==
    mod = "gone" /\ (hooked # {} \/ Running # {}) =>
        program \in {"timer", "tasklet", "work0"} /\ seen # {}

\* A probe finds its counter allocated, also one that the kernel had begun
\* to call before it was unregistered.
CountersThere ==
    program \in Traced => Running \cup hooked \subseteq percpu

\* Left alone, the timer stops by itself, after its last expiry and not before.
TimerStops ==
    program = "timer" => (mod \in {"init", "live"} ~> (mod \notin {"init", "live"} \/ count = LastExpiry))
                         /\ [](count = LastExpiry => hooked = {})
=============================================================================
