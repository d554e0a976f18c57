---------------------------- MODULE FiberScheduler ----------------------------
(***************************************************************************)
(* kernel/core/scheduler.salt and kernel/arch/x86_64/preempt_stub.S: the   *)
(* fiber scheduler of one core.                                            *)
(*                                                                         *)
(* Fiber 0 is the context that booted the core.  It spawns two kinds of    *)
(* fibers, preemptive threads (spawn) and async state machines             *)
(* (spawn_async), and runs them by calling sched_yield, which picks the    *)
(* next fiber from a two-level bitmap and calls its step function INLINE:  *)
(* the call returns READY or PENDING.  For a thread the step function is   *)
(* an assembly stub that resumes the thread with IRETQ and returns PENDING *)
(* when the timer interrupts it.  Two per-CPU words carry the stub's state:*)
(* sched_rsp (GS:[48], where to go back to; non-zero means "a thread is    *)
(* running") and saved_rsp (GS:[56], where the interrupted thread was      *)
(* saved).                                                                 *)
(*                                                                         *)
(* Because dispatch is a call, the running state is a stack of frames.     *)
(* A frame is a fiber and the stack its code executes on: an async step    *)
(* borrows its caller's stack, a thread has its own.  An address is the    *)
(* slab slot it lies in: base, frame pointer and saved RSP of a slot are   *)
(* one value.  Fiber ids, tracing and timing are left out.                 *)
(***************************************************************************)
EXTENDS Integers, Sequences, FiniteSets, FiniteSetsExt, Functions

CONSTANTS
    MAX_FIBERS,     \* slots of the fiber table
    GROUP_BITS,     \* bits of one l2 word (64)
    L2_GROUPS,      \* l2 words
    Slots,          \* slab slots of this core
    KSTACK,         \* the stack fiber 0 runs on
    NULL,
    Workloads,      \* which of sched_yield and fiber_exit thread bodies call themselves
                    \* (fiber_loop.S exports both): a set of such sets
    SPAWN_RACE      \* does fiber 0 spawn while a preempted thread is inside one of them?

ASSUME SizeAssumption  == /\ MAX_FIBERS \in Nat \ {0} /\ GROUP_BITS \in Nat \ {0}
                          /\ L2_GROUPS \in Nat \ {0}
                          /\ MAX_FIBERS <= GROUP_BITS * L2_GROUPS
ASSUME AddrAssumption  == KSTACK \notin Slots /\ NULL \notin Slots /\ KSTACK # NULL
\* A core's share of the slab: 10240 slots over at most 16 cores, 256 fibers.
ASSUME SlabAssumption  == IsFiniteSet(Slots) /\ Cardinality(Slots) >= MAX_FIBERS
ASSUME BodyAssumption  == /\ Workloads \subseteq SUBSET {"sched_yield", "fiber_exit"}
                          /\ SPAWN_RACE \in BOOLEAN

Fibers == 0 .. MAX_FIBERS - 1
Groups == 0 .. L2_GROUPS - 1
Bits   == 0 .. GROUP_BITS - 1
Addrs  == Slots \cup {KSTACK, NULL}

Fiber == [active : BOOLEAN,
          step_fn : {"null", "thread", "async"},
          task_frame : Addrs, stack_base : Addrs, stack_ptr : Addrs, ctx_ptr : Addrs]

\* One activation of a fiber: where its code runs and, in the kernel call it
\* is making, how far it got and the call's locals.
Frame == [fiber : Fibers, stack : Slots \cup {KSTACK},
          pc : {"body", "chosen", "done", "clear", "exit", "exit_clear", "switch"},
          cur : Fibers, next : Fibers, word : SUBSET Bits]

VARIABLES
    fibers, current, count, l1_summary, l2_details,     \* SchedulerState
    yield_pending,
    pending_reclaim,    \* PENDING_RECLAIMS of this core
    inuse,              \* slab slots handed out by pop_stack
    guarded,            \* slots whose lowest page vmm_clear_present unmapped
    sched_rsp,          \* GS:[48]: how many frames the scheduler's side keeps, 0 = none
    saved_rsp,          \* GS:[56]
    if_flag,            \* are interrupts enabled?
    frames,             \* the running frames, innermost last
    parked,             \* the frames saved on each stack
    workload,           \* the member of Workloads this kernel runs
    fault               \* the wild jump the core took, if any

bitmap == <<l1_summary, l2_details>>
memory == <<inuse, guarded, parked>>
vars == <<fibers, current, count, bitmap, yield_pending, pending_reclaim, memory,
          sched_rsp, saved_rsp, if_flag, frames, workload, fault>>

-----------------------------------------------------------------------------
(* The two-level bitmap *)

Group(f) == f \div GROUP_BITS
Bit(f)   == f % GROUP_BITS
Id(g, b) == g * GROUP_BITS + b

bitmap_set(f) ==
    /\ l2_details' = [l2_details EXCEPT ![Group(f)] = @ \cup {Bit(f)}]
    /\ l1_summary' = l1_summary \cup {Group(f)}

\* The store of bitmap_clear, after word was loaded from l2_details.
bitmap_clear(f, word) ==
    LET new_l2 == word \ {Bit(f)} IN
    /\ l2_details' = [l2_details EXCEPT ![Group(f)] = new_l2]
    /\ l1_summary' = IF new_l2 = {} THEN l1_summary \ {Group(f)} ELSE l1_summary

\* First free slot of each word that has one; spawn takes the first that exists.
FreeSlots == {Id(g, Min(Bits \ l2_details[g])) : g \in {h \in Groups : l2_details[h] # Bits}}
                \cap Fibers

\* Mutant of FindNext: only the summary is consulted once the group's higher
\* bits are exhausted, so fiber f's own group is never wrapped into.
FindNextNoWrap(f, l1, l2) ==
    LET above == {b \in l2[Group(f)] : b > Bit(f)}
        other == l1 \ {Group(f)}
        later == {h \in other : h > Group(f)}
        g     == IF later # {} THEN Min(later) ELSE Min(other)
    IN  IF above # {} THEN Id(Group(f), Min(above))
        ELSE IF other # {} THEN Id(g, Min(l2[g])) ELSE f

\* Mutant of FindNext: only fiber f's own group is searched.
FindNextInGroup(f, l1, l2) ==
    LET above == {b \in l2[Group(f)] : b > Bit(f)}
        below == {b \in l2[Group(f)] : b < Bit(f)}
    IN  IF above # {} THEN Id(Group(f), Min(above))
        ELSE IF below # {} THEN Id(Group(f), Min(below)) ELSE f

\* The four-phase search of sched_yield and fiber_exit from fiber f.
FindNext(f, l1, l2) ==
    LET g        == Group(f)
        above    == {b \in l2[g] : b > Bit(f)}
        l1_above == {h \in l1 : h > g}
        l1_below == {h \in l1 : h < g}
        below    == {b \in l2[g] : b < Bit(f)}
    IN  CASE above # {}                        -> Id(g, Min(above))
          [] above = {} /\ l1_above # {}       -> Id(Min(l1_above), Min(l2[Min(l1_above)]))
          [] above = {} /\ l1_above = {} /\ l1_below # {}
                                               -> Id(Min(l1_below), Min(l2[Min(l1_below)]))
          [] above = {} /\ l1_above = {} /\ l1_below = {} /\ below # {}
                                               -> Id(g, Min(below))
          [] OTHER                             -> f

-----------------------------------------------------------------------------
NoFiber == [active |-> FALSE, step_fn |-> "null", task_frame |-> NULL,
            stack_base |-> NULL, stack_ptr |-> NULL, ctx_ptr |-> NULL]

Activation(f, stack) == [fiber |-> f, stack |-> stack, pc |-> "body",
                         cur |-> f, next |-> f, word |-> {}]

\* The core after init: fiber 0 is active and in the bitmap, with no step_fn.
Init ==
    /\ fibers = [f \in Fibers |-> [NoFiber EXCEPT !.active = (f = 0)]]
    /\ current = 0
    /\ count = 1
    /\ l2_details = [g \in Groups |-> IF g = 0 THEN {0} ELSE {}]
    /\ l1_summary = {0}
    /\ yield_pending = FALSE
    /\ pending_reclaim = NULL
    /\ inuse = {} /\ guarded = {}
    /\ sched_rsp = 0 /\ saved_rsp = NULL
    /\ if_flag = FALSE
    /\ frames = <<Activation(0, KSTACK)>>
    /\ parked = [s \in Slots |-> <<>>]
    /\ workload \in Workloads
    /\ fault = "none"

Depth   == Len(frames)
Top     == frames[Depth]
At(pc)  == fault = "none" /\ Top.pc = pc
SetTop(frame) == [frames EXCEPT ![Depth] = frame]

\* Whose code is running?  A thread runs on a stack of its own.
OnBoot   == Depth = 1
InThread == Depth > 1 /\ Top.stack # frames[Depth - 1].stack
InAsync  == Depth > 1 /\ Top.stack = frames[Depth - 1].stack

\* pop_stack: any slot not handed out, or 0 (AllocPool).
Popped == IF inuse = Slots THEN {NULL} ELSE Slots \ inuse

\* Unmap the lowest page of a stack, or return without doing so when splitting
\* its huge page runs out of memory; map it again.
vmm_clear_present(s) == guarded' \in {guarded, guarded \cup ({s} \ {NULL})}
vmm_set_present(S)   == guarded' = guarded \ S

\* Fiber 0 (kmain and the code it calls) is the one that spawns.
MaySpawn == /\ At("body") /\ OnBoot
            /\ SPAWN_RACE \/ \A s \in Slots : \A a \in Range(parked[s]) : a.pc \in {"body", "switch"}
            /\ FreeSlots # {}

\* spawn.  Unmapping the guard page may split a huge page, which allocates a frame and so executes STI.
spawn ==
    /\ MaySpawn
    /\ \E base \in Popped :
         LET slot == Min(FreeSlots) IN
         /\ fibers' = [fibers EXCEPT ![slot] =
                [active |-> TRUE, step_fn |-> "thread", task_frame |-> NULL,
                 stack_base |-> base, stack_ptr |-> base, ctx_ptr |-> base]]
         /\ inuse'   = inuse \cup ({base} \ {NULL})
         /\ vmm_clear_present(base)
         /\ parked'  = [s \in Slots |-> IF s = base THEN <<Activation(slot, s)>> ELSE parked[s]]
         /\ bitmap_set(slot)
    /\ count' = count + 1
    /\ if_flag' \in {if_flag, TRUE}
    /\ UNCHANGED <<workload, current, yield_pending, pending_reclaim, sched_rsp, saved_rsp, frames, fault>>

\* Mutant of spawn_async: the fiber is not counted.
spawn_async_uncounted ==
    /\ MaySpawn
    /\ \E frame \in Popped :
         LET slot == Min(FreeSlots) IN
         /\ fibers' = [fibers EXCEPT ![slot] =
                [active |-> TRUE, step_fn |-> "async", task_frame |-> frame,
                 stack_base |-> NULL, stack_ptr |-> NULL, ctx_ptr |-> frame]]
         /\ inuse' = inuse \cup ({frame} \ {NULL})
         /\ parked' = [s \in Slots |-> IF s = frame THEN <<>> ELSE parked[s]]
         /\ bitmap_set(slot)
    /\ UNCHANGED <<workload, current, count, yield_pending, pending_reclaim, guarded, sched_rsp, saved_rsp,
                   if_flag, frames, fault>>

spawn_async ==
    /\ MaySpawn
    /\ \E frame \in Popped :
         LET slot == Min(FreeSlots) IN
         /\ fibers' = [fibers EXCEPT ![slot] =
                [active |-> TRUE, step_fn |-> "async", task_frame |-> frame,
                 stack_base |-> NULL, stack_ptr |-> NULL, ctx_ptr |-> frame]]
         /\ inuse' = inuse \cup ({frame} \ {NULL})
         /\ parked' = [s \in Slots |-> IF s = frame THEN <<>> ELSE parked[s]]
         /\ bitmap_set(slot)
    /\ count' = count + 1
    /\ UNCHANGED <<workload, current, yield_pending, pending_reclaim, guarded, sched_rsp, saved_rsp,
                   if_flag, frames, fault>>

\* Fiber 0 enables interrupts.
start ==
    /\ At("body") /\ OnBoot
    /\ if_flag' = TRUE
    /\ UNCHANGED <<workload, fibers, current, count, bitmap, yield_pending, pending_reclaim, memory,
                   sched_rsp, saved_rsp, frames, fault>>

-----------------------------------------------------------------------------
(* sched_yield, called by fiber 0 or by a thread's own code.  A thread can *)
(* be preempted inside it, so its search, its dispatch and the two halves  *)
(* of its bookkeeping are steps of their own.                              *)

Choose ==
    LET next == FindNext(current, l1_summary, l2_details) IN
    /\ At("body")
    /\ OnBoot \/ (InThread /\ "sched_yield" \in workload)
    /\ next # current
    /\ frames' = SetTop([Top EXCEPT !.pc = "chosen", !.cur = current, !.next = next])
    /\ current' = next
    /\ UNCHANGED <<workload, fibers, count, bitmap, yield_pending, pending_reclaim, memory,
                   sched_rsp, saved_rsp, if_flag, fault>>

Target == fibers[Top.next]

\* Is the context the step function gets the fiber's own?
SavedOn(s)  == s \in Slots /\ parked[s] # <<>> /\ parked[s][1].fiber = Top.next
OwnContext  == \/ Target.step_fn = "async" /\ Target.ctx_ptr = Target.task_frame
               \/ Target.step_fn = "thread" /\ SavedOn(Target.ctx_ptr)

\* invoke_task(0, 0): fiber 0, and a completed fiber, have no step function.
DispatchNull ==
    /\ At("chosen")
    /\ Target.step_fn = "null"
    /\ fault' = "null_step"
    /\ UNCHANGED <<workload, fibers, current, count, bitmap, yield_pending, pending_reclaim, memory,
                   sched_rsp, saved_rsp, if_flag, frames>>

\* The step function gets a context that is not the fiber's own: an async step
\* reads its state from another fiber's stack, a thread is resumed from one.
DispatchWild ==
    /\ At("chosen")
    /\ Target.step_fn # "null" /\ ~ OwnContext
    /\ fault' = "wild_ctx"
    /\ UNCHANGED <<workload, fibers, current, count, bitmap, yield_pending, pending_reclaim, memory,
                   sched_rsp, saved_rsp, if_flag, frames>>

DispatchAsync ==
    /\ At("chosen")
    /\ Target.step_fn = "async" /\ OwnContext
    /\ frames' = Append(frames, Activation(Top.next, Top.stack))
    /\ UNCHANGED <<workload, fibers, current, count, bitmap, yield_pending, pending_reclaim, memory,
                   sched_rsp, saved_rsp, if_flag, fault>>

\* Mutant of DispatchThread: the thread's frame has the interrupt flag clear.
DispatchThreadMasked ==
    /\ At("chosen")
    /\ Target.step_fn = "thread" /\ OwnContext
    /\ sched_rsp' = Depth
    /\ frames' = frames \o parked[Target.ctx_ptr]
    /\ parked' = [parked EXCEPT ![Target.ctx_ptr] = <<>>]
    /\ if_flag' = FALSE
    /\ UNCHANGED <<workload, fibers, current, count, bitmap, yield_pending, pending_reclaim,
                   inuse, guarded, saved_rsp, fault>>

\* invoke_preemptive_thread: remember the scheduler's side, resume what is
\* saved on the thread's stack, with the interrupt flag its frame holds.
DispatchThread ==
    /\ At("chosen")
    /\ Target.step_fn = "thread" /\ OwnContext
    /\ sched_rsp' = Depth
    /\ frames' = frames \o parked[Target.ctx_ptr]
    /\ parked' = [parked EXCEPT ![Target.ctx_ptr] = <<>>]
    /\ if_flag' = TRUE
    /\ UNCHANGED <<workload, fibers, current, count, bitmap, yield_pending, pending_reclaim,
                   inuse, guarded, saved_rsp, fault>>

\* The step function returned PENDING to the n-th frame: whatever GS:[56]
\* holds becomes the fiber's context.
Suspend(n, rsp) ==
    /\ fibers' = [fibers EXCEPT ![frames[n].next] =
           IF rsp # NULL THEN [@ EXCEPT !.stack_ptr = rsp, !.ctx_ptr = rsp] ELSE @]
    /\ frames' = Append(SubSeq(frames, 1, n - 1), Activation(frames[n].fiber, frames[n].stack))
    /\ current' = frames[n].cur
    /\ UNCHANGED <<workload, count, bitmap, inuse, guarded>>

\* It returned READY: the fiber's memory goes back to the slab ...
Reclaim(n) ==
    LET f     == fibers[frames[n].next]
        freed == {f.task_frame, f.stack_base} \ {NULL}
    IN  /\ fibers' = [fibers EXCEPT ![frames[n].next] =
               [NoFiber EXCEPT !.stack_ptr = IF f.stack_base # NULL THEN NULL ELSE f.stack_ptr]]
        /\ vmm_set_present(freed)
        /\ inuse'   = inuse \ freed
        /\ frames'  = Append(SubSeq(frames, 1, n - 1), [frames[n] EXCEPT !.pc = "done"])
        /\ UNCHANGED <<workload, current, count, bitmap>>

\* ... and it leaves the bitmap: the word is loaded,
ClearLoad ==
    /\ At("done")
    /\ frames' = SetTop([Top EXCEPT !.pc = "clear", !.word = l2_details[Group(Top.next)]])
    /\ UNCHANGED <<workload, fibers, current, count, bitmap, yield_pending, pending_reclaim, memory,
                   sched_rsp, saved_rsp, if_flag, fault>>

\* and stored, and sched_yield returns.
ClearStore ==
    /\ At("clear")
    /\ bitmap_clear(Top.next, Top.word)
    /\ count' = count - 1
    /\ current' = Top.cur
    /\ frames' = SetTop(Activation(Top.fiber, Top.stack))
    /\ UNCHANGED <<workload, fibers, yield_pending, pending_reclaim, memory,
                   sched_rsp, saved_rsp, if_flag, fault>>

-----------------------------------------------------------------------------
(* The ways a step function returns. *)

AsyncReady ==
    /\ At("body") /\ InAsync
    /\ Reclaim(Depth - 1)
    /\ UNCHANGED <<workload, yield_pending, pending_reclaim, sched_rsp, saved_rsp, if_flag, parked, fault>>

AsyncPending ==
    /\ At("body") /\ InAsync
    /\ Suspend(Depth - 1, saved_rsp)
    /\ UNCHANGED <<workload, yield_pending, pending_reclaim, sched_rsp, saved_rsp, if_flag, parked, fault>>

\* Mutant of TimerPreempt: the sentinel GS:[48] is not cleared.
TimerPreemptSentinel ==
    /\ fault = "none" /\ if_flag
    /\ sched_rsp # 0
    /\ parked' = [parked EXCEPT ![Top.stack] = SubSeq(frames, sched_rsp + 1, Depth)]
    /\ Suspend(sched_rsp, Top.stack)
    /\ saved_rsp' = Top.stack
    /\ if_flag' = FALSE
    /\ UNCHANGED <<workload, yield_pending, pending_reclaim, sched_rsp, fault>>

\* timer_isr_wrapper while a thread runs: preempt_return_to_scheduler.
TimerPreempt ==
    /\ fault = "none" /\ if_flag
    /\ sched_rsp # 0
    /\ parked' = [parked EXCEPT ![Top.stack] = SubSeq(frames, sched_rsp + 1, Depth)]
    /\ Suspend(sched_rsp, Top.stack)
    /\ saved_rsp' = Top.stack
    /\ sched_rsp' = 0
    /\ if_flag' = FALSE
    /\ UNCHANGED <<workload, yield_pending, pending_reclaim, fault>>

\* The timer fires in invoke_preemptive_thread after GS:[48] is set and before
\* CLI: the "thread" that is saved is the scheduler itself.
TimerInStub ==
    /\ At("chosen") /\ if_flag
    /\ Target.step_fn = "thread"
    /\ Suspend(Depth, Top.stack)
    /\ saved_rsp' = Top.stack
    /\ sched_rsp' = 0
    /\ if_flag' = FALSE
    /\ UNCHANGED <<workload, yield_pending, pending_reclaim, parked, fault>>

\* timer_isr_wrapper otherwise: timer_isr.
timer_isr ==
    /\ fault = "none" /\ if_flag
    /\ sched_rsp = 0
    /\ yield_pending' = TRUE
    /\ UNCHANGED <<workload, fibers, current, count, bitmap, pending_reclaim, memory,
                   sched_rsp, saved_rsp, if_flag, frames, fault>>

\* The thread's function returns into preemptive_exit_trampoline.
ThreadReturn ==
    /\ At("body") /\ InThread
    /\ sched_rsp # 0
    /\ Reclaim(sched_rsp)
    /\ sched_rsp' = 0
    /\ saved_rsp' = NULL
    /\ if_flag' = FALSE
    /\ UNCHANGED <<workload, yield_pending, pending_reclaim, parked, fault>>

\* ... with nothing in GS:[48]: RSP becomes 0.
ThreadReturnLost ==
    /\ At("body") /\ InThread
    /\ sched_rsp = 0
    /\ fault' = "null_stack"
    /\ UNCHANGED <<workload, fibers, current, count, bitmap, yield_pending, pending_reclaim, memory,
                   sched_rsp, saved_rsp, if_flag, frames>>

-----------------------------------------------------------------------------
(* fiber_exit, called by a thread's own code *)

\* Mutant of ExitStage: the staged stack is overwritten, not flushed.
ExitStageNoFlush ==
    /\ At("body") /\ InThread /\ "fiber_exit" \in workload
    /\ pending_reclaim' = fibers[current].stack_base
    /\ fibers' = [fibers EXCEPT ![current] =
           [@ EXCEPT !.active = FALSE, !.stack_ptr = NULL, !.stack_base = NULL]]
    /\ frames' = SetTop([Top EXCEPT !.pc = "exit", !.cur = current])
    /\ UNCHANGED <<workload, current, count, bitmap, yield_pending, memory, sched_rsp, saved_rsp,
                   if_flag, fault>>

\* Mutant of ExitStage: the staged stack is pushed with its guard page unmapped.
ExitStageGuarded ==
    /\ At("body") /\ InThread /\ "fiber_exit" \in workload
    /\ inuse' = inuse \ {pending_reclaim}
    /\ pending_reclaim' = fibers[current].stack_base
    /\ fibers' = [fibers EXCEPT ![current] =
           [@ EXCEPT !.active = FALSE, !.stack_ptr = NULL, !.stack_base = NULL]]
    /\ frames' = SetTop([Top EXCEPT !.pc = "exit", !.cur = current])
    /\ UNCHANGED <<workload, current, count, bitmap, yield_pending, guarded, parked, sched_rsp,
                   saved_rsp, if_flag, fault>>

\* Flush the stack an earlier fiber_exit left, stage this one.
\* One step: a tick between push_stack and the store that clears the staged
\* stack, where a second fiber_exit would push it again, is left out.
ExitStage ==
    /\ At("body") /\ InThread /\ "fiber_exit" \in workload
    /\ inuse' = inuse \ {pending_reclaim}
    /\ vmm_set_present({pending_reclaim})
    /\ pending_reclaim' = fibers[current].stack_base
    /\ fibers' = [fibers EXCEPT ![current] =
           [@ EXCEPT !.active = FALSE, !.stack_ptr = NULL, !.stack_base = NULL]]
    /\ frames' = SetTop([Top EXCEPT !.pc = "exit", !.cur = current])
    /\ UNCHANGED <<workload, current, count, bitmap, yield_pending, parked, sched_rsp, saved_rsp,
                   if_flag, fault>>

ExitClearLoad ==
    /\ At("exit")
    /\ frames' = SetTop([Top EXCEPT !.pc = "exit_clear", !.word = l2_details[Group(Top.cur)]])
    /\ UNCHANGED <<workload, fibers, current, count, bitmap, yield_pending, pending_reclaim, memory,
                   sched_rsp, saved_rsp, if_flag, fault>>

\* Mutant of ExitClearStore: the count is not decremented.
ExitClearNoCount ==
    /\ At("exit_clear")
    /\ bitmap_clear(Top.cur, Top.word)
    /\ frames' = SetTop([Top EXCEPT !.pc = "switch", !.word = {}])
    /\ UNCHANGED <<workload, fibers, current, count, yield_pending, pending_reclaim, memory,
                   sched_rsp, saved_rsp, if_flag, fault>>

ExitClearStore ==
    /\ At("exit_clear")
    /\ bitmap_clear(Top.cur, Top.word)
    /\ count' = count - 1
    /\ frames' = SetTop([Top EXCEPT !.pc = "switch", !.word = {}])
    /\ UNCHANGED <<workload, fibers, current, yield_pending, pending_reclaim, memory,
                   sched_rsp, saved_rsp, if_flag, fault>>

\* switch_stacks to the next fiber.  A fiber's stack_ptr is NULL (fiber 0,
\* async) or an IRETQ frame, never the frame switch_stacks pops: the switch
\* jumps to a wild address.
ExitSwitch ==
    LET next == FindNext(Top.cur, l1_summary, l2_details) IN
    /\ At("switch")
    /\ next # Top.cur
    /\ current' = next
    /\ fault' = "wild_switch"
    /\ UNCHANGED <<workload, fibers, count, bitmap, yield_pending, pending_reclaim, memory,
                   sched_rsp, saved_rsp, if_flag, frames>>

Dispatch   == DispatchNull \/ DispatchWild \/ DispatchAsync \/ DispatchThread
Yield      == Choose \/ Dispatch \/ ClearLoad \/ ClearStore
fiber_exit == ExitStage \/ ExitClearLoad \/ ExitClearStore \/ ExitSwitch

Next == \/ spawn \/ spawn_async \/ start
        \/ Yield
        \/ AsyncReady \/ AsyncPending
        \/ TimerPreempt \/ TimerInStub \/ timer_isr
        \/ ThreadReturn \/ ThreadReturnLost
        \/ fiber_exit

Spec == Init /\ [][Next]_vars

(* Fiber 0 keeps calling sched_yield while there are fibers, an async step  *)
(* function returns, and the timer keeps firing, but not in the stub's      *)
(* window of one instruction every time.  Nothing is assumed about thread   *)
(* bodies: they may run forever.                                            *)
Fairness == /\ WF_vars(OnBoot /\ Yield)
            /\ SF_vars(OnBoot /\ Dispatch)
            /\ WF_vars(AsyncReady \/ AsyncPending)
            /\ WF_vars(TimerPreempt)

FairSpec == Spec /\ Fairness

-----------------------------------------------------------------------------
TypeOK ==
    /\ fibers \in [Fibers -> Fiber]
    /\ current \in Fibers
    /\ count \in Nat
    /\ l1_summary \in SUBSET Groups
    /\ l2_details \in [Groups -> SUBSET Bits]
    /\ yield_pending \in BOOLEAN
    /\ pending_reclaim \in Addrs
    /\ inuse \in SUBSET Slots
    /\ guarded \in SUBSET Slots
    /\ sched_rsp \in Nat
    /\ saved_rsp \in Addrs
    /\ if_flag \in BOOLEAN
    /\ frames \in Seq(Frame)
    /\ parked \in [Slots -> Seq(Frame)]
    /\ workload \in Workloads
    /\ fault \in {"none", "null_step", "wild_ctx", "null_stack", "wild_switch"}

Active == {f \in Fibers : fibers[f].active}
Listed == {f \in Fibers : Bit(f) \in l2_details[Group(f)]}

\* All activations, running or saved, and the fibers they are taking out of
\* the bitmap.
Activations == Range(frames) \cup UNION {Range(parked[s]) : s \in Slots}
Leaving == {a.next : a \in {x \in Activations : x.pc \in {"done", "clear"}}}
           \cup {a.cur : a \in {x \in Activations : x.pc \in {"exit", "exit_clear"}}}

(* The two levels of the bitmap, the active flags and the count tell the   *)
(* same story: the bitmap lists the active fibers and those being taken    *)
(* out of it, a group's summary bit is set exactly if it lists a fiber (so *)
(* the search never reads an empty word), and fiber_count counts them.     *)
BitmapExact ==
    /\ Listed = Active \cup Leaving
    /\ \A g \in Groups : \A b \in l2_details[g] : Id(g, b) \in Fibers
    /\ l1_summary = {g \in Groups : l2_details[g] # {}}
    /\ count = Cardinality(Listed)

(* The four-phase search returns the cyclic successor of the fiber it       *)
(* starts from among the listed fibers, and the fiber itself only when      *)
(* there is no other.                                                       *)
CyclicSuccessor(f) ==
    LET after == {h \in Listed : h > f}
        other == Listed \ {f}
    IN  IF after # {} THEN Min(after) ELSE IF other # {} THEN Min(other) ELSE f

SearchIsCyclic ==
    \A f \in Fibers : FindNext(f, l1_summary, l2_details) = CyclicSuccessor(f)

(* Every slab slot has one owner: the stack or the task frame of an active  *)
(* fiber, or the staged stack of an exited one.  No slot is pushed twice,   *)
(* none is leaked, and no fiber is spawned without one, although spawn does *)
(* not check what pop_stack returned.                                       *)
Owned(f) == {fibers[f].task_frame, fibers[f].stack_base} \ {NULL}

SlotOwners ==
    /\ \A f \in Fibers : Cardinality(Owned(f)) = IF f \in Active \ {0} THEN 1 ELSE 0
    /\ \A f, h \in Fibers : f # h => Owned(f) \cap Owned(h) = {}
    /\ \A f \in Fibers : pending_reclaim \notin Owned(f)
    /\ inuse = (UNION {Owned(f) : f \in Fibers}) \cup ({pending_reclaim} \ {NULL})

(* A slot's guard page is unmapped only while it is a stack: a slot goes    *)
(* back to the slab, or becomes a task frame, with its link word mapped.    *)
GuardsOnlyStacks ==
    guarded \subseteq {fibers[f].stack_base : f \in Fibers} \cup {pending_reclaim}

(* When GS:[48] says a thread is running, the frame it would return to is   *)
(* the one that dispatched the innermost thread; fiber 0 never runs with it *)
(* set, so no timer tick can unwind the scheduler's own stack.              *)
SentinelNamesInvoker ==
    sched_rsp # 0 =>
        /\ sched_rsp < Len(frames)
        /\ frames[sched_rsp + 1].stack # frames[sched_rsp].stack
        /\ \A i \in sched_rsp + 1 .. Len(frames) : frames[i].stack = Top.stack

(* What the scheduler keeps in four places agrees at every step, also in    *)
(* the middle of a kernel call that a tick interrupts: the bitmap with the  *)
(* fiber table, the table with the slab, GS:[48] with the frames.           *)
TablesAgree == BitmapExact /\ SlotOwners /\ SentinelNamesInvoker

(* A thread cannot keep the core: the timer brings fiber 0 back, or the     *)
(* core has taken a wild jump.                                              *)
CoreRegained == (Len(frames) > 1) ~> (Len(frames) = 1 \/ fault # "none")

(* The fiber right above fiber 0 is always served.                          *)
InFrames(f) == \E i \in DOMAIN frames : frames[i].fiber = f
FirstServed ==
    \A f \in Fibers \ {0} :
        (f = CyclicSuccessor(0)) ~> (InFrames(f) \/ f # CyclicSuccessor(0) \/ fault # "none")

-----------------------------------------------------------------------------
(* Statements of the code's comments and of its documentation that the code *)
(* does not keep.                                                           *)

(* scheduler.salt: "async fibers dispatch via task_frame".                  *)
AsyncViaTaskFrame ==
    \A f \in Active : fibers[f].step_fn = "async" => fibers[f].ctx_ptr = fibers[f].task_frame

(* core/README.md: "Round-Robin Scheduler": every fiber gets its turn.      *)
EveryFiberServed ==
    \A f \in Fibers \ {0} : fibers[f].active ~> (InFrames(f) \/ ~ fibers[f].active \/ fault # "none")

(* scheduler.salt: "fiber stays in bitmap" until it completes.              *)
ActiveStaysListed == Active \subseteq Listed
=============================================================================
