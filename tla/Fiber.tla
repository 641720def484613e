------------------------------- MODULE Fiber -------------------------------
(***************************************************************************)
(* The coroutines of src/src/fiber.cpp: construction, swapIn, the two      *)
(* yields, MainFunc, reset, destruction, and the two thread_local pointers *)
(* that say which fiber a thread executes and which one is its main fiber. *)
(*                                                                         *)
(* A sub-fiber has a stack of its own; the main fiber of a thread stands   *)
(* for the thread's native stack, so the main fiber of thread t is named   *)
(* by t itself.  What a thread really executes (stack) is kept apart from  *)
(* what the library believes it executes (t_fiber).                        *)
(*                                                                         *)
(* Next is the client fiber.h documents: sub-fibers are created, swapped   *)
(* in and reset by a thread's main fiber, after GetThis, through a         *)
(* shared_ptr it holds, and a call is made whenever its @pre holds:        *)
(* getState() != EXEC for swapIn, INIT, TERM or EXCEPT for reset.  The     *)
(* @pre tells no caller that a thread is still inside the fiber, because   *)
(* the yields and MainFunc publish the state before swapOut has saved the  *)
(* context.  A fiber may move between threads.  The yields are called in   *)
(* callbacks, and outside of them, too.                                    *)
(***************************************************************************)
EXTENDS Naturals, FiniteSets

CONSTANTS
  Threads,   \* the OS threads
  Subs,      \* every sub-fiber object the program constructs in its lifetime
  NULL       \* nullptr

ASSUME FiberAssumption ==
  /\ IsFiniteSet(Threads)
  /\ IsFiniteSet(Subs)
  /\ Threads \cap Subs = {}
  /\ NULL \notin Threads \cup Subs

Fibers == Threads \cup Subs

State == {"INIT", "HOLD", "EXEC", "TERM", "READY", "EXCEPT"}

(***************************************************************************)
(* A ucontext_t: the stack it lives on and where on it execution resumes.  *)
(* "made"   before MainFunc (makecontext), or in the main-fiber constructor*)
(* "swapIn" inside swapIn, about to return to its caller                   *)
(* "yield"  inside YieldToReady/YieldToHold, about to return to the        *)
(*          callback                                                       *)
(* "end"    after the last swapOut of MainFunc                             *)
(***************************************************************************)
Point == {"made", "swapIn", "yield", "end"}
Context(s, p) == [stack |-> s, at |-> p]

VARIABLES
  m_id, m_state, m_cb, m_ctx,  \* the fields of every fiber object
  alive,           \* the objects constructed and not yet destructed
  ref,             \* ref[f]: the threads whose own code holds a shared_ptr to f
  own,             \* own[f]: the shared_ptrs to f in frames of f's own stack
  s_fiber_id, s_fiber_count,   \* the two atomic counters
  t_fiber, t_threadFiber,      \* the two thread_local pointers
  stack,           \* stack[t]: the stack thread t executes on
  pc,              \* where thread t is in the library, or in user code
  failed,          \* the ASSERT_MACRO that aborted the process, "sharedStack"
                   \* (undefined behaviour follows), or "none"
  early            \* history: the fibers swapped in or reset while a thread was
                   \* still on their stack, or swapped in after their end

object  == <<m_id, m_state, m_cb, m_ctx>>
life    == <<alive, ref, own, s_fiber_id, s_fiber_count>>
thread  == <<t_fiber, t_threadFiber, stack, pc>>
vars    == <<object, life, thread, failed, early>>

(***************************************************************************)
(* User code runs at "run".  "switchIn" is between the state change of     *)
(* swapIn and its swapcontext; "yieldOut" and "endOut" are the same gap in *)
(* a yield and at the end of MainFunc.                                     *)
(***************************************************************************)
PC == {"run", "switchIn", "yieldOut", "endOut", "exited"}

Init ==
  /\ m_id = [f \in Fibers |-> 0]
  /\ m_state = [f \in Fibers |-> "INIT"]
  /\ m_cb = [f \in Fibers |-> FALSE]
  /\ m_ctx = [f \in Fibers |-> Context(f, "made")]
  /\ alive = {}
  /\ ref = [f \in Subs |-> {}]
  /\ own = [f \in Subs |-> 0]
  /\ s_fiber_id = 0
  /\ s_fiber_count = 0
  /\ t_fiber = [t \in Threads |-> NULL]
  /\ t_threadFiber = [t \in Threads |-> NULL]
  /\ stack = [t \in Threads |-> t]
  /\ pc = [t \in Threads |-> "run"]
  /\ failed = "none"
  /\ early = {}

-----------------------------------------------------------------------------
(* Helpers *)

\* Thread t executes user code on its native stack.
InMain(t) == pc[t] = "run" /\ stack[t] = t /\ failed = "none"

\* Thread t executes the callback of a sub-fiber.
InCallback(t) == pc[t] = "run" /\ stack[t] \in Subs /\ failed = "none"

\* A thread other than t executes on the stack of f.
Occupied(f, t) == \E u \in Threads \ {t} : stack[u] = f

\* Mutants of Unreferenced: every copy deletes; the copies in the fiber's own
\* frames do not count; only they count; the count never reaches zero.
UnreferencedAlways(r, n)  == TRUE
UnreferencedOutside(r, n) == r = {}
UnreferencedInside(r, n)  == n = 0
UnreferencedNever(r, n)   == FALSE

\* The shared_ptr count of f is zero once r are the outside copies and n the
\* copies in f's own frames.
Unreferenced(r, n) == r = {} /\ n = 0

\* Mutant of Release: the counter is forgotten.
ReleaseUncounted(f, state) ==
  /\ alive' = alive \ {f}
  /\ failed' = IF state \in {"TERM", "EXCEPT", "INIT"} THEN "none" ELSE "~Fiber"
  /\ UNCHANGED s_fiber_count

\* ~Fiber of a sub-fiber, run when the last shared_ptr goes: the count drops,
\* the assertion on the state is evaluated, the stack is freed.
Release(f, state) ==
  /\ alive' = alive \ {f}
  /\ s_fiber_count' = s_fiber_count - 1
  /\ failed' = IF state \in {"TERM", "EXCEPT", "INIT"} THEN "none" ELSE "~Fiber"

Keep == UNCHANGED <<alive, s_fiber_count, failed>>

-----------------------------------------------------------------------------
(* Fiber::Fiber(), the main fiber *)
MainFiber(t) ==
  /\ m_state' = [m_state EXCEPT ![t] = "EXEC"]
  /\ m_ctx' = [m_ctx EXCEPT ![t] = Context(t, "made")]
  /\ t_fiber' = [t_fiber EXCEPT ![t] = t]
  /\ alive' = alive \cup {t}
  /\ s_fiber_count' = s_fiber_count + 1

(* Fiber::GetThis on a thread that has no fiber yet *)
GetThis(t) ==
  /\ InMain(t)
  /\ t_fiber[t] = NULL
  /\ MainFiber(t)
  /\ t_threadFiber' = [t_threadFiber EXCEPT ![t] = t]
  /\ UNCHANGED <<m_id, m_cb, ref, own, s_fiber_id, stack, pc, failed, early>>

(* Fiber::Fiber(cb, stack_size) *)
NewFiber(t, f) ==
  /\ InMain(t)
  /\ m_id[f] = 0
  /\ s_fiber_id' = s_fiber_id + 1
  /\ m_id' = [m_id EXCEPT ![f] = s_fiber_id']
  /\ m_cb' = [m_cb EXCEPT ![f] = TRUE]
  /\ m_state' = [m_state EXCEPT ![f] = "INIT"]
  /\ m_ctx' = [m_ctx EXCEPT ![f] = Context(f, "made")]
  /\ s_fiber_count' = s_fiber_count + 1
  /\ alive' = alive \cup {f}
  /\ ref' = [ref EXCEPT ![f] = {t}]
  /\ UNCHANGED <<own, thread, failed, early>>

\* Mutant of Entered: the state is not set.
EnteredUnmarked(f) == UNCHANGED m_state

\* swapIn marks the fiber as executing.
Entered(f) == m_state' = [m_state EXCEPT ![f] = "EXEC"]

(* The first half of swapIn, called under its @pre: SetThis, the assertion,   *)
(* the state.  (Here and below: a failed assertion aborts, and no action is   *)
(* enabled any more, so what the step does after it is immaterial.)           *)
SwapIn(t, f) ==
  /\ InMain(t)
  /\ t_threadFiber[t] # NULL
  /\ t \in ref[f]
  /\ m_state[f] # "EXEC"
  /\ t_fiber' = [t_fiber EXCEPT ![t] = f]
  /\ failed' = IF m_state[f] # "EXEC" THEN "none" ELSE "swapIn"
  /\ Entered(f)
  /\ pc' = [pc EXCEPT ![t] = "switchIn"]
  /\ early' = IF Occupied(f, t) \/ m_state[f] \in {"TERM", "EXCEPT"}
              THEN early \cup {f} ELSE early
  /\ UNCHANGED <<m_id, m_cb, m_ctx, life, t_threadFiber, stack>>

(* swapcontext of swapIn: the caller's context goes into the main fiber, and *)
(* execution continues where the fiber's context was made or saved.  Entering *)
(* MainFunc takes a shared_ptr (cur); returning from a yield gives one back.  *)
(* On a stack that another thread still executes on, anything may follow.     *)
SwitchIn(t) ==
  LET f == t_fiber[t]  to == m_ctx[f] IN
  /\ pc[t] = "switchIn"
  /\ failed = "none"
  /\ m_ctx' = [m_ctx EXCEPT ![t_threadFiber[t]] = Context(stack[t], "swapIn")]
  /\ stack' = [stack EXCEPT ![t] = to.stack]
  /\ pc' = [pc EXCEPT ![t] = "run"]
  /\ IF Occupied(f, t)
     THEN failed' = "sharedStack" /\ UNCHANGED <<own, early>>
     ELSE /\ own' = [own EXCEPT ![f] = CASE to.at = "made"  -> @ + 1
                                       [] to.at = "yield" -> @ - 1
                                       [] OTHER           -> @]
          /\ failed' = IF to.at # "end" THEN "none" ELSE "neverReachHere"
          /\ early' = IF to.at # "end" THEN early \ {f} ELSE early
  /\ UNCHANGED <<m_id, m_state, m_cb, alive, ref, s_fiber_id, s_fiber_count,
                 t_fiber, t_threadFiber>>

(* YieldToReady and YieldToHold up to swapOut, called in a callback *)
YieldTo(t, s) ==
  LET cur == t_fiber[t] IN
  /\ InCallback(t)
  /\ own' = [own EXCEPT ![cur] = @ + 1]
  /\ failed' = IF m_state[cur] = "EXEC" THEN "none" ELSE "YieldTo"
  /\ m_state' = [m_state EXCEPT ![cur] = s]
  /\ pc' = [pc EXCEPT ![t] = "yieldOut"]
  /\ UNCHANGED <<m_id, m_cb, m_ctx, alive, ref, s_fiber_id, s_fiber_count,
                 t_fiber, t_threadFiber, stack, early>>

(* A yield on the native stack: swapOut saves the main fiber's context and   *)
(* continues with it, so the call returns at once, and nothing sets the      *)
(* state back.                                                               *)
YieldMain(t, s) ==
  LET cur == t_fiber[t]
      ctx == [m_ctx EXCEPT ![cur] = Context(stack[t], "yield")]
  IN
  /\ InMain(t)
  /\ cur # NULL
  /\ failed' = IF m_state[cur] = "EXEC" THEN "none" ELSE "YieldTo main"
  /\ m_state' = [m_state EXCEPT ![cur] = s]
  /\ m_ctx' = ctx
  /\ t_fiber' = [t_fiber EXCEPT ![t] = t_threadFiber[t]]
  /\ stack' = [stack EXCEPT ![t] = ctx[t_threadFiber[t]].stack]
  /\ UNCHANGED <<m_id, m_cb, life, t_threadFiber, pc, early>>

(* The callback returns ("TERM", and m_cb is dropped) or throws ("EXCEPT");  *)
(* MainFunc then lets go of cur and calls swapOut through the raw pointer.   *)
Finish(t, s) ==
  LET cur == stack[t] IN
  /\ InCallback(t)
  /\ m_cb' = [m_cb EXCEPT ![cur] = (s = "EXCEPT")]
  /\ m_state' = [m_state EXCEPT ![cur] = s]
  /\ own' = [own EXCEPT ![cur] = @ - 1]
  /\ IF Unreferenced(ref[cur], own[cur] - 1) THEN Release(cur, s) ELSE Keep
  /\ pc' = [pc EXCEPT ![t] = "endOut"]
  /\ UNCHANGED <<m_id, m_ctx, ref, s_fiber_id, t_fiber, t_threadFiber, stack, early>>

\* Mutant of SwitchOut: SetThis is forgotten.
SwitchOutKeepsThis(t) ==
  LET at  == IF pc[t] = "yieldOut" THEN "yield" ELSE "end"
      ctx == [m_ctx EXCEPT ![stack[t]] = Context(stack[t], at)]
  IN
  /\ pc[t] \in {"yieldOut", "endOut"}
  /\ failed = "none"
  /\ m_ctx' = ctx
  /\ stack' = [stack EXCEPT ![t] = ctx[t_threadFiber[t]].stack]
  /\ pc' = [pc EXCEPT ![t] = "run"]
  /\ UNCHANGED <<m_id, m_state, m_cb, life, t_fiber, t_threadFiber, failed, early>>

(* swapOut: SetThis(main fiber), save this context, continue with the main's *)
SwitchOut(t) ==
  LET cur  == IF pc[t] = "yieldOut" THEN t_fiber[t] ELSE stack[t]
      at   == IF pc[t] = "yieldOut" THEN "yield" ELSE "end"
      main == t_threadFiber[t]
      ctx  == [m_ctx EXCEPT ![cur] = Context(stack[t], at)]
  IN
  /\ pc[t] \in {"yieldOut", "endOut"}
  /\ failed = "none"
  /\ t_fiber' = [t_fiber EXCEPT ![t] = main]
  /\ m_ctx' = ctx
  /\ stack' = [stack EXCEPT ![t] = ctx[main].stack]
  /\ pc' = [pc EXCEPT ![t] = "run"]
  /\ UNCHANGED <<m_id, m_state, m_cb, life, t_threadFiber, failed, early>>

(* Fiber::reset with a new callback, called under its @pre, which is also     *)
(* what it asserts.  A thread may still be between MainFunc's last state      *)
(* change and swapOut, which then saves its own end over the new context.     *)
Reset(t, f) ==
  /\ InMain(t)
  /\ t \in ref[f]
  /\ m_state[f] \in {"TERM", "EXCEPT", "INIT"}
  /\ m_cb' = [m_cb EXCEPT ![f] = TRUE]
  /\ m_ctx' = [m_ctx EXCEPT ![f] = Context(f, "made")]
  /\ m_state' = [m_state EXCEPT ![f] = "INIT"]
  /\ early' = IF Occupied(f, t) THEN early \cup {f} ELSE early \ {f}
  /\ UNCHANGED <<m_id, life, thread, failed>>

(* A thread gives another one a copy of its shared_ptr. *)
Share(t, u, f) ==
  /\ InMain(t)
  /\ t \in ref[f]
  /\ u \notin ref[f]
  /\ pc[u] # "exited"
  /\ ref' = [ref EXCEPT ![f] = @ \cup {u}]
  /\ UNCHANGED <<object, alive, own, s_fiber_id, s_fiber_count, thread, failed, early>>

(* A thread's copy goes out of scope: the last one runs ~Fiber. *)
Drop(t, f) ==
  /\ InMain(t)
  /\ t \in ref[f]
  /\ ref' = [ref EXCEPT ![f] = @ \ {t}]
  /\ IF Unreferenced(ref[f] \ {t}, own[f]) THEN Release(f, m_state[f]) ELSE Keep
  /\ UNCHANGED <<object, own, s_fiber_id, thread, early>>

(* The thread function returns: thread_local t_threadFiber is destroyed, and *)
(* with it the main fiber (the else branch of ~Fiber).                       *)
Exit(t) ==
  /\ InMain(t)
  /\ \A f \in Subs : t \notin ref[f]
  /\ pc' = [pc EXCEPT ![t] = "exited"]
  /\ t_threadFiber' = [t_threadFiber EXCEPT ![t] = NULL]
  /\ IF t_threadFiber[t] = NULL
     THEN Keep /\ UNCHANGED t_fiber
     ELSE /\ alive' = alive \ {t}
          /\ s_fiber_count' = s_fiber_count - 1
          /\ failed' = IF ~m_cb[t] /\ m_state[t] = "EXEC" THEN "none" ELSE "~Fiber main"
          /\ t_fiber' = [t_fiber EXCEPT ![t] = IF @ = t THEN NULL ELSE @]
  /\ UNCHANGED <<object, ref, own, s_fiber_id, stack, early>>

Next ==
  \E t \in Threads :
    \/ GetThis(t)
    \/ SwitchIn(t)
    \/ \E s \in {"READY", "HOLD"} : YieldTo(t, s) \/ YieldMain(t, s)
    \/ \E s \in {"TERM", "EXCEPT"} : Finish(t, s)
    \/ SwitchOut(t)
    \/ Exit(t)
    \/ \E f \in Subs :
         \/ NewFiber(t, f)
         \/ SwapIn(t, f)
         \/ Reset(t, f)
         \/ Drop(t, f)
         \/ \E u \in Threads : Share(t, u, f)

Spec == Init /\ [][Next]_vars

-----------------------------------------------------------------------------
(* Properties *)

\* Type invariant: every variable stays in its range; in particular the two
\* counters are naturals and own never exceeds the two frames that pin a fiber.
TypeOK ==
  /\ m_id \in [Fibers -> Nat]
  /\ m_state \in [Fibers -> State]
  /\ m_cb \in [Fibers -> BOOLEAN]
  /\ m_ctx \in [Fibers -> [stack : Fibers, at : Point]]
  /\ alive \in SUBSET Fibers
  /\ ref \in [Subs -> SUBSET Threads]
  /\ own \in [Subs -> 0..2]
  /\ s_fiber_id \in Nat
  /\ s_fiber_count \in Nat
  /\ t_fiber \in [Threads -> Fibers \cup {NULL}]
  /\ t_threadFiber \in [Threads -> Threads \cup {NULL}]
  /\ stack \in [Threads -> Fibers]
  /\ pc \in [Threads -> PC]
  /\ failed \in {"none", "swapIn", "neverReachHere", "YieldTo", "YieldTo main", "~Fiber",
                "~Fiber main", "sharedStack"}
  /\ early \in SUBSET Subs

\* The main fiber of thread t yielded: nothing sets its state back.
Yielded(t) == m_state[t] \in {"HOLD", "READY"}

\* No ASSERT_MACRO of fiber.cpp fires: not the state checks of swapIn and the
\* yields, and not the one in ~Fiber, which would fire if a suspended fiber could
\* lose its last shared_ptr.  The exceptions: a second yield, and the end, of a
\* thread that yielded outside of every callback; and "never reach here", which
\* needs a fiber swapped in after its end, or swapped in or reset while a thread
\* was still on its stack - a fiber used otherwise never gets there, however often
\* it is suspended, moved between threads and reset.
AssertionsHold ==
  /\ failed \in {"none", "YieldTo main", "~Fiber main", "neverReachHere", "sharedStack"}
  /\ failed \in {"YieldTo main", "~Fiber main"} => \E t \in Threads : Yielded(t)
  /\ failed \in {"neverReachHere", "sharedStack"} => \E t \in Threads : t_fiber[t] \in early

\* While user code runs, Fiber::GetThis names the fiber whose stack the thread
\* really executes, and a sub-fiber is in STATE_EXEC then; a thread without a
\* main fiber is on its native stack.
CurrentFiberIsRunning ==
  \A t \in Threads : pc[t] = "run" =>
    IF t_fiber[t] = NULL
    THEN stack[t] = t
    ELSE /\ t_fiber[t] = stack[t]
         /\ stack[t] \in Subs => m_state[stack[t]] = "EXEC"

\* A thread never executes on, or is about to continue on, the stack of a
\* destroyed fiber, although other threads drop their shared_ptrs at any time.
NoStackUseAfterFree ==
  \A t \in Threads :
    /\ stack[t] \in Subs => stack[t] \in alive
    /\ t_fiber[t] \in Subs => t_fiber[t] \in alive

\* Thread t is on its way out of a fiber: the state is published, the context is
\* not saved yet.
Leaving(t) == pc[t] \in {"yieldOut", "endOut"}

\* The only way for two threads onto one stack is the gap between the published
\* state and swapOut: one of the two is leaving there, and the other swapped the
\* fiber in, or reset it and swapped it in, within that gap.  Two threads never run
\* one callback, though both may call swapIn and a fiber moves between threads.
StackExclusive ==
  \A t, u \in Threads : t # u /\ stack[t] = stack[u] =>
    /\ stack[t] \in early
    /\ Leaving(t) \/ Leaving(u)

\* What a caller reads in "@pre getState() != EXEC" (fiber.h:52): a fiber that is
\* not in STATE_EXEC can be swapped in, so one stack never has two threads on it.
OneThreadPerStack ==
  \A t, u \in Threads : t # u => stack[t] # stack[u]

\* Fiber::TotalFibers is exact: the number of objects constructed and not
\* destructed, main fibers included, so it returns to 0 when all are gone.
TotalFibersExact == s_fiber_count = Cardinality(alive)

\* The only fibers that outlive every outside shared_ptr are the ones suspended
\* inside a yield, which their own frames keep: a fiber that never started, or
\* finished, is reclaimed with the last copy.
OnlySuspendedLeak ==
  \A f \in Subs \cap alive :
    ref[f] = {} => m_state[f] \in {"HOLD", "READY"} /\ own[f] = 2

\* swapOut, from a yield or from the end of MainFunc, always continues on the
\* native stack of the thread that swapped the fiber in, with the main fiber as
\* the current one.
BackToMain ==
  [][\A t \in Threads :
       pc[t] \in {"yieldOut", "endOut"} /\ pc'[t] = "run"
         => stack'[t] = t /\ t_fiber'[t] = t]_vars
=============================================================================
