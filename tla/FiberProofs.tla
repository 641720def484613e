---------------------------- MODULE FiberProofs ----------------------------
(***************************************************************************)
(* The safety properties of Fiber, for any finite number of threads and    *)
(* sub-fibers.  The inductive invariant says, for every thread, where its  *)
(* two thread_local pointers point at each point of the library, and, for  *)
(* every sub-fiber, how many shared_ptrs its own frames hold in each state.*)
(***************************************************************************)
EXTENDS Fiber, FiniteSetTheorems, TLAPS

\* The main fiber: it exists exactly while t_threadFiber refers to it, it is in
\* STATE_EXEC until it yields, and its callback is empty.
MainInv(t) ==
  /\ t_threadFiber[t] \in {NULL, t}
  /\ t_fiber[t] = NULL <=> t_threadFiber[t] = NULL
  /\ t_threadFiber[t] = t <=> t \in alive
  /\ t \in alive => m_state[t] = "EXEC" \/ Yielded(t)
  /\ ~m_cb[t]

\* Once execution went on where it must not, the frames are anybody's guess.
Broken == failed \in {"neverReachHere", "sharedStack"}

\* On its native stack, the current fiber is the main fiber, except in swapIn.
\* There the fiber has a context to continue with, or its last user is still on
\* its stack, or it is over.
NativeInv(t) ==
  stack[t] \notin Subs =>
    /\ stack[t] = t
    /\ pc[t] \in {"run", "switchIn", "exited"}
    /\ pc[t] = "exited" => t_fiber[t] = NULL
    /\ pc[t] = "run" => t_fiber[t] \in {NULL, t}
    /\ pc[t] = "switchIn" =>
         /\ t_fiber[t] \in Subs
         /\ m_state[t_fiber[t]] = "EXEC"
         /\ \/ Occupied(t_fiber[t], t)
            \/ own[t_fiber[t]] = 0 /\ m_ctx[t_fiber[t]].at = "made"
            \/ own[t_fiber[t]] = 2 /\ m_ctx[t_fiber[t]].at = "yield"
            \/ own[t_fiber[t]] = 0 /\ m_ctx[t_fiber[t]].at = "end" /\ t_fiber[t] \in early

\* Another thread already swapped in the fiber that t is leaving.
Awaited(t) ==
  m_state[stack[t]] = "EXEC" /\ \E u \in Threads \ {t} : t_fiber[u] = stack[t]

\* On the stack of a sub-fiber, the fiber is the current one, the way back to
\* the native stack is saved, and the fiber's state and frames agree, unless
\* somebody swapped it in or reset it too early.
InsideInv(t) ==
  stack[t] \in Subs =>
    /\ t_fiber[t] = stack[t]
    /\ m_ctx[t] = Context(t, "swapIn")
    /\ \/ pc[t] = "run" /\ m_state[stack[t]] = "EXEC" /\ (own[stack[t]] = 1 \/ Broken)
       \/ /\ pc[t] = "yieldOut" /\ own[stack[t]] = 2
          /\ m_state[stack[t]] \in {"HOLD", "READY"} \/ Awaited(t)
       \/ /\ pc[t] = "endOut" /\ own[stack[t]] = 0
          /\ \/ m_state[stack[t]] \in {"TERM", "EXCEPT"}
             \/ m_state[stack[t]] = "INIT" /\ stack[t] \in early
             \/ Awaited(t)

\* A thread inside a fiber, or on its way into it, holds a shared_ptr.  Of two
\* such threads one is leaving, and the other came early and is not in yet.
HolderInv(t) ==
  t_fiber[t] \in Subs =>
    /\ t \in ref[t_fiber[t]]
    /\ \A u \in Threads \ {t} : t_fiber[u] = t_fiber[t] =>
         /\ t_fiber[t] \in early
         /\ Leaving(t) <=> ~Leaving(u)
         /\ failed = "none" => pc[t] = "switchIn" \/ pc[u] = "switchIn"

\* A fiber nobody is inside: the state, the frames and the saved context agree,
\* unless it was reset too early.
IdleInv(f) ==
  (\A t \in Threads : t_fiber[t] # f) =>
    \/ m_state[f] = "INIT" /\ own[f] = 0 /\ m_ctx[f].at = "made"
    \/ m_state[f] = "INIT" /\ own[f] = 0 /\ m_ctx[f].at = "end" /\ f \in early
    \/ m_state[f] \in {"HOLD", "READY"} /\ own[f] = 2 /\ m_ctx[f].at = "yield"
    \/ m_state[f] \in {"TERM", "EXCEPT"} /\ own[f] = 0 /\ m_ctx[f].at = "end"

\* A fiber is alive exactly while a shared_ptr to it exists.
LifeInv(f) ==
  /\ f \in alive <=> ~Unreferenced(ref[f], own[f])
  /\ m_id[f] = 0 => f \notin alive
  /\ m_ctx[f].stack = f

IInv ==
  /\ TypeOK
  /\ \A t \in Threads : MainInv(t)
  /\ \A t \in Threads : NativeInv(t)
  /\ \A t \in Threads : InsideInv(t)
  /\ \A t \in Threads : HolderInv(t)
  /\ \A f \in Subs : IdleInv(f)
  /\ \A f \in Subs : LifeInv(f)
  /\ TotalFibersExact
  /\ AssertionsHold

-----------------------------------------------------------------------------
\* The counter follows the construction of an object.
LEMMA CountUp ==
  ASSUME TypeOK, TotalFibersExact, NEW f \in Fibers, f \notin alive,
         alive' = alive \cup {f}, s_fiber_count' = s_fiber_count + 1
  PROVE  TotalFibersExact'
<1>1. IsFiniteSet(Fibers)
  BY FS_Union, FiberAssumption DEF Fibers
<1>2. IsFiniteSet(alive)
  BY <1>1, FS_Subset DEF TypeOK
<1>3. Cardinality(alive \cup {f}) = Cardinality(alive) + 1
  BY <1>2, FS_AddElement
<1> QED BY <1>3 DEF TotalFibersExact

\* The counter follows the destruction of an object, and cannot wrap below 0.
LEMMA CountDown ==
  ASSUME TypeOK, TotalFibersExact, NEW f \in alive,
         alive' = alive \ {f}, s_fiber_count' = s_fiber_count - 1
  PROVE  s_fiber_count' \in Nat /\ TotalFibersExact'
<1>1. IsFiniteSet(Fibers)
  BY FS_Union, FiberAssumption DEF Fibers
<1>2. IsFiniteSet(alive)
  BY <1>1, FS_Subset DEF TypeOK
<1>3. IsFiniteSet(alive \ {f}) /\ Cardinality(alive \ {f}) = Cardinality(alive) - 1
  BY <1>2, FS_RemoveElement
<1>4. Cardinality(alive \ {f}) \in Nat
  BY <1>3, FS_CardinalityType
<1> QED BY <1>3, <1>4 DEF TotalFibersExact

\* Fiber::GetThis and the main-fiber constructor keep the invariant.
LEMMA GetThisStep ==
  ASSUME IInv, NEW t \in Threads, GetThis(t)
  PROVE  IInv'
<1> USE FiberAssumption DEF IInv
<1>n. t \notin alive
  BY DEF GetThis, MainFiber, MainInv
<1>c. TotalFibersExact'
  BY <1>n, CountUp DEF GetThis, MainFiber, Fibers
<1>1. TypeOK'
  BY DEF GetThis, MainFiber, InMain, TypeOK, State, PC, Point, Context, Fibers
<1>2. \A v \in Threads : MainInv(v)'
  BY DEF GetThis, MainFiber, InMain, MainInv, TypeOK, Yielded
<1>3. \A v \in Threads : NativeInv(v)'
  BY DEF GetThis, MainFiber, InMain, NativeInv, TypeOK, Occupied
<1>4. \A v \in Threads : InsideInv(v)'
  BY DEF GetThis, MainFiber, InMain, InsideInv, TypeOK, Awaited, Broken
<1>5. \A v \in Threads : HolderInv(v)'
  BY DEF GetThis, MainFiber, InMain, HolderInv, TypeOK, Leaving
<1>6. \A g \in Subs : IdleInv(g)'
  BY DEF GetThis, MainFiber, InMain, IdleInv, TypeOK
<1>7. \A g \in Subs : LifeInv(g)'
  BY DEF GetThis, MainFiber, InMain, LifeInv, TypeOK
<1>8. AssertionsHold'
  BY DEF GetThis, MainFiber, InMain, AssertionsHold, TypeOK
<1> QED BY <1>1, <1>2, <1>3, <1>4, <1>5, <1>6, <1>7, <1>c, <1>8

\* The sub-fiber constructor keeps the invariant: a new id is never 0.
LEMMA NewFiberStep ==
  ASSUME IInv, NEW t \in Threads, NEW f \in Subs, NewFiber(t, f)
  PROVE  IInv'
<1> USE FiberAssumption DEF IInv
<1>n. f \notin alive
  BY DEF NewFiber, LifeInv
<1>c. TotalFibersExact'
  BY <1>n, CountUp DEF NewFiber, Fibers
<1>1. TypeOK'
  BY <1>n DEF NewFiber, InMain, thread, TypeOK, State, PC, Point, Context, Fibers
<1>2. \A v \in Threads : MainInv(v)'
  BY <1>n DEF NewFiber, InMain, thread, MainInv, TypeOK, Yielded
<1>3. \A v \in Threads : NativeInv(v)'
  BY <1>n DEF NewFiber, InMain, thread, NativeInv, HolderInv, LifeInv, Unreferenced, Occupied, Leaving
<1>4. \A v \in Threads : InsideInv(v)'
  BY <1>n DEF NewFiber, InMain, thread, InsideInv, HolderInv, LifeInv, Unreferenced, Awaited, Broken, Leaving
<1>5. \A v \in Threads : HolderInv(v)'
  BY <1>n DEF NewFiber, InMain, thread, HolderInv, LifeInv, Unreferenced, Leaving
<1>6. \A g \in Subs : IdleInv(g)'
  BY <1>n DEF NewFiber, InMain, thread, IdleInv, TypeOK, Context, LifeInv, Unreferenced
<1>7. \A g \in Subs : LifeInv(g)'
  <2> SUFFICES ASSUME NEW g \in Subs PROVE LifeInv(g)'
    OBVIOUS
  <2>1. CASE g = f
    <3>1. m_id'[f] = s_fiber_id + 1
      BY DEF NewFiber, TypeOK, Fibers
    <3>2. m_ctx'[f].stack = f
      BY DEF NewFiber, TypeOK, Fibers, Context
    <3>3. ref'[f] = {t} /\ f \in alive'
      BY DEF NewFiber, TypeOK
    <3>4. s_fiber_id \in Nat /\ \A n \in Nat : n + 1 # 0
      <4>1. s_fiber_id \in Nat
        BY DEF TypeOK
      <4> QED BY <4>1, SMT
    <3> QED BY <2>1, <3>1, <3>2, <3>3, <3>4 DEF LifeInv, Unreferenced
  <2>2. CASE g # f
    BY <2>2 DEF NewFiber, LifeInv, TypeOK, Fibers
  <2> QED BY <2>1, <2>2
<1>8. AssertionsHold'
  BY <1>n DEF NewFiber, InMain, thread, AssertionsHold, TypeOK
<1> QED BY <1>1, <1>2, <1>3, <1>4, <1>5, <1>6, <1>7, <1>c, <1>8

\* swapIn up to swapcontext keeps the invariant: nobody is inside the fiber but,
\* perhaps, one thread that is leaving it.
LEMMA SwapInStep ==
  ASSUME IInv, NEW t \in Threads, NEW f \in Subs, SwapIn(t, f)
  PROVE  IInv'
<1> USE FiberAssumption DEF IInv
<1>r. /\ stack[t] = t /\ pc[t] = "run" /\ t_fiber[t] = t /\ t_threadFiber[t] = t
      /\ failed = "none" /\ t \in ref[f] /\ m_state[f] # "EXEC"
  <2>1. NativeInv(t) /\ MainInv(t) /\ InMain(t)
    BY DEF SwapIn
  <2> QED BY <2>1 DEF SwapIn, InMain, NativeInv, MainInv
<1>l. \A v \in Threads : t_fiber[v] = f => v # t /\ stack[v] = f /\ Leaving(v)
  <2> SUFFICES ASSUME NEW v \in Threads, t_fiber[v] = f
               PROVE  v # t /\ stack[v] = f /\ Leaving(v)
    OBVIOUS
  <2>1. NativeInv(v) /\ InsideInv(v) /\ v # f /\ f # NULL
    OBVIOUS
  <2> QED BY <1>r, <2>1 DEF NativeInv, InsideInv, Leaving
<1>e. (\E v \in Threads : t_fiber[v] = f) <=> Occupied(f, t)
  BY <1>l DEF Occupied, InsideInv
<1>s. /\ t_fiber' = [t_fiber EXCEPT ![t] = f]
      /\ m_state' = [m_state EXCEPT ![f] = "EXEC"]
      /\ pc' = [pc EXCEPT ![t] = "switchIn"]
      /\ failed' = "none"
      /\ UNCHANGED <<m_id, m_cb, m_ctx, alive, ref, own, s_fiber_id, s_fiber_count,
                     t_threadFiber, stack>>
  BY <1>r DEF SwapIn, Entered, life
<1>y. /\ early' \in SUBSET Subs /\ early \subseteq early'
      /\ \A g \in Subs : g # f => (g \in early' <=> g \in early)
      /\ Occupied(f, t) \/ m_state[f] \in {"TERM", "EXCEPT"} => f \in early'
  BY DEF SwapIn, TypeOK
<1>o. \/ Occupied(f, t)
      \/ own[f] = 0 /\ m_ctx[f].at = "made"
      \/ own[f] = 2 /\ m_ctx[f].at = "yield"
      \/ own[f] = 0 /\ m_ctx[f].at = "end" /\ f \in early'
  BY <1>e, <1>y DEF IdleInv
<1>u. /\ t_fiber'[t] = f /\ pc'[t] = "switchIn" /\ m_state'[f] = "EXEC"
      /\ \A v \in Threads : v # t => t_fiber'[v] = t_fiber[v] /\ pc'[v] = pc[v]
      /\ \A g \in Fibers : g # f => m_state'[g] = m_state[g]
  BY <1>s DEF TypeOK, Fibers
<1>1. TypeOK'
  BY <1>s, <1>y DEF TypeOK, State, PC, Fibers
<1>2. \A v \in Threads : MainInv(v)'
  BY <1>r, <1>s DEF MainInv, TypeOK, Yielded
<1>3. \A v \in Threads : NativeInv(v)'
  <2> SUFFICES ASSUME NEW v \in Threads PROVE NativeInv(v)'
    OBVIOUS
  <2>1. CASE v = t
    BY <1>r, <1>s, <1>u, <1>o, <2>1 DEF NativeInv, Occupied
  <2>2. CASE v # t
    <3>1. NativeInv(v)
      OBVIOUS
    <3>2. CASE stack[v] \notin Subs /\ pc[v] = "switchIn"
      <4>1. t_fiber[v] # f /\ t_fiber[v] \in Subs
        BY <1>l, <3>1, <3>2 DEF NativeInv
      <4> QED BY <1>s, <1>u, <1>y, <2>2, <3>1, <3>2, <4>1 DEF NativeInv, Occupied, Fibers
    <3>3. CASE ~(stack[v] \notin Subs /\ pc[v] = "switchIn")
      BY <1>s, <1>u, <2>2, <3>1, <3>3 DEF NativeInv
    <3> QED BY <3>2, <3>3
  <2> QED BY <2>1, <2>2
<1>4. \A v \in Threads : InsideInv(v)'
  <2> SUFFICES ASSUME NEW v \in Threads, stack[v] \in Subs PROVE InsideInv(v)'
    BY <1>s DEF InsideInv
  <2>1. InsideInv(v) /\ v # t
    BY <1>r
  <2>2. CASE stack[v] = f
    <3>1. Awaited(v)'
      BY <1>s, <1>u, <2>1, <2>2 DEF Awaited
    <3>2. Leaving(v)
      BY <1>l, <2>1, <2>2 DEF InsideInv
    <3> QED BY <1>s, <1>u, <2>1, <2>2, <3>1, <3>2 DEF InsideInv, Leaving
  <2>3. CASE stack[v] # f
    BY <1>r, <1>s, <1>u, <1>y, <2>1, <2>3 DEF InsideInv, Awaited, Broken, Fibers
  <2> QED BY <2>2, <2>3
<1>5. \A v \in Threads : HolderInv(v)'
  <2> SUFFICES ASSUME NEW v \in Threads PROVE HolderInv(v)'
    OBVIOUS
  <2>1. CASE v = t
    BY <1>r, <1>l, <1>e, <1>s, <1>u, <1>y, <2>1 DEF HolderInv, Leaving
  <2>2. CASE v # t /\ t_fiber[v] = f
    <3>1. \A u \in Threads \ {v} : t_fiber[u] # f
      BY <1>l, <2>2 DEF HolderInv
    <3> QED BY <1>r, <1>l, <1>e, <1>s, <1>u, <1>y, <2>2, <3>1 DEF HolderInv, Leaving
  <2>3. CASE v # t /\ t_fiber[v] # f
    BY <1>r, <1>s, <1>u, <1>y, <2>3 DEF HolderInv, Leaving
  <2> QED BY <2>1, <2>2, <2>3
<1>6. \A g \in Subs : IdleInv(g)'
  BY <1>r, <1>s, <1>u, <1>y DEF IdleInv, TypeOK, Fibers
<1>7. \A g \in Subs : LifeInv(g)'
  BY <1>s DEF LifeInv
<1>8. TotalFibersExact'
  BY <1>s DEF TotalFibersExact
<1>9. AssertionsHold'
  BY <1>s DEF AssertionsHold
<1> QED BY <1>1, <1>2, <1>3, <1>4, <1>5, <1>6, <1>7, <1>8, <1>9

\* swapcontext of swapIn keeps the invariant: it enters the fiber's own stack, at
\* the start of MainFunc or behind a yield, and behind the end of MainFunc or next
\* to another thread only if the fiber was swapped in too early.
LEMMA SwitchInStep ==
  ASSUME IInv, NEW t \in Threads, SwitchIn(t)
  PROVE  IInv'
<1> USE FiberAssumption DEF IInv
<1>h. NativeInv(t) /\ InsideInv(t) /\ MainInv(t) /\ pc[t] = "switchIn" /\ failed = "none"
  BY DEF SwitchIn
<1>f. PICK f \in Subs : t_fiber[t] = f
  BY <1>h DEF NativeInv, InsideInv
<1>n. stack[t] = t /\ t_threadFiber[t] = t /\ m_ctx[f].stack = f /\ m_state[f] = "EXEC"
  BY <1>f, <1>h DEF NativeInv, InsideInv, MainInv, LifeInv
<1>s. /\ m_ctx' = [m_ctx EXCEPT ![t] = Context(t, "swapIn")]
      /\ stack' = [stack EXCEPT ![t] = f]
      /\ pc' = [pc EXCEPT ![t] = "run"]
      /\ UNCHANGED <<m_id, m_state, m_cb, alive, ref, s_fiber_id, s_fiber_count,
                     t_fiber, t_threadFiber>>
  BY <1>f, <1>n DEF SwitchIn
<1>o. \/ /\ Occupied(f, t) /\ failed' = "sharedStack"
         /\ UNCHANGED <<own, early>>
      \/ /\ ~Occupied(f, t) /\ failed' = "none"
         /\ own' = [own EXCEPT ![f] = 1] /\ early' = early \ {f}
      \/ /\ ~Occupied(f, t) /\ failed' = "neverReachHere" /\ f \in early
         /\ UNCHANGED <<own, early>>
  <2>1. CASE Occupied(f, t)
    BY <1>f, <2>1 DEF SwitchIn
  <2>2. CASE ~Occupied(f, t) /\ own[f] = 0 /\ m_ctx[f].at = "made"
    BY <1>f, <2>2 DEF SwitchIn, TypeOK
  <2>3. CASE ~Occupied(f, t) /\ own[f] = 2 /\ m_ctx[f].at = "yield"
    BY <1>f, <2>3 DEF SwitchIn, TypeOK
  <2>4. CASE ~Occupied(f, t) /\ own[f] = 0 /\ m_ctx[f].at = "end" /\ f \in early
    BY <1>f, <2>4 DEF SwitchIn, TypeOK
  <2> QED BY <1>f, <1>h, <1>n, <2>1, <2>2, <2>3, <2>4 DEF NativeInv
<1>a. ~Occupied(f, t) => \A v \in Threads : v # t => t_fiber[v] # f
  <2> SUFFICES ASSUME ~Occupied(f, t), NEW v \in Threads, v # t, t_fiber[v] = f PROVE FALSE
    OBVIOUS
  <2>1. Leaving(v)
    BY <1>f, <1>h DEF HolderInv, Leaving
  <2>2. stack[v] = f
    BY <2>1 DEF NativeInv, InsideInv, Leaving
  <2> QED BY <2>2 DEF Occupied
<1>b. Occupied(f, t) => f \in early
  BY <1>f DEF Occupied, InsideInv, HolderInv
<1>u. /\ stack'[t] = f /\ pc'[t] = "run" /\ m_ctx'[t] = Context(t, "swapIn")
      /\ \A v \in Threads : v # t => stack'[v] = stack[v] /\ pc'[v] = pc[v] /\ m_ctx'[v] = m_ctx[v]
      /\ \A g \in Subs : m_ctx'[g] = m_ctx[g]
      /\ \A g \in Subs : g # f => own'[g] = own[g] /\ (g \in early' <=> g \in early)
  BY <1>s, <1>o DEF TypeOK, Fibers
<1>1. TypeOK'
  <2>0. own \in [Subs -> 0..2] /\ early \in SUBSET Subs
    BY DEF TypeOK
  <2>a. 1 \in 0..2
    BY SMT
  <2>1. own' \in [Subs -> 0..2] /\ early' \in SUBSET Subs
    BY <1>o, <2>0, <2>a
  <2> QED BY <1>f, <1>s, <1>o, <2>1 DEF TypeOK, PC, Point, Context, Fibers
<1>2. \A v \in Threads : MainInv(v)'
  BY <1>s DEF MainInv, Yielded
<1>3. \A v \in Threads : NativeInv(v)'
  <2> SUFFICES ASSUME NEW v \in Threads PROVE NativeInv(v)'
    OBVIOUS
  <2>1. CASE v = t
    BY <1>u, <2>1 DEF NativeInv
  <2>2. CASE v # t
    <3>1. NativeInv(v) /\ HolderInv(v)
      OBVIOUS
    <3>2. CASE stack[v] \notin Subs /\ pc[v] = "switchIn"
      <4>1. t_fiber[v] # f /\ t_fiber[v] \in Subs
        BY <1>f, <1>h, <2>2, <3>1, <3>2 DEF NativeInv, HolderInv, Leaving
      <4>2. PICK g \in Subs : t_fiber[v] = g /\ g # f
        BY <4>1
      <4>3. Occupied(g, v) => Occupied(g, v)'
        BY <1>n, <1>u, <2>2, <4>2 DEF Occupied
      <4> QED BY <1>s, <1>u, <2>2, <3>1, <3>2, <4>2, <4>3 DEF NativeInv
    <3>3. CASE ~(stack[v] \notin Subs /\ pc[v] = "switchIn")
      BY <1>s, <1>u, <2>2, <3>1, <3>3 DEF NativeInv
    <3> QED BY <3>2, <3>3
  <2> QED BY <2>1, <2>2
<1>4. \A v \in Threads : InsideInv(v)'
  <2> SUFFICES ASSUME NEW v \in Threads PROVE InsideInv(v)'
    OBVIOUS
  <2>1. CASE v = t
    <3>1. own'[f] = 1 \/ Broken'
      BY <1>o DEF Broken, TypeOK
    <3> QED BY <1>f, <1>n, <1>s, <1>u, <2>1, <3>1 DEF InsideInv
  <2>2. CASE v # t /\ stack[v] \in Subs
    <3>1. InsideInv(v)
      OBVIOUS
    <3>2. Awaited(v) => Awaited(v)'
      BY <1>s, <1>u, <2>2 DEF Awaited
    <3>3. CASE stack[v] = f
      <4>1. own' = own /\ early' = early /\ failed' = "sharedStack"
        BY <1>o, <2>2, <3>3 DEF Occupied
      <4> QED BY <1>s, <1>u, <2>2, <3>1, <3>2, <3>3, <4>1 DEF InsideInv, Broken
    <3>4. CASE stack[v] # f
      BY <1>h, <1>s, <1>u, <2>2, <3>1, <3>2, <3>4 DEF InsideInv, Broken
    <3> QED BY <3>3, <3>4
  <2>3. CASE v # t /\ stack[v] \notin Subs
    BY <1>u, <2>3 DEF InsideInv
  <2> QED BY <2>1, <2>2, <2>3
<1>5. \A v \in Threads : HolderInv(v)'
  <2> SUFFICES ASSUME NEW v \in Threads, t_fiber[v] \in Subs PROVE HolderInv(v)'
    BY <1>s DEF HolderInv
  <2>1. HolderInv(v)
    OBVIOUS
  <2>2. \A u \in Threads : Leaving(u)' <=> Leaving(u)
    BY <1>h, <1>u DEF Leaving
  <2>3. CASE Occupied(f, t)
    <3>1. failed' # "none" /\ early' = early
      BY <1>o, <2>3
    <3> QED BY <1>s, <2>1, <2>2, <3>1 DEF HolderInv
  <2>4. CASE ~Occupied(f, t)
    <3>1. \A u \in Threads \ {v} : t_fiber[u] = t_fiber[v] => t_fiber[v] # f /\ u # t /\ v # t
      BY <1>a, <1>f, <2>4
    <3> QED BY <1>h, <1>s, <1>u, <2>1, <2>2, <3>1 DEF HolderInv
  <2> QED BY <2>3, <2>4
<1>6. \A g \in Subs : IdleInv(g)'
  BY <1>f, <1>s, <1>u DEF IdleInv
<1>7. \A g \in Subs : LifeInv(g)'
  <2> SUFFICES ASSUME NEW g \in Subs PROVE LifeInv(g)'
    OBVIOUS
  <2>1. CASE g = f
    BY <1>f, <1>s, <1>u, <2>1 DEF LifeInv, HolderInv, Unreferenced
  <2>2. CASE g # f
    BY <1>s, <1>u, <2>2 DEF LifeInv
  <2> QED BY <2>1, <2>2
<1>8. TotalFibersExact'
  BY <1>s DEF TotalFibersExact
<1>9. AssertionsHold'
  BY <1>f, <1>s, <1>o, <1>b DEF AssertionsHold
<1> QED BY <1>1, <1>2, <1>3, <1>4, <1>5, <1>6, <1>7, <1>8, <1>9

\* The yields up to swapOut keep the invariant.
LEMMA YieldToStep ==
  ASSUME IInv, NEW t \in Threads, NEW s \in {"READY", "HOLD"}, YieldTo(t, s)
  PROVE  IInv'
<1> USE FiberAssumption DEF IInv
<1>r. /\ stack[t] \in Subs /\ t_fiber[t] = stack[t]
      /\ m_state[stack[t]] = "EXEC" /\ own[stack[t]] = 1
  <2>1. InsideInv(t) /\ InCallback(t) /\ failed = "none"
    BY DEF YieldTo, InCallback
  <2> QED BY <2>1 DEF InCallback, InsideInv, Awaited, Broken
<1>a. \A v \in Threads : t_fiber[v] = stack[t] => v = t
  <2> SUFFICES ASSUME NEW v \in Threads, t_fiber[v] = stack[t], v # t PROVE FALSE
    OBVIOUS
  <2>1. HolderInv(t) /\ HolderInv(v) /\ pc[t] = "run" /\ failed = "none"
    BY DEF YieldTo, InCallback
  <2> QED BY <1>r, <2>1 DEF HolderInv, Leaving
<1>1. TypeOK'
  BY <1>r DEF YieldTo, InCallback, TypeOK, State, PC, Point, Context, Fibers
<1>2. \A v \in Threads : MainInv(v)'
  BY <1>r DEF YieldTo, InCallback, MainInv, TypeOK, Yielded
<1>3. \A v \in Threads : NativeInv(v)'
  BY <1>r, <1>a DEF YieldTo, InCallback, NativeInv, TypeOK, Occupied
<1>4. \A v \in Threads : InsideInv(v)'
  BY <1>r DEF YieldTo, InCallback, InsideInv, TypeOK, Fibers, Context, NativeInv, MainInv, HolderInv, Occupied, Awaited, Broken, Leaving
<1>5. \A v \in Threads : HolderInv(v)'
  BY <1>r DEF YieldTo, InCallback, HolderInv, TypeOK, Leaving
<1>6. \A g \in Subs : IdleInv(g)'
  BY <1>r DEF YieldTo, InCallback, IdleInv, TypeOK
<1>7. \A g \in Subs : LifeInv(g)'
  BY <1>r DEF YieldTo, InCallback, LifeInv, Unreferenced
<1>8. TotalFibersExact'
  BY <1>r DEF YieldTo, InCallback, TotalFibersExact, TypeOK
<1>9. AssertionsHold'
  BY <1>r DEF YieldTo, InCallback, AssertionsHold, TypeOK
<1> QED BY <1>1, <1>2, <1>3, <1>4, <1>5, <1>6, <1>7, <1>8, <1>9

\* A yield on the native stack keeps the invariant: it returns at once, and the
\* assertion fails if the main fiber yielded before.
LEMMA YieldMainStep ==
  ASSUME IInv, NEW t \in Threads, NEW s \in {"READY", "HOLD"}, YieldMain(t, s)
  PROVE  IInv'
<1> USE FiberAssumption DEF IInv
<1>r. /\ stack[t] = t /\ pc[t] = "run" /\ t_fiber[t] = t /\ t_threadFiber[t] = t /\ t \in alive
      /\ failed = "none"
  <2>1. NativeInv(t) /\ MainInv(t) /\ InMain(t) /\ t_fiber[t] # NULL
    BY DEF YieldMain
  <2> QED BY <2>1 DEF InMain, NativeInv, MainInv
<1>y. m_state[t] = "EXEC" \/ Yielded(t)
  BY <1>r DEF MainInv
<1>s. /\ m_state' = [m_state EXCEPT ![t] = s]
      /\ m_ctx' = [m_ctx EXCEPT ![t] = Context(t, "yield")]
      /\ failed' = IF m_state[t] = "EXEC" THEN "none" ELSE "YieldTo main"
      /\ UNCHANGED <<m_id, m_cb, alive, ref, own, s_fiber_id, s_fiber_count,
                     t_fiber, t_threadFiber, stack, pc, early>>
  BY <1>r DEF YieldMain, life, TypeOK, Fibers, Context
<1>t. Yielded(t)'
  BY <1>s DEF Yielded, TypeOK, Fibers
<1>1. TypeOK'
  BY <1>r, <1>s DEF TypeOK, State, Point, Context, Fibers
<1>2. \A v \in Threads : MainInv(v)'
  BY <1>r, <1>s, <1>t DEF MainInv, TypeOK, Yielded
<1>u. /\ \A v \in Threads : v # t => m_ctx'[v] = m_ctx[v]
      /\ \A g \in Subs : m_state'[g] = m_state[g] /\ m_ctx'[g] = m_ctx[g]
  BY <1>s DEF TypeOK, Fibers
<1>w. own' = own /\ t_fiber' = t_fiber /\ stack' = stack /\ pc' = pc /\ early' = early
  BY <1>s
<1>3. \A v \in Threads : NativeInv(v)'
  <2> SUFFICES ASSUME NEW v \in Threads PROVE NativeInv(v)'
    OBVIOUS
  <2>1. NativeInv(v)
    OBVIOUS
  <2>2. t_fiber[v] \in Subs =>
          m_state'[t_fiber[v]] = m_state[t_fiber[v]] /\ m_ctx'[t_fiber[v]] = m_ctx[t_fiber[v]]
    BY <1>u
  <2> QED BY <1>w, <2>1, <2>2 DEF NativeInv, Occupied
<1>4. \A v \in Threads : InsideInv(v)'
  <2> SUFFICES ASSUME NEW v \in Threads PROVE InsideInv(v)'
    OBVIOUS
  <2>1. InsideInv(v)
    OBVIOUS
  <2>2. stack[v] \in Subs => v # t /\ m_ctx'[v] = m_ctx[v] /\ m_state'[stack[v]] = m_state[stack[v]]
    BY <1>r, <1>u
  <2> QED BY <1>r, <1>w, <2>1, <2>2 DEF InsideInv, Awaited, Broken
<1>5. \A v \in Threads : HolderInv(v)'
  BY <1>r, <1>s DEF HolderInv, Leaving
<1>6. \A g \in Subs : IdleInv(g)'
  BY <1>r, <1>s DEF IdleInv, TypeOK, Fibers
<1>7. \A g \in Subs : LifeInv(g)'
  BY <1>r, <1>s DEF LifeInv, TypeOK, Fibers
<1>8. TotalFibersExact'
  BY <1>s DEF TotalFibersExact
<1>9. AssertionsHold'
  BY <1>s, <1>t DEF AssertionsHold
<1> QED BY <1>1, <1>2, <1>3, <1>4, <1>5, <1>6, <1>7, <1>8, <1>9

\* The end of MainFunc keeps the invariant: the swapper's shared_ptr keeps the fiber
\* alive when MainFunc gives up its own.
LEMMA FinishStep ==
  ASSUME IInv, NEW t \in Threads, NEW s \in {"TERM", "EXCEPT"}, Finish(t, s)
  PROVE  IInv'
<1> USE FiberAssumption DEF IInv
<1>r. /\ stack[t] \in Subs /\ t_fiber[t] = stack[t] /\ own[stack[t]] = 1
      /\ ref[stack[t]] # {}
  <2>1. InsideInv(t) /\ HolderInv(t) /\ InCallback(t)
    BY DEF Finish
  <2> QED BY <2>1 DEF InCallback, InsideInv, HolderInv, Awaited, Broken, Leaving
<1>a. \A v \in Threads : t_fiber[v] = stack[t] => v = t
  <2> SUFFICES ASSUME NEW v \in Threads, t_fiber[v] = stack[t], v # t PROVE FALSE
    OBVIOUS
  <2>1. HolderInv(t) /\ HolderInv(v) /\ pc[t] = "run" /\ failed = "none"
    BY DEF Finish, InCallback
  <2> QED BY <1>r, <2>1 DEF HolderInv, Leaving
<1>k. UNCHANGED <<alive, s_fiber_count, failed>>
  BY <1>r DEF Finish, Keep, Unreferenced
<1>1. TypeOK'
  BY <1>r, <1>k DEF Finish, InCallback, Keep, TypeOK, State, PC, Point, Context, Fibers
<1>2. \A v \in Threads : MainInv(v)'
  BY <1>r, <1>k DEF Finish, InCallback, Keep, MainInv, TypeOK, Yielded
<1>3. \A v \in Threads : NativeInv(v)'
  BY <1>r, <1>a, <1>k DEF Finish, InCallback, Keep, NativeInv, TypeOK, Occupied
<1>4. \A v \in Threads : InsideInv(v)'
  BY <1>r, <1>k DEF Finish, InCallback, InsideInv, TypeOK, HolderInv, Awaited, Broken, Leaving
<1>5. \A v \in Threads : HolderInv(v)'
  BY <1>r, <1>k DEF Finish, InCallback, Keep, HolderInv, TypeOK, Leaving
<1>6. \A g \in Subs : IdleInv(g)'
  BY <1>r, <1>k DEF Finish, InCallback, Keep, IdleInv, TypeOK
<1>7. \A g \in Subs : LifeInv(g)'
  BY <1>r, <1>k DEF Finish, InCallback, LifeInv, Unreferenced
<1>8. TotalFibersExact'
  BY <1>r, <1>k DEF Finish, InCallback, Keep, TotalFibersExact, TypeOK
<1>9. AssertionsHold'
  BY <1>r, <1>k DEF Finish, InCallback, Keep, AssertionsHold, TypeOK
<1> QED BY <1>1, <1>2, <1>3, <1>4, <1>5, <1>6, <1>7, <1>8, <1>9

\* swapOut keeps the invariant: it continues on the native stack.
LEMMA SwitchOutStep ==
  ASSUME IInv, NEW t \in Threads, SwitchOut(t)
  PROVE  IInv'
<1> USE FiberAssumption DEF IInv
<1>1. TypeOK'
  BY DEF SwitchOut, life, TypeOK, PC, Point, Context, Fibers, NativeInv, InsideInv, MainInv
<1>2. \A v \in Threads : MainInv(v)'
  BY DEF SwitchOut, life, MainInv, TypeOK, Yielded
<1>3. \A v \in Threads : NativeInv(v)'
  BY DEF SwitchOut, life, NativeInv, TypeOK, Fibers, Context, InsideInv, MainInv, HolderInv, Occupied, Awaited, Broken, Leaving
<1>4. \A v \in Threads : InsideInv(v)'
  BY DEF SwitchOut, life, InsideInv, TypeOK, Fibers, Context, NativeInv, MainInv, HolderInv, Occupied, Awaited, Broken, Leaving
<1>5. \A v \in Threads : HolderInv(v)'
  BY DEF SwitchOut, life, HolderInv, TypeOK, Leaving
<1>6. \A g \in Subs : IdleInv(g)'
  BY DEF SwitchOut, life, IdleInv, TypeOK, Fibers, Context, NativeInv, InsideInv, Occupied, Awaited, Broken
<1>7. \A g \in Subs : LifeInv(g)'
  BY DEF SwitchOut, life, LifeInv, TypeOK, Fibers, Context, NativeInv, InsideInv
<1>8. TotalFibersExact'
  BY DEF SwitchOut, life, TotalFibersExact, TypeOK
<1>9. AssertionsHold'
  BY DEF SwitchOut, life, AssertionsHold, TypeOK
<1> QED BY <1>1, <1>2, <1>3, <1>4, <1>5, <1>6, <1>7, <1>8, <1>9

\* reset keeps the invariant: a thread still on the fiber's stack is at the end of
\* MainFunc, and the fiber was then reset too early.
LEMMA ResetStep ==
  ASSUME IInv, NEW t \in Threads, NEW f \in Subs, Reset(t, f)
  PROVE  IInv'
<1> USE FiberAssumption DEF IInv
<1>r. failed = "none" /\ stack[t] = t /\ m_state[f] \in {"TERM", "EXCEPT", "INIT"}
  BY DEF Reset, InMain
<1>l. \A v \in Threads : t_fiber[v] = f => v # t /\ stack[v] = f /\ pc[v] = "endOut" /\ own[f] = 0
  <2> SUFFICES ASSUME NEW v \in Threads, t_fiber[v] = f
               PROVE  v # t /\ stack[v] = f /\ pc[v] = "endOut" /\ own[f] = 0
    OBVIOUS
  <2>1. NativeInv(v) /\ InsideInv(v) /\ v # f /\ f # NULL
    OBVIOUS
  <2> QED BY <1>r, <2>1 DEF NativeInv, InsideInv, Awaited
<1>e. (\E v \in Threads : t_fiber[v] = f) <=> Occupied(f, t)
  BY <1>l DEF Occupied, InsideInv
<1>s. /\ m_ctx' = [m_ctx EXCEPT ![f] = Context(f, "made")]
      /\ m_state' = [m_state EXCEPT ![f] = "INIT"]
      /\ UNCHANGED <<m_id, alive, ref, own, s_fiber_id, s_fiber_count, t_fiber, t_threadFiber,
                     stack, pc, failed>>
  BY DEF Reset, life, thread
<1>y. /\ early' \in SUBSET Subs
      /\ \A g \in Subs : g # f => (g \in early' <=> g \in early)
      /\ Occupied(f, t) => f \in early'
  BY DEF Reset, TypeOK
<1>u. /\ m_state'[f] = "INIT" /\ m_ctx'[f].at = "made" /\ m_ctx'[f].stack = f
      /\ \A g \in Fibers : g # f => m_state'[g] = m_state[g] /\ m_ctx'[g] = m_ctx[g]
  BY <1>s DEF TypeOK, Fibers, Context
<1>1. TypeOK'
  BY <1>y DEF Reset, life, thread, TypeOK, State, Point, Context
<1>2. \A v \in Threads : MainInv(v)'
  <2>1. \A v \in Threads : m_state'[v] = m_state[v]
    BY <1>u DEF Fibers
  <2>2. \A v \in Threads : m_cb'[v] = m_cb[v]
    BY DEF Reset, TypeOK, Fibers
  <2> QED BY <1>s, <2>1, <2>2 DEF MainInv, Yielded
<1>3. \A v \in Threads : NativeInv(v)'
  <2> SUFFICES ASSUME NEW v \in Threads PROVE NativeInv(v)'
    OBVIOUS
  <2>1. NativeInv(v)
    OBVIOUS
  <2>2. CASE stack[v] \notin Subs /\ pc[v] = "switchIn"
    <3>1. t_fiber[v] # f /\ t_fiber[v] \in Subs
      BY <1>l, <2>1, <2>2 DEF NativeInv
    <3> QED BY <1>s, <1>u, <1>y, <2>1, <2>2, <3>1 DEF NativeInv, Occupied, Fibers
  <2>3. CASE ~(stack[v] \notin Subs /\ pc[v] = "switchIn")
    BY <1>s, <2>1, <2>3 DEF NativeInv
  <2> QED BY <2>2, <2>3
<1>4. \A v \in Threads : InsideInv(v)'
  <2> SUFFICES ASSUME NEW v \in Threads, stack[v] \in Subs PROVE InsideInv(v)'
    BY <1>s DEF InsideInv
  <2>1. InsideInv(v) /\ v # f
    OBVIOUS
  <2>2. CASE stack[v] = f
    <3>1. pc[v] = "endOut" /\ own[f] = 0 /\ f \in early'
      BY <1>l, <1>e, <1>y, <2>1, <2>2 DEF InsideInv
    <3> QED BY <1>s, <1>u, <2>1, <2>2, <3>1 DEF InsideInv, Fibers
  <2>3. CASE stack[v] # f
    BY <1>s, <1>u, <1>y, <2>1, <2>3 DEF InsideInv, Awaited, Broken, Fibers
  <2> QED BY <2>2, <2>3
<1>5. \A v \in Threads : HolderInv(v)'
  <2> SUFFICES ASSUME NEW v \in Threads, t_fiber[v] \in Subs PROVE HolderInv(v)'
    BY <1>s DEF HolderInv
  <2>1. HolderInv(v)
    OBVIOUS
  <2>2. CASE t_fiber[v] = f
    <3>1. \A u \in Threads \ {v} : t_fiber[u] # f
      BY <1>l, <2>1, <2>2 DEF HolderInv, Leaving
    <3> QED BY <1>s, <2>1, <2>2, <3>1 DEF HolderInv
  <2>3. CASE t_fiber[v] # f
    BY <1>s, <1>y, <2>1, <2>3 DEF HolderInv, Leaving
  <2> QED BY <2>2, <2>3
<1>6. \A g \in Subs : IdleInv(g)'
  <2> SUFFICES ASSUME NEW g \in Subs, \A v \in Threads : t_fiber[v] # g PROVE IdleInv(g)'
    BY <1>s DEF IdleInv
  <2>1. IdleInv(g)
    OBVIOUS
  <2>2. CASE g = f
    BY <1>r, <1>s, <1>u, <2>1, <2>2 DEF IdleInv
  <2>3. CASE g # f
    BY <1>s, <1>u, <1>y, <2>1, <2>3 DEF IdleInv, Fibers
  <2> QED BY <2>2, <2>3
<1>7. \A g \in Subs : LifeInv(g)'
  BY <1>s, <1>u DEF LifeInv, Fibers
<1>8. TotalFibersExact'
  BY <1>s DEF TotalFibersExact
<1>9. AssertionsHold'
  BY <1>r, <1>s DEF AssertionsHold
<1> QED BY <1>1, <1>2, <1>3, <1>4, <1>5, <1>6, <1>7, <1>8, <1>9

\* Copying a shared_ptr keeps the invariant.
LEMMA ShareStep ==
  ASSUME IInv, NEW t \in Threads, NEW u \in Threads, NEW f \in Subs, Share(t, u, f)
  PROVE  IInv'
<1> USE FiberAssumption DEF IInv
<1>1. TypeOK'
  BY DEF Share, InMain, object, thread, TypeOK, State, PC, Point, Context, Fibers
<1>2. \A v \in Threads : MainInv(v)'
  BY DEF Share, InMain, object, thread, MainInv, TypeOK, Yielded
<1>3. \A v \in Threads : NativeInv(v)'
  BY DEF Share, InMain, object, thread, NativeInv, TypeOK, Occupied
<1>4. \A v \in Threads : InsideInv(v)'
  BY DEF Share, InMain, object, thread, InsideInv, TypeOK, Awaited, Broken
<1>5. \A v \in Threads : HolderInv(v)'
  BY DEF Share, InMain, object, thread, HolderInv, TypeOK, Leaving
<1>6. \A g \in Subs : IdleInv(g)'
  BY DEF Share, InMain, object, thread, IdleInv, TypeOK
<1>7. \A g \in Subs : LifeInv(g)'
  BY DEF Share, InMain, object, thread, LifeInv, TypeOK, Fibers, Context, NativeInv, InsideInv, HolderInv, IdleInv, Unreferenced
<1>8. TotalFibersExact'
  BY DEF Share, InMain, object, thread, TotalFibersExact, TypeOK
<1>9. AssertionsHold'
  BY DEF Share, InMain, object, thread, AssertionsHold, TypeOK
<1> QED BY <1>1, <1>2, <1>3, <1>4, <1>5, <1>6, <1>7, <1>8, <1>9

\* Dropping a shared_ptr keeps the invariant: ~Fiber finds the fiber INIT, TERM or
\* EXCEPT, because a suspended one is pinned by its own frames.
LEMMA DropStep ==
  ASSUME IInv, NEW t \in Threads, NEW f \in Subs, Drop(t, f)
  PROVE  IInv'
<1> USE FiberAssumption DEF IInv
<1>c. s_fiber_count' \in Nat /\ TotalFibersExact'
  <2>1. CASE Unreferenced(ref[f] \ {t}, own[f])
    <3>1. f \in alive
      BY DEF Drop, LifeInv, Unreferenced
    <3>2. alive' = alive \ {f} /\ s_fiber_count' = s_fiber_count - 1
      BY <2>1 DEF Drop, Release
    <3> QED BY <3>1, <3>2, CountDown
  <2>2. CASE ~Unreferenced(ref[f] \ {t}, own[f])
    BY <2>2 DEF Drop, Keep, TypeOK, TotalFibersExact
  <2> QED BY <2>1, <2>2
<1>1. TypeOK'
  <2>1. /\ ref' \in [Subs -> SUBSET Threads] /\ alive' \in SUBSET Fibers
        /\ failed' \in {"none", "~Fiber"}
    BY DEF Drop, Release, Keep, InMain, TypeOK
  <2> QED BY <1>c, <2>1 DEF Drop, object, thread, TypeOK
<1>2. \A v \in Threads : MainInv(v)'
  BY <1>c DEF Drop, InMain, object, thread, Release, Keep, MainInv, TypeOK, Yielded
<1>3. \A v \in Threads : NativeInv(v)'
  BY <1>c DEF Drop, InMain, object, thread, Release, Keep, NativeInv, TypeOK, Occupied
<1>4. \A v \in Threads : InsideInv(v)'
  <2>1. failed = "none"
    BY DEF Drop, InMain
  <2>2. UNCHANGED <<m_state, m_ctx, own, t_fiber, stack, pc, early>>
    BY DEF Drop, object, thread
  <2> QED BY <2>1, <2>2 DEF InsideInv, Awaited, Broken
<1>5. \A v \in Threads : HolderInv(v)'
  BY <1>c DEF Drop, InMain, object, thread, Release, Keep, HolderInv, TypeOK, Fibers, Context, NativeInv, InsideInv, Occupied, Awaited, Broken, Leaving
<1>6. \A g \in Subs : IdleInv(g)'
  BY <1>c DEF Drop, InMain, object, thread, Release, Keep, IdleInv, TypeOK
<1>7. \A g \in Subs : LifeInv(g)'
  BY <1>c DEF Drop, InMain, object, thread, Release, Keep, LifeInv, TypeOK, Fibers, Context, NativeInv, InsideInv, HolderInv, IdleInv, Unreferenced
<1>8. AssertionsHold'
  <2>1. failed = "none"
    BY DEF Drop, InMain
  <2>2. CASE Unreferenced(ref[f] \ {t}, own[f])
    <3>1. m_state[f] \in {"TERM", "EXCEPT", "INIT"}
      BY <2>2 DEF Drop, InMain, NativeInv, InsideInv, HolderInv, IdleInv, Unreferenced
    <3> QED BY <2>2, <3>1 DEF Drop, Release, AssertionsHold
  <2>3. CASE ~Unreferenced(ref[f] \ {t}, own[f])
    BY <2>1, <2>3 DEF Drop, Keep, AssertionsHold
  <2> QED BY <2>2, <2>3
<1> QED BY <1>1, <1>2, <1>3, <1>4, <1>5, <1>6, <1>7, <1>c, <1>8

\* The end of a thread keeps the invariant: its main fiber is in STATE_EXEC, or it
\* yielded and the assertion fails.
LEMMA ExitStep ==
  ASSUME IInv, NEW t \in Threads, Exit(t)
  PROVE  IInv'
<1> USE FiberAssumption DEF IInv
<1>h. InMain(t) /\ MainInv(t) /\ NativeInv(t)
  BY DEF Exit
<1>n. stack[t] = t /\ pc[t] = "run" /\ t_fiber[t] = t_threadFiber[t] /\ t_threadFiber[t] \in {NULL, t}
  BY <1>h DEF InMain, NativeInv, MainInv
<1>c. s_fiber_count' \in Nat /\ TotalFibersExact'
  <2>1. CASE t_threadFiber[t] = NULL
    BY <2>1 DEF Exit, Keep, TypeOK, TotalFibersExact
  <2>2. CASE t_threadFiber[t] = t
    <3>1. t \in alive /\ t # NULL
      BY <1>h, <2>2 DEF MainInv
    <3>2. alive' = alive \ {t} /\ s_fiber_count' = s_fiber_count - 1
      BY <2>2, <3>1 DEF Exit
    <3> QED BY <3>1, <3>2, CountDown
  <2> QED BY <1>n, <2>1, <2>2
<1>s. /\ alive' = alive \ {t}
      /\ t_fiber' = [t_fiber EXCEPT ![t] = NULL]
      /\ t_threadFiber' = [t_threadFiber EXCEPT ![t] = NULL]
      /\ pc' = [pc EXCEPT ![t] = "exited"]
      /\ failed' = "none" \/ (failed' = "~Fiber main" /\ Yielded(t))
      /\ UNCHANGED <<object, ref, own, s_fiber_id, stack, early>>
  <2>1. CASE t_threadFiber[t] = NULL
    <3>1. t \notin alive /\ failed = "none"
      BY <1>h, <2>1 DEF MainInv, InMain
    <3> QED BY <1>n, <2>1, <3>1 DEF Exit, Keep, TypeOK
  <2>2. CASE t_threadFiber[t] = t
    <3>1. t # NULL /\ (m_state[t] = "EXEC" \/ Yielded(t)) /\ ~m_cb[t]
      BY <1>h, <2>2 DEF MainInv
    <3> QED BY <1>n, <2>2, <3>1 DEF Exit, TypeOK
  <2> QED BY <1>n, <2>1, <2>2
<1>1. TypeOK'
  BY <1>n, <1>c, <1>s DEF object, TypeOK, State, PC, Point, Context, Fibers
<1>2. \A v \in Threads : MainInv(v)'
  BY <1>n, <1>c, <1>s DEF object, MainInv, TypeOK, Yielded
<1>u. \A v \in Threads : v # t => t_fiber'[v] = t_fiber[v] /\ pc'[v] = pc[v]
  BY <1>s DEF TypeOK
<1>v. t_fiber'[t] = NULL /\ pc'[t] = "exited" /\ stack'[t] = t /\ t_fiber[t] \notin Subs
  BY <1>n, <1>s DEF TypeOK
<1>k. /\ failed = "none" /\ ~Broken'
      /\ m_state' = m_state /\ m_ctx' = m_ctx /\ own' = own /\ ref' = ref /\ stack' = stack
      /\ early' = early
  BY <1>h, <1>s DEF InMain, Broken, object
<1>3. \A v \in Threads : NativeInv(v)'
  <2> SUFFICES ASSUME NEW v \in Threads PROVE NativeInv(v)'
    OBVIOUS
  <2>1. CASE v = t
    BY <1>v, <2>1 DEF NativeInv
  <2>2. CASE v # t
    <3>1. NativeInv(v)
      OBVIOUS
    <3> QED BY <1>k, <1>u, <2>2, <3>1 DEF NativeInv, Occupied
  <2> QED BY <2>1, <2>2
<1>4. \A v \in Threads : InsideInv(v)'
  <2> SUFFICES ASSUME NEW v \in Threads PROVE InsideInv(v)'
    OBVIOUS
  <2>1. CASE v = t
    BY <1>v, <2>1 DEF InsideInv
  <2>2. CASE v # t
    <3>1. InsideInv(v)
      OBVIOUS
    <3>2. stack[v] \in Subs /\ Awaited(v) => Awaited(v)'
      BY <1>k, <1>u, <1>v DEF Awaited
    <3> QED BY <1>k, <1>u, <2>2, <3>1, <3>2 DEF InsideInv, Broken
  <2> QED BY <2>1, <2>2
<1>5. \A v \in Threads : HolderInv(v)'
  BY <1>k, <1>u, <1>v DEF HolderInv, Leaving
<1>6. \A g \in Subs : IdleInv(g)'
  BY <1>k, <1>u, <1>v DEF IdleInv
<1>7. \A g \in Subs : LifeInv(g)'
  BY <1>n, <1>c, <1>s DEF object, LifeInv, TypeOK
<1>8. AssertionsHold'
  BY <1>s DEF object, AssertionsHold, Yielded
<1> QED BY <1>1, <1>2, <1>3, <1>4, <1>5, <1>6, <1>7, <1>c, <1>8
-----------------------------------------------------------------------------
\* The invariant holds initially.
LEMMA InitInv ==
  ASSUME Init
  PROVE  IInv
<1> USE FiberAssumption DEF Init
<1>1. TypeOK
  BY DEF TypeOK, State, PC, Point, Context, Fibers
<1>2. \A t \in Threads : MainInv(t) /\ NativeInv(t) /\ InsideInv(t) /\ HolderInv(t)
  BY DEF MainInv, NativeInv, InsideInv, HolderInv, Fibers
<1>3. \A f \in Subs : IdleInv(f) /\ LifeInv(f)
  BY DEF IdleInv, LifeInv, Unreferenced, Context, Fibers
<1>4. TotalFibersExact /\ AssertionsHold
  BY FS_EmptySet DEF TotalFibersExact, AssertionsHold
<1> QED BY <1>1, <1>2, <1>3, <1>4 DEF IInv

\* A stuttering step keeps the invariant.
LEMMA StutterStep ==
  ASSUME IInv, UNCHANGED vars
  PROVE  IInv'
<1> USE DEF vars, object, life, thread
<1>1. TypeOK'
  BY DEF IInv, TypeOK
<1>2. \A t \in Threads : MainInv(t)' /\ NativeInv(t)'
  BY DEF IInv, MainInv, Yielded, NativeInv, Occupied
<1>5. \A t \in Threads : InsideInv(t)'
  BY DEF IInv, InsideInv, Awaited, Broken
<1>6. \A t \in Threads : HolderInv(t)'
  BY DEF IInv, HolderInv, Leaving
<1>3. \A f \in Subs : IdleInv(f)' /\ LifeInv(f)'
  BY DEF IInv, IdleInv, LifeInv
<1>4. TotalFibersExact' /\ AssertionsHold'
  BY DEF IInv, TotalFibersExact, AssertionsHold, Yielded
<1> QED BY <1>1, <1>2, <1>3, <1>4, <1>5, <1>6 DEF IInv

\* Every step of the program keeps the invariant.
LEMMA NextStep ==
  ASSUME IInv, [Next]_vars
  PROVE  IInv'
BY GetThisStep, NewFiberStep, SwapInStep, SwitchInStep, YieldToStep, YieldMainStep,
   FinishStep, SwitchOutStep, ResetStep, ShareStep, DropStep, ExitStep, StutterStep DEF Next

\* The inductive invariant holds in every reachable state.
THEOREM Invariant == Spec => []IInv
BY InitInv, NextStep, PTL DEF Spec

\* Every variable of the fiber library keeps its type.
THEOREM TypeCorrect == Spec => []TypeOK
<1>1. IInv => TypeOK
  BY DEF IInv
<1> QED BY <1>1, Invariant, PTL

\* No ASSERT_MACRO of fiber.cpp fires but those of a main fiber that yielded and
\* those of a fiber swapped in or reset too early, whatever the number of threads
\* and fibers, for every client that keeps to the @pre of fiber.h.
THEOREM NoAssertionFails == Spec => []AssertionsHold
<1>1. IInv => AssertionsHold
  BY DEF IInv
<1> QED BY <1>1, Invariant, PTL

\* Fiber::GetThis always names the fiber the thread really executes.
THEOREM GetThisIsRight == Spec => []CurrentFiberIsRunning
<1>1. IInv => CurrentFiberIsRunning
  <2> SUFFICES ASSUME IInv, NEW t \in Threads, pc[t] = "run", t_fiber[t] # NULL
               PROVE  t_fiber[t] = stack[t] /\ (stack[t] \in Subs => m_state[stack[t]] = "EXEC")
    <3>1. ASSUME IInv, NEW t \in Threads, t_fiber[t] = NULL PROVE stack[t] = t
      <4>1. NativeInv(t) /\ InsideInv(t)
        BY <3>1 DEF IInv
      <4> QED BY <3>1, <4>1, FiberAssumption DEF NativeInv, InsideInv
    <3> QED BY <3>1 DEF CurrentFiberIsRunning
  <2>1. MainInv(t) /\ NativeInv(t) /\ InsideInv(t)
    BY DEF IInv
  <2> QED BY <2>1 DEF MainInv, NativeInv, InsideInv
<1> QED BY <1>1, Invariant, PTL

\* No thread executes on a freed stack.
THEOREM StacksAreAlive == Spec => []NoStackUseAfterFree
<1>1. IInv => NoStackUseAfterFree
  BY DEF IInv, InsideInv, HolderInv, LifeInv, Unreferenced, NoStackUseAfterFree
<1> QED BY <1>1, Invariant, PTL

\* Two threads are on one stack only in the gap between the published state and
\* swapOut, for every client that keeps to the @pre of fiber.h.
THEOREM StacksAreExclusive == Spec => []StackExclusive
<1>1. IInv => StackExclusive
  <2> SUFFICES ASSUME IInv, NEW t \in Threads, NEW u \in Threads, t # u, stack[t] = stack[u]
               PROVE  stack[t] \in early /\ (Leaving(t) \/ Leaving(u))
    BY DEF StackExclusive
  <2>1. NativeInv(t) /\ NativeInv(u) /\ InsideInv(t) /\ InsideInv(u) /\ HolderInv(t)
    BY DEF IInv
  <2>2. stack[t] \in Subs /\ t_fiber[t] = stack[t] /\ t_fiber[u] = stack[t]
    BY <2>1, FiberAssumption DEF NativeInv, InsideInv
  <2> QED BY <2>1, <2>2 DEF HolderInv
<1> QED BY <1>1, Invariant, PTL

\* Fiber::TotalFibers is the number of live fiber objects.
THEOREM CountIsExact == Spec => []TotalFibersExact
<1>1. IInv => TotalFibersExact
  BY DEF IInv
<1> QED BY <1>1, Invariant, PTL

\* A fiber that outlives every outside shared_ptr is suspended inside a yield.
THEOREM LeaksAreSuspended == Spec => []OnlySuspendedLeak
<1>1. IInv => OnlySuspendedLeak
  BY DEF IInv, IdleInv, HolderInv, LifeInv, Unreferenced, OnlySuspendedLeak
<1> QED BY <1>1, Invariant, PTL

\* swapOut always comes back to the native stack of the thread.
THEOREM SwapOutReturns == Spec => BackToMain
<1> DEFINE Back == \A t \in Threads :
      pc[t] \in {"yieldOut", "endOut"} /\ pc'[t] = "run" => stack'[t] = t /\ t_fiber'[t] = t
<1>1. IInv /\ [Next]_vars => [Back]_vars
  <2> SUFFICES ASSUME IInv, Next PROVE Back
    OBVIOUS
  <2>1. SUFFICES ASSUME NEW t \in Threads, pc[t] \in {"yieldOut", "endOut"}, pc'[t] = "run"
                 PROVE  stack'[t] = t /\ t_fiber'[t] = t
    BY DEF Back
  <2>2. InsideInv(t) /\ NativeInv(t) /\ MainInv(t) /\ TypeOK
    BY DEF IInv
  <2>3. stack[t] \in Subs /\ t_fiber[t] = stack[t] /\ m_ctx[t] = Context(t, "swapIn") /\ t_threadFiber[t] = t
    BY <2>1, <2>2, FiberAssumption DEF InsideInv, NativeInv, MainInv
  <2>4. SwitchOut(t)
    <3>1. ASSUME NEW u \in Threads, SwitchOut(u) PROVE u = t
      BY <2>1, <3>1, <2>2 DEF SwitchOut, TypeOK
    <3>2. ASSUME NEW u \in Threads, GetThis(u) \/ SwitchIn(u) \/ Exit(u) PROVE FALSE
      BY <2>1, <3>2, <2>2 DEF GetThis, SwitchIn, Exit, InMain, TypeOK
    <3>3. ASSUME NEW u \in Threads, NEW s, YieldTo(u, s) \/ YieldMain(u, s) \/ Finish(u, s) PROVE FALSE
      BY <2>1, <3>3, <2>2 DEF YieldTo, YieldMain, Finish, InCallback, InMain, TypeOK
    <3>4. ASSUME NEW u \in Threads, NEW f \in Subs,
                 \/ NewFiber(u, f) \/ SwapIn(u, f) \/ Reset(u, f) \/ Drop(u, f)
                 \/ \E v \in Threads : Share(u, v, f)
          PROVE  FALSE
      BY <2>1, <3>4, <2>2 DEF NewFiber, SwapIn, Entered, Reset, Drop, Share, InMain, thread, TypeOK
    <3> QED BY <3>1, <3>2, <3>3, <3>4 DEF Next
  <2> QED BY <2>2, <2>3, <2>4, FiberAssumption DEF SwitchOut, TypeOK, Fibers, Context
<1> QED BY <1>1, Invariant, PTL DEF Spec, BackToMain, Back
=============================================================================
