------------------------ MODULE WindowActions_proof -------------------------
(* Actions on a window are serialized, and when they are done the window     *)
(* agrees with the server and holds one living view for a tab: for every set *)
(* of workspaces and tabs, every bound and any number of identities for      *)
(* activations of the loop.                                                  *)
(*                                                                           *)
(* Nothing but the queue says that a loop is running: _queueActionInternal   *)
(* starts one when the queue was empty.  That is sound because a loop that   *)
(* waits has its action in the queue, and because a request is handled only  *)
(* while every loop waits.                                                   *)
EXTENDS WindowActions, TLAPS, SequenceTheorems, FiniteSetTheorems, WellFoundedInduction

Places == {"backend", "config", "init"}

(* The inductive invariant: Serialized, with the shape of its variables.     *)
IInv ==
  /\ actionQueue \in Seq(Entries)
  /\ DOMAIN loops = Loops
  /\ Serialized

(* What a step of loop l does to the queue and to the loops. *)
LoopMoves(l) ==
  /\ l \in Loops /\ Processing(l)
  /\ \/ Continue(l)
     \/ Return(l)
     \/ \E place \in Places : \E tab : actionQueue # <<>> /\ Await(l, place, tab)

-----------------------------------------------------------------------------
(* The head leaves the queue. *)
LEMMA ShiftType ==
  ASSUME actionQueue \in Seq(Entries), Shift
  PROVE  actionQueue' \in Seq(Entries) /\ Len(actionQueue') <= Len(actionQueue)
<1>1. CASE actionQueue = <<>>
  BY <1>1 DEF Shift
<1>2. CASE actionQueue # <<>>
  <2>1. actionQueue' = Tail(actionQueue)
    BY <1>2 DEF Shift
  <2>2. Tail(actionQueue) \in Seq(Entries) /\ Len(Tail(actionQueue)) = Len(actionQueue) - 1
    BY <1>2, HeadTailProperties
  <2>3. Len(actionQueue) \in Nat
    BY LenProperties
  <2> QED BY <2>1, <2>2, <2>3
<1> QED BY <1>1, <1>2

(* Moving one loop leaves the others where they were. *)
LEMMA OneLoopMoves ==
  ASSUME DOMAIN loops = Loops, NEW l \in Loops, NEW place, NEW tab,
         loops' = [loops EXCEPT ![l] = At(place, tab)]
  PROVE  /\ DOMAIN loops' = Loops
         /\ loops'[l].at = place
         /\ \A k \in Loops \ {l} : loops'[k] = loops[k]
BY DEF At

(* A step of the loop that is processing keeps the invariant. *)
LEMMA LoopKeeps ==
  ASSUME IInv, NEW l, LoopMoves(l)
  PROVE  IInv'
<1>1. l \in Loops /\ Processing(l)
  BY DEF LoopMoves
<1>2. \A k \in Loops : Processing(k) => k = l
  BY <1>1 DEF IInv, Serialized
<1>3. actionQueue \in Seq(Entries) /\ DOMAIN loops = Loops /\ Len(actionQueue) <= 2
  BY DEF IInv, Serialized
<1>4. Len(actionQueue) \in Nat
  BY <1>3, LenProperties
<1>5. SUFFICES ASSUME NEW place, NEW tab, DOMAIN loops' = Loops, loops'[l].at = place,
                      \A k \in Loops \ {l} : loops'[k] = loops[k],
                      actionQueue' \in Seq(Entries), Len(actionQueue') <= Len(actionQueue),
                      Len(actionQueue') \in Nat,
                      place \notin {"turn", "off"} => actionQueue' # <<>>
               PROVE  IInv'
  <2>1. CASE Continue(l)
    <3>1. Shift /\ loops' = [loops EXCEPT ![l] = At("turn", 0)]
      BY <2>1 DEF Continue
    <3>2. actionQueue' \in Seq(Entries) /\ Len(actionQueue') <= Len(actionQueue)
      BY <1>3, <3>1, ShiftType
    <3>3. Len(actionQueue') \in Nat
      BY <3>2, LenProperties
    <3>4. DOMAIN loops' = Loops /\ loops'[l].at = "turn" /\ \A k \in Loops \ {l} : loops'[k] = loops[k]
      BY <1>1, <1>3, <3>1, OneLoopMoves
    <3> QED BY <1>5, <3>2, <3>3, <3>4
  <2>2. CASE Return(l)
    <3>1. Shift /\ loops' = [loops EXCEPT ![l] = At("off", 0)]
      BY <2>2 DEF Return, Off
    <3>2. actionQueue' \in Seq(Entries) /\ Len(actionQueue') <= Len(actionQueue)
      BY <1>3, <3>1, ShiftType
    <3>3. Len(actionQueue') \in Nat
      BY <3>2, LenProperties
    <3>4. DOMAIN loops' = Loops /\ loops'[l].at = "off" /\ \A k \in Loops \ {l} : loops'[k] = loops[k]
      BY <1>1, <1>3, <3>1, OneLoopMoves
    <3> QED BY <1>5, <3>2, <3>3, <3>4
  <2>3. ASSUME NEW p \in Places, NEW t, actionQueue # <<>>, Await(l, p, t) PROVE IInv'
    <3>1. loops' = [loops EXCEPT ![l] = At(p, t)] /\ actionQueue' = actionQueue
      BY <2>3 DEF Await
    <3>2. DOMAIN loops' = Loops /\ loops'[l].at = p /\ \A k \in Loops \ {l} : loops'[k] = loops[k]
      BY <1>1, <1>3, <3>1, OneLoopMoves
    <3> QED BY <1>3, <1>4, <1>5, <2>3, <3>1, <3>2
  <2> QED BY <2>1, <2>2, <2>3 DEF LoopMoves
<1>6. \A k \in Loops : Processing(k)' => k = l
  BY <1>2, <1>5 DEF Processing
<1>7. Len(actionQueue') <= 2
  BY <1>3, <1>4, <1>5
<1>8. \A k \in Loops : Processing(k)' /\ ~Turning(k)' => actionQueue' # <<>>
  BY <1>5, <1>6 DEF Processing, Turning
<1> QED BY <1>5, <1>6, <1>7, <1>8 DEF IInv, Serialized

(* A request that is queued keeps the invariant: it may start a loop only    *)
(* when the queue is empty, and then none is running.                        *)
LEMMA EnqueueKeeps ==
  ASSUME IInv, Yielded, NEW entry \in Entries, Enqueue(entry)
  PROVE  IInv'
<1>1. actionQueue \in Seq(Entries) /\ DOMAIN loops = Loops
  BY DEF IInv
<1>2. Len(actionQueue) \in Nat /\ (actionQueue = <<>> <=> Len(actionQueue) = 0)
  BY <1>1, EmptySeq, LenProperties
<1>3. CASE Len(actionQueue) >= 2
  <2>1. actionQueue' = [actionQueue EXCEPT ![2] = entry] /\ loops' = loops
    BY <1>3 DEF Enqueue
  <2>2. 2 \in 1..Len(actionQueue)
    BY <1>2, <1>3
  <2>3. actionQueue' \in Seq(Entries) /\ Len(actionQueue') = Len(actionQueue)
    BY <1>1, <2>1, <2>2, ExceptSeq
  <2>4. actionQueue' # <<>>
    BY <1>2, <1>3, <2>3, EmptySeq
  <2> QED BY <1>1, <2>1, <2>3, <2>4 DEF IInv, Serialized, Processing, Turning
<1>4. CASE Len(actionQueue) < 2
  <2>1. actionQueue' = Append(actionQueue, entry)
    BY <1>2, <1>4 DEF Enqueue
  <2>2. actionQueue' \in Seq(Entries) /\ Len(actionQueue') = Len(actionQueue) + 1
    BY <1>1, <2>1, AppendProperties
  <2>3. actionQueue' # <<>> /\ Len(actionQueue') <= 2
    BY <1>2, <1>4, <2>2, EmptySeq
  <2>4. CASE actionQueue = <<>>
    <3>1. PICK l \in Loops : ~Processing(l) /\ loops' = [loops EXCEPT ![l] = At("turn", 0)]
      BY <1>2, <1>4, <2>4 DEF Enqueue
    <3>2. \A k \in Loops : ~Processing(k)
      BY <2>4 DEF IInv, Serialized, Yielded
    <3>3. DOMAIN loops' = Loops /\ \A k \in Loops \ {l} : loops'[k] = loops[k]
      BY <1>1, <3>1, OneLoopMoves
    <3>4. \A k \in Loops : Processing(k)' => k = l
      BY <3>2, <3>3 DEF Processing
    <3> QED BY <2>2, <2>3, <3>3, <3>4 DEF IInv, Serialized
  <2>5. CASE actionQueue # <<>>
    <3>1. loops' = loops
      BY <1>2, <1>4, <2>5 DEF Enqueue
    <3> QED BY <1>1, <2>2, <2>3, <3>1 DEF IInv, Serialized, Processing, Turning
  <2> QED BY <2>4, <2>5
<1> QED BY <1>2, <1>3, <1>4

LEMMA UnchangedKeeps ==
  ASSUME IInv, actionQueue' = actionQueue, loops' = loops
  PROVE  IInv'
BY DEF IInv, Serialized, Processing, Turning

-----------------------------------------------------------------------------
(* Each action is one of the three. *)

LEMMA ShowMoves ==
  ASSUME NEW l \in Loops, NEW t, NEW loaded, NEW cache, ShowTab(l, t, loaded, cache),
         Processing(l), actionQueue # <<>>
  PROVE  LoopMoves(l)
<1>1. Continue(l) \/ \E place \in Places : \E tab : Await(l, place, tab)
  BY Zenon DEF ShowTab, SetTabViewIntoWindow, Places
<1> QED BY <1>1 DEF LoopMoves

LEMMA AnswersMove ==
  ASSUME IInv, NEW l \in Loops, Answers(l)
  PROVE  LoopMoves(l)
<1>1. Processing(l) /\ (actionQueue # <<>> \/ CallFails(l))
  <2>1. CASE CallFails(l)
    BY <2>1 DEF CallFails, Processing
  <2>2. CASE ~CallFails(l)
    <3>1. \E op : Waiting(l, op)
      BY <2>2, Zenon DEF Answers, CreateTabAnswers, SetActiveTabAnswers, CloseTabAnswers, SwitchRefused,
                  SwitchAnswers, CallRefused
    <3> QED BY <3>1 DEF Waiting, Processing
  <2> QED BY <2>1, <2>2
<1>2. CASE CreateTabAnswers(l)
  <2>1. ShowTab(l, nextTab, allLoadedTabViews, wcvCache) /\ actionQueue # <<>>
    BY <1>2, Zenon DEF CreateTabAnswers, Waiting
  <2> QED BY <1>1, <2>1, ShowMoves
<1>3. CASE SetActiveTabAnswers(l)
  <2>1. (\E t : ShowTab(l, t, allLoadedTabViews, wcvCache)) /\ actionQueue # <<>>
    BY <1>3, Zenon DEF SetActiveTabAnswers, Waiting
  <2> QED BY <1>1, <2>1, ShowMoves
<1>4. CASE CloseTabAnswers(l)
  <2>1. Return(l) \/ \E t : ShowTab(l, t, allLoadedTabViews, wcvCache)
    BY <1>4, Zenon DEF CloseTabAnswers
  <2>2. actionQueue # <<>>
    BY <1>4 DEF CloseTabAnswers, Waiting
  <2>3. CASE Return(l)
    BY <1>1, <2>3 DEF LoopMoves
  <2> QED BY <1>1, <2>1, <2>2, <2>3, ShowMoves
<1>5. CASE SwitchRefused(l)
  BY <1>1, <1>5 DEF SwitchRefused, LoopMoves
<1>6. CASE SwitchAnswers(l)
  <2>1. (\E t, cache : ShowTab(l, t, {}, cache)) /\ actionQueue # <<>>
    BY <1>6, Zenon DEF SwitchAnswers, Waiting
  <2> QED BY <1>1, <2>1, ShowMoves
<1>7. CASE CallRefused(l)
  BY <1>1, <1>7 DEF CallRefused, LoopMoves
<1>8. CASE CallFails(l)
  BY <1>1, <1>8 DEF CallFails, LoopMoves
<1> QED BY <1>2, <1>3, <1>4, <1>5, <1>6, <1>7, <1>8 DEF Answers

LEMMA LoopStepMoves ==
  ASSUME IInv, NEW l \in Loops, LoopStep(l)
  PROVE  LoopMoves(l)
<1>1. CASE LoopEnds(l)
  <2>1. Processing(l)
    BY <1>1 DEF LoopEnds, Turning, Processing
  <2>2. CASE actionQueue = <<>>
    <3>1. loops' = [loops EXCEPT ![l] = Off] /\ actionQueue' = <<>>
      BY <1>1, <2>2 DEF LoopEnds
    <3>2. Return(l)
      BY <2>2, <3>1 DEF Return, Shift
    <3> QED BY <2>1, <3>2 DEF LoopMoves
  <2>3. CASE actionQueue # <<>>
    BY <1>1, <2>1, <2>3 DEF LoopEnds, LoopMoves
  <2> QED BY <2>2, <2>3
<1>2. CASE SkipSwitch(l)
  BY <1>2 DEF SkipSwitch, Turning, Processing, LoopMoves
<1>3. CASE CallBackend(l)
  BY <1>3 DEF CallBackend, Turning, Processing, LoopMoves, Places
<1>4. CASE Answers(l)
  BY <1>4, AnswersMove
<1>5. CASE ConfigAnswers(l)
  <2>1. Processing(l) /\ ~Turning(l)
    BY <1>5 DEF ConfigAnswers, Processing, Turning
  <2>2. actionQueue # <<>>
    BY <2>1 DEF IInv, Serialized
  <2>3. \E v, loaded : SetTabViewIntoWindow(l, v, FALSE, loaded)
    BY <1>5, Zenon DEF ConfigAnswers
  <2>4. Await(l, "init", 0)
    BY <2>3 DEF SetTabViewIntoWindow
  <2> QED BY <2>1, <2>2, <2>4 DEF LoopMoves, Places
<1>6. CASE ViewReady(l)
  BY <1>6 DEF ViewReady, Processing, LoopMoves
<1> QED BY <1>1, <1>2, <1>3, <1>4, <1>5, <1>6 DEF LoopStep

LEMMA RequestKeeps ==
  ASSUME IInv, NEW entry \in Entries, RequestTab(entry)
  PROVE  IInv'
<1>1. Yielded /\ Enqueue(entry)
  BY DEF RequestTab, CanAsk
<1> QED BY <1>1, EnqueueKeeps

LEMMA SwitchQueuedKeeps ==
  ASSUME IInv, NEW w \in Workspaces, SwitchWorkspaceQueued(w)
  PROVE  IInv'
<1>1. [op |-> "switchworkspace", ws |-> w] \in Entries
  BY DEF Entries
<1>2. CASE Enqueue([op |-> "switchworkspace", ws |-> w])
  BY <1>1, <1>2, EnqueueKeeps DEF SwitchWorkspaceQueued
<1>3. CASE UNCHANGED queue
  BY <1>3, UnchangedKeeps DEF queue
<1> QED BY <1>2, <1>3, Zenon DEF SwitchWorkspaceQueued

-----------------------------------------------------------------------------
(* At the start the queue is empty and no loop runs. *)
LEMMA InitOK == Init => IInv
<1> SUFFICES ASSUME Init PROVE IInv
  OBVIOUS
<1>1. actionQueue = <<>> /\ loops = [l \in Loops |-> Off]
  BY DEF Init
<1>2. actionQueue \in Seq(Entries) /\ Len(actionQueue) = 0
  BY <1>1
<1>3. \A l \in Loops : ~Processing(l)
  BY <1>1 DEF Processing, Off, At
<1> QED BY <1>1, <1>2, <1>3 DEF IInv, Serialized

LEMMA InvKept == IInv /\ [Next]_vars => IInv'
<1> SUFFICES ASSUME IInv, [Next]_vars PROVE IInv'
  OBVIOUS
<1>1. CASE CreateTabRequested
  <2>1. [op |-> "createtab"] \in Entries
    BY DEF Entries
  <2> QED BY <1>1, <2>1, RequestKeeps DEF CreateTabRequested
<1>2. ASSUME NEW t \in Tabs, CloseTabRequested(t) PROVE IInv'
  <2>1. [op |-> "closetab", tab |-> t] \in Entries
    BY DEF Entries
  <2> QED BY <1>2, <2>1, RequestKeeps DEF CloseTabRequested
<1>3. ASSUME NEW t \in Tabs, SetActiveTabRequested(t) PROVE IInv'
  <2>1. [op |-> "switchtab", tab |-> t, setInBackend |-> TRUE] \in Entries
    BY DEF Entries
  <2> QED BY <1>3, <2>1, RequestKeeps DEF SetActiveTabRequested
<1>4. ASSUME NEW t \in Tabs, RemoveTabViewLater(t) PROVE IInv'
  BY <1>4, UnchangedKeeps DEF RemoveTabViewLater, queue
<1>5. ASSUME NEW w \in Workspaces, SwitchWorkspaceRequested(w) PROVE IInv'
  BY <1>5, UnchangedKeeps DEF SwitchWorkspaceRequested, queue
<1>6. ASSUME NEW w \in Workspaces, SwitchWorkspaceQueued(w) PROVE IInv'
  BY <1>6, SwitchQueuedKeeps
<1>7. ASSUME NEW l \in Loops, LoopStep(l) PROVE IInv'
  BY <1>7, LoopStepMoves, LoopKeeps
<1>8. CASE WindowCloses
  BY <1>8, UnchangedKeeps DEF WindowCloses, queue
<1>9. CASE UNCHANGED vars
  BY <1>9, UnchangedKeeps DEF vars, queue
<1> QED BY <1>1, <1>2, <1>3, <1>4, <1>5, <1>6, <1>7, <1>8, <1>9 DEF Next

(* Whatever is requested and in whatever order calls answer or fail, at most *)
(* one activation of processActionQueue runs, its action is in the queue,    *)
(* and the queue holds at most one more (emain-window.ts:547-660).           *)
THEOREM ActionsSerialized == Spec => []Serialized
<1>1. IInv => Serialized
  BY DEF IInv
<1> QED BY <1>1, InitOK, InvKept, PTL DEF Spec

-----------------------------------------------------------------------------
(* Lists without some of their elements.  What Without returns is shown by   *)
(* induction on the length, as a statement about a set of numbers.           *)

LEMMA Induction ==
  ASSUME NEW T, 0 \in T, \A n \in Nat : n \in T => n + 1 \in T
  PROVE  Nat \subseteq T
<1> DEFINE R == {ss \in Nat \X Nat : ss[1] < ss[2]}
<1>1. IsWellFoundedOn(R, Nat)
  BY NatLessThanWellFounded DEF OpToRel
<1>2. SUFFICES ASSUME Nat \ T # {} PROVE FALSE
  OBVIOUS
<1>3. PICK x \in Nat \ T : \A y \in Nat \ T : ~(<<y, x>> \in R)
  <2>1. Nat \ T \subseteq Nat
    OBVIOUS
  <2> HIDE DEF R
  <2> QED BY <1>1, <1>2, <2>1, WFMin
<1>4. x - 1 \in Nat \ T
  <2>1. x # 0
    BY <1>3
  <2>2. x - 1 \in Nat /\ (x - 1) + 1 = x
    BY <1>3, <2>1
  <2> QED BY <1>3, <2>2
<1>5. <<x - 1, x>> \in R
  BY <1>3, <1>4
<1> QED BY <1>3, <1>4, <1>5
(* f lists what is kept of each prefix of s. *)
Fills(f, s, gone) ==
  /\ f[0] = <<>>
  /\ \A i \in 1..Len(s) : f[i] = IF s[i] \in gone THEN f[i - 1] ELSE Append(f[i - 1], s[i])

LEMMA WithoutFills ==
  ASSUME NEW S, NEW s \in Seq(S), NEW gone
  PROVE  \E f : Fills(f, s, gone) /\ Without(s, gone) = f[Len(s)]
<1> DEFINE Upto(f, n) == /\ f = [i \in 0..n |-> f[i]] /\ f[0] = <<>>
                         /\ \A i \in 1..n : f[i] = IF s[i] \in gone THEN f[i - 1] ELSE Append(f[i - 1], s[i])
           T == {n \in Nat : \E f : Upto(f, n)}
<1>1. Len(s) \in Nat
  BY LenProperties
<1>2. 0 \in T
  <2>1. Upto([i \in 0..0 |-> <<>>], 0)
    OBVIOUS
  <2> QED BY <2>1
<1>3. ASSUME NEW n \in Nat, n \in T PROVE n + 1 \in T
  <2>1. PICK f : Upto(f, n)
    BY <1>3
  <2> DEFINE g == [i \in 0..(n + 1) |-> IF i = n + 1 THEN IF s[n + 1] \in gone THEN f[n] ELSE Append(f[n], s[n + 1])
                                       ELSE f[i]]
  <2>2. g = [i \in 0..(n + 1) |-> g[i]] /\ g[0] = <<>>
    BY <2>1
  <2>3. ASSUME NEW i \in 1..(n + 1)
        PROVE  g[i] = IF s[i] \in gone THEN g[i - 1] ELSE Append(g[i - 1], s[i])
    <3>1. i \in Nat /\ i - 1 \in 0..n /\ i \in 0..(n + 1) /\ i - 1 \in 0..(n + 1) /\ i - 1 # n + 1
      OBVIOUS
    <3>2. g[i - 1] = f[i - 1]
      BY <3>1
    <3>3. CASE i = n + 1
      <4>1. i - 1 = n
        BY <3>3
      <4>2. g[i] = IF s[i] \in gone THEN f[n] ELSE Append(f[n], s[i])
        BY <3>1, <3>3
      <4> HIDE DEF g
      <4> QED BY <3>2, <4>1, <4>2
    <3>4. CASE i # n + 1
      <4>1. i \in 1..n
        BY <3>4
      <4>2. g[i] = f[i]
        BY <3>1, <3>4
      <4>3. f[i] = IF s[i] \in gone THEN f[i - 1] ELSE Append(f[i - 1], s[i])
        BY <2>1, <4>1
      <4> HIDE DEF g
      <4> QED BY <3>2, <4>2, <4>3
    <3> QED BY <3>3, <3>4
  <2> HIDE DEF g
  <2>4. Upto(g, n + 1)
    BY <2>2, <2>3
  <2> QED BY <2>4
<1>4. Len(s) \in T
  <2> HIDE DEF T
  <2> QED BY <1>1, <1>2, <1>3, Induction
<1>5. PICK f : Upto(f, Len(s))
  BY <1>4
<1> DEFINE Eq(g) == g = [i \in 0..Len(s) |-> IF i = 0 THEN <<>>
                                   ELSE IF s[i] \in gone THEN g[i - 1] ELSE Append(g[i - 1], s[i])]
<1>6. Eq(f)
  <2> DEFINE h == [i \in 0..Len(s) |-> IF i = 0 THEN <<>>
                                   ELSE IF s[i] \in gone THEN f[i - 1] ELSE Append(f[i - 1], s[i])]
  <2>1. f = [i \in 0..Len(s) |-> f[i]]
    BY <1>5
  <2>2. ASSUME NEW i \in 0..Len(s) PROVE f[i] = h[i]
    <3>1. i = 0 \/ i \in 1..Len(s)
      BY <1>1
    <3> QED BY <1>5, <3>1
  <2>3. [i \in 0..Len(s) |-> f[i]] = [i \in 0..Len(s) |-> h[i]]
    BY <2>2
  <2>4. h = [i \in 0..Len(s) |-> h[i]]
    OBVIOUS
  <2> HIDE DEF h
  <2>5. f = h
    BY <2>1, <2>3, <2>4
  <2> QED BY <2>5 DEF h
<1> DEFINE kept == CHOOSE g : Eq(g)
<1>7. Eq(kept)
  <2> HIDE DEF Eq
  <2> QED BY <1>6
<1>8. Without(s, gone) = kept[Len(s)]
  BY DEF Without
<1> HIDE DEF kept
<1>9. Fills(kept, s, gone)
  <2>1. kept[0] = <<>>
    <3>1. 0 \in 0..Len(s)
      BY <1>1
    <3> QED BY <1>7, <3>1
  <2>2. ASSUME NEW i \in 1..Len(s)
        PROVE  kept[i] = IF s[i] \in gone THEN kept[i - 1] ELSE Append(kept[i - 1], s[i])
    <3>1. i \in 0..Len(s) /\ i # 0
      BY <1>1
    <3> QED BY <1>7, <3>1
  <2> QED BY <2>1, <2>2 DEF Fills
<1> QED BY <1>8, <1>9

LEMMA ToSetAppend ==
  ASSUME NEW S, NEW s \in Seq(S), NEW e
  PROVE  /\ ToSet(Append(s, e)) = ToSet(s) \cup {e}
         /\ IsInjective(s) /\ e \notin ToSet(s) => IsInjective(Append(s, e))
         /\ Len(Append(s, e)) = Len(s) + 1
<1>1. PICK U : s \in Seq(U) /\ e \in U
  <2>1. s \in Seq(S \cup {e})
    BY SeqDef
  <2> QED BY <2>1
<1>2. /\ Len(Append(s, e)) = Len(s) + 1
      /\ \A i \in 1..Len(s) : Append(s, e)[i] = s[i]
      /\ Append(s, e)[Len(s) + 1] = e
      /\ Append(s, e) \in Seq(U)
  BY <1>1, AppendProperties
<1>3. Len(s) \in Nat /\ DOMAIN s = 1..Len(s) /\ DOMAIN Append(s, e) = 1..Len(Append(s, e))
  BY <1>1, <1>2, LenProperties
<1> DEFINE a == Append(s, e)
<1>4. DOMAIN a = 1..(Len(s) + 1)
  BY <1>2, <1>3
<1>5. ToSet(a) = ToSet(s) \cup {e}
  <2>1. ASSUME NEW x \in ToSet(a) PROVE x \in ToSet(s) \cup {e}
    <3>1. PICK i \in 1..(Len(s) + 1) : x = a[i]
      BY <2>1, <1>4 DEF ToSet
    <3>2. CASE i = Len(s) + 1
      BY <3>1, <3>2, <1>2
    <3>3. CASE i # Len(s) + 1
      <4>1. i \in 1..Len(s)
        BY <3>3, <1>3
      <4> QED BY <3>1, <4>1, <1>2, <1>3 DEF ToSet
    <3> QED BY <3>2, <3>3
  <2>2. ASSUME NEW x \in ToSet(s) PROVE x \in ToSet(a)
    <3>1. PICK i \in 1..Len(s) : x = s[i]
      BY <2>2, <1>3 DEF ToSet
    <3>2. i \in DOMAIN a /\ a[i] = x
      BY <3>1, <1>2, <1>3, <1>4
    <3> QED BY <3>2 DEF ToSet
  <2>3. e \in ToSet(a)
    <3>1. Len(s) + 1 \in DOMAIN a /\ a[Len(s) + 1] = e
      BY <1>2, <1>3, <1>4
    <3> QED BY <3>1 DEF ToSet
  <2> HIDE DEF a
  <2> QED BY <2>1, <2>2, <2>3
<1>6. ASSUME IsInjective(s), e \notin ToSet(s), NEW i \in DOMAIN a, NEW j \in DOMAIN a, a[i] = a[j]
      PROVE  i = j
  <2>1. \A k \in 1..Len(s) : s[k] # e
    BY <1>3, <1>6 DEF ToSet
  <2>2. \A k, m \in 1..Len(s) : s[k] = s[m] => k = m
    BY <1>3, <1>6 DEF IsInjective
  <2>3. (i \in 1..Len(s) \/ i = Len(s) + 1) /\ (j \in 1..Len(s) \/ j = Len(s) + 1)
    BY <1>3, <1>4, <1>6
  <2>4. (\A k \in 1..Len(s) : a[k] = s[k]) /\ a[Len(s) + 1] = e
    BY <1>2
  <2> HIDE DEF a
  <2> QED BY <1>6, <2>1, <2>2, <2>3, <2>4
<1>7. IsInjective(s) /\ e \notin ToSet(s) => IsInjective(a)
  BY <1>6 DEF IsInjective
<1> QED BY <1>2, <1>5, <1>7

LEMMA WithoutProperties ==
  ASSUME NEW S, NEW s \in Seq(S), NEW gone
  PROVE  /\ Without(s, gone) \in Seq(S)
         /\ ToSet(Without(s, gone)) = ToSet(s) \ gone
         /\ IsInjective(s) => IsInjective(Without(s, gone))
<1>1. PICK f : Fills(f, s, gone) /\ Without(s, gone) = f[Len(s)]
  BY WithoutFills
<1>2. Len(s) \in Nat /\ DOMAIN s = 1..Len(s) /\ (\A i \in 1..Len(s) : s[i] \in S)
  BY LenProperties, ElementOfSeq
<1> DEFINE First(n) == {s[i] : i \in 1..n}
           Good(n) == /\ f[n] \in Seq(S)
                      /\ ToSet(f[n]) = First(n) \ gone
                      /\ IsInjective(s) => IsInjective(f[n])
           T == {n \in Nat : n <= Len(s) => Good(n)}
<1>3. 0 \in T
  <2>1. f[0] = <<>> /\ First(0) = {}
    BY <1>1 DEF Fills
  <2>2. <<>> \in Seq(S) /\ ToSet(<<>>) = {} /\ IsInjective(<<>>)
    BY DEF ToSet, IsInjective
  <2> QED BY <2>1, <2>2
<1>4. ASSUME NEW n \in Nat, n \in T PROVE n + 1 \in T
  <2>1. SUFFICES ASSUME n + 1 <= Len(s) PROVE Good(n + 1)
    OBVIOUS
  <2>2. Good(n)
    BY <1>2, <1>4, <2>1
  <2>3. n + 1 \in 1..Len(s) /\ (n + 1) - 1 = n
    BY <1>2, <2>1
  <2>4. f[n + 1] = IF s[n + 1] \in gone THEN f[n] ELSE Append(f[n], s[n + 1])
    <3> HIDE DEF Good
    <3> QED BY <1>1, <2>3 DEF Fills
  <2>5. First(n + 1) = First(n) \cup {s[n + 1]}
    <3>1. 1..(n + 1) = 1..n \cup {n + 1}
      OBVIOUS
    <3> QED BY <3>1
  <2>6. s[n + 1] \in S
    BY <1>2, <2>3
  <2>7. CASE s[n + 1] \in gone
    <3>1. f[n + 1] = f[n] /\ First(n + 1) \ gone = First(n) \ gone
      BY <2>4, <2>5, <2>7
    <3> HIDE DEF First
    <3> QED BY <2>2, <3>1
  <2>8. CASE s[n + 1] \notin gone
    <3>1. f[n + 1] = Append(f[n], s[n + 1]) /\ First(n + 1) \ gone = (First(n) \ gone) \cup {s[n + 1]}
      BY <2>4, <2>5, <2>8
    <3>2. IsInjective(s) => s[n + 1] \notin First(n)
      <4>1. SUFFICES ASSUME IsInjective(s), NEW i \in 1..n, s[i] = s[n + 1] PROVE FALSE
        OBVIOUS
      <4>2. i \in DOMAIN s /\ n + 1 \in DOMAIN s /\ i # n + 1
        BY <1>2, <2>3
      <4> QED BY <4>1, <4>2 DEF IsInjective
    <3> HIDE DEF First
    <3>3. f[n + 1] \in Seq(S)
      BY <2>2, <2>6, <3>1, AppendProperties
    <3>4. ToSet(f[n + 1]) = First(n + 1) \ gone
      BY <2>2, <3>1, ToSetAppend
    <3>5. IsInjective(s) => IsInjective(f[n + 1])
      BY <2>2, <3>1, <3>2, ToSetAppend
    <3> QED BY <3>3, <3>4, <3>5
  <2> QED BY <2>7, <2>8
<1>5. Len(s) \in T
  <2> HIDE DEF T
  <2> QED BY <1>2, <1>3, <1>4, Induction
<1>6. Good(Len(s))
  BY <1>2, <1>5
<1>7. First(Len(s)) = ToSet(s)
  BY <1>2 DEF ToSet
<1> QED BY <1>1, <1>6, <1>7

(* The list is shorter by one when an element of it that occurs once goes. *)
LEMMA WithoutOne ==
  ASSUME NEW S, NEW s \in Seq(S), IsInjective(s), NEW k \in 1..Len(s)
  PROVE  Len(Without(s, {s[k]})) = Len(s) - 1
<1>1. PICK f : Fills(f, s, {s[k]}) /\ Without(s, {s[k]}) = f[Len(s)]
  BY WithoutFills
<1>2. Len(s) \in Nat /\ DOMAIN s = 1..Len(s) /\ (\A i \in 1..Len(s) : s[i] \in S)
  BY LenProperties, ElementOfSeq
<1> DEFINE Good(n) == f[n] \in Seq(S) /\ Len(f[n]) = IF n < k THEN n ELSE n - 1
           T == {n \in Nat : n <= Len(s) => Good(n)}
<1>3. 0 \in T
  <2>1. f[0] = <<>> /\ 0 < k
    BY <1>1 DEF Fills
  <2>2. <<>> \in Seq(S) /\ Len(<<>>) = 0
    OBVIOUS
  <2>3. Len(f[0]) = 0 /\ f[0] \in Seq(S)
    BY <2>1, <2>2
  <2>4. Good(0)
    BY <2>1, <2>3
  <2> QED BY <2>4
<1>4. ASSUME NEW n \in Nat, n \in T PROVE n + 1 \in T
  <2>1. SUFFICES ASSUME n + 1 <= Len(s) PROVE Good(n + 1)
    OBVIOUS
  <2>2. f[n] \in Seq(S) /\ Len(f[n]) = IF n < k THEN n ELSE n - 1
    BY <1>2, <1>4, <2>1
  <2>3. n + 1 \in 1..Len(s) /\ (n + 1) - 1 = n /\ s[n + 1] \in S
    BY <1>2, <2>1
  <2>4. f[n + 1] = IF s[n + 1] = s[k] THEN f[n] ELSE Append(f[n], s[n + 1])
    BY <1>1, <2>3 DEF Fills
  <2>5. s[n + 1] = s[k] <=> n + 1 = k
    BY <1>2, <2>3 DEF IsInjective
  <2>6. CASE n + 1 = k
    <3>1. f[n + 1] = f[n]
      BY <2>4, <2>5, <2>6
    <3>2. n < k /\ ~(n + 1 < k) /\ (n + 1) - 1 = n
      BY <2>6
    <3> QED BY <2>2, <3>1, <3>2
  <2>7. CASE n + 1 # k
    <3>1. f[n + 1] = Append(f[n], s[n + 1])
      BY <2>4, <2>5, <2>7
    <3>2. f[n + 1] \in Seq(S) /\ Len(f[n + 1]) = Len(f[n]) + 1
      BY <2>2, <2>3, <3>1, AppendProperties
    <3>3. n < k <=> n + 1 < k
      BY <2>7
    <3>4. Len(f[n + 1]) = IF n + 1 < k THEN n + 1 ELSE (n + 1) - 1
      BY <2>2, <3>2, <3>3
    <3> QED BY <3>2, <3>4
  <2> QED BY <2>6, <2>7
<1>5. Len(s) \in T
  <2> HIDE DEF T
  <2> QED BY <1>2, <1>3, <1>4, Induction
<1>6. Good(Len(s))
  BY <1>2, <1>5
<1>7. ~(Len(s) < k)
  BY <1>2
<1> QED BY <1>1, <1>6, <1>7
-----------------------------------------------------------------------------
(* The views of the window and the tabs of the server.  A loop that waits    *)
(* for the configuration is going to create a view for its tab, so none may  *)
(* be alive; until then the window shows the view of an earlier tab, which   *)
(* may be destroyed already, so the window agrees with the server only when  *)
(* no loop waits there.                                                      *)

Views == [tab : Tabs, no : Nat]
Spots == [at : {"off", "turn", "backend", "config", "init"}, tab : 0..MaxTab]
Creating(l) == loops[l].at = "config"

QueueTypes == actionQueue \in Seq(Entries) /\ loops \in [Loops -> Spots]

ServerTypes ==
  /\ tabIds \in [Workspaces -> Seq(Tabs)] /\ activeTab \in [Workspaces -> 0..MaxTab]
  /\ workspaces \subseteq Workspaces /\ windowWs \in Workspaces /\ workspaceId \in Workspaces
  /\ nextTab \in 1..(MaxTab + 1)

ViewTypes ==
  /\ \A v \in alive \cup allLoadedTabViews \cup {activeTabView} \cup ToSet(wcvCache) : v.tab \in Tabs /\ v.no \in 1..made
  /\ made \in Nat

UserTypes ==
  /\ elsewhere \subseteq Workspaces
  /\ requests \in 0..MaxRequests /\ failures \in 0..MaxFailures
  /\ asking \subseteq Workspaces /\ timers \subseteq Tabs /\ closed \in {"open", "closing", "closed"}

(* A workspace lists a tab once and has an active one until it is deleted;   *)
(* the window's is deleted before the window closes.                         *)
TabsInv ==
  /\ \A w \in Workspaces : IsInjective(tabIds[w]) /\ \A t \in ToSet(tabIds[w]) : t < nextTab
  /\ \A w \in workspaces : activeTab[w] \in Tabs
  /\ \A w \in Workspaces \ workspaces : tabIds[w] = <<>>
  /\ closed # "open" => workspaceId \notin workspaces
  /\ workspaceId = windowWs

CacheInv ==
  /\ wcvCache \in Seq(Views)
  /\ ViewsAccounted
  /\ \A l \in Loops : Creating(l) => loops[l].tab \in Tabs /\ \A v \in alive : v.tab # loops[l].tab

ShownInv ==
  failures = 0 /\ closed = "open" =>
    /\ \A l \in Loops : Creating(l) => loops[l].tab = activeTab[workspaceId]
    /\ (\A l \in Loops : ~Creating(l)) => activeTabView.tab = activeTab[workspaceId] /\ activeTabView \in alive

WindowInv ==
  /\ IInv
  /\ QueueTypes /\ ServerTypes /\ ViewTypes /\ UserTypes
  /\ TabsInv /\ CacheInv /\ ShownInv

(* The invariant gives the three properties. *)
LEMMA InvImplies == WindowInv => TypeOK /\ QuietAgrees /\ ViewsAccounted
<1> SUFFICES ASSUME WindowInv PROVE TypeOK /\ QuietAgrees /\ ViewsAccounted
  OBVIOUS
<1>1. TypeOK
  BY DEF WindowInv, TypeOK, QueueTypes, ServerTypes, ViewTypes, UserTypes, Spots
<1>2. QuietAgrees
  <2>1. SUFFICES ASSUME Quiet PROVE workspaceId = windowWs /\ activeTabView.tab = activeTab[windowWs] /\ activeTabView \in alive
    BY DEF QuietAgrees
  <2>2. \A l \in Loops : ~Creating(l)
    BY <2>1 DEF Quiet, Processing, Creating
  <2> QED BY <2>1, <2>2 DEF WindowInv, ShownInv, TabsInv, Quiet
<1>3. ViewsAccounted
  BY DEF WindowInv, CacheInv
<1> QED BY <1>1, <1>2, <1>3

(* What a move of one loop leaves true of the others. *)
LEMMA LoopToSpot ==
  ASSUME QueueTypes, Serialized, NEW l \in Loops, Processing(l), NEW spot \in Spots,
         loops' = [loops EXCEPT ![l] = spot]
  PROVE  /\ loops' \in [Loops -> Spots]
         /\ loops'[l] = spot
         /\ \A k \in Loops \ {l} : loops[k].at = "off" /\ loops'[k] = loops[k]
<1>1. loops \in [Loops -> Spots]
  BY DEF QueueTypes
<1>2. \A k \in Loops \ {l} : loops[k].at = "off"
  BY DEF Serialized, Processing
<1> QED BY <1>1, <1>2

LEMMA LoopTo ==
  ASSUME QueueTypes, Serialized, NEW l \in Loops, Processing(l), NEW place,
         place \in {"off", "turn", "backend", "config", "init"},
         loops' = [loops EXCEPT ![l] = At(place, 0)]
  PROVE  /\ loops' \in [Loops -> Spots]
         /\ loops'[l].at = place
         /\ \A k \in Loops \ {l} : loops[k].at = "off" /\ loops'[k] = loops[k]
<1>1. 0 \in 0..MaxTab
  BY WindowAssumption
<1>2. At(place, 0) \in Spots /\ At(place, 0).at = place
  BY <1>1 DEF At, Spots
<1> QED BY <1>2, LoopToSpot

(* A step that touches no tab and no view, and after which no more loops     *)
(* wait for the configuration than did before.                               *)
Idle == UNCHANGED <<tabIds, activeTab, workspaces, windowWs, nextTab, workspaceId, views, closed>>
StillCreating ==
  /\ \A l \in Loops : Creating(l)' => Creating(l) /\ loops'[l] = loops[l]
  /\ failures' = 0 => failures = 0 /\ \A l \in Loops : Creating(l) => Creating(l)'

LEMMA IdleKeeps ==
  ASSUME WindowInv, IInv', Idle, StillCreating, QueueTypes', UserTypes'
  PROVE  WindowInv'
<1>1. ServerTypes' /\ ViewTypes'
  BY DEF WindowInv, Idle, views, ServerTypes, ViewTypes
<1>2. TabsInv'
  BY DEF WindowInv, Idle, TabsInv
<1>3. CacheInv'
  <2>1. wcvCache' \in Seq(Views) /\ ViewsAccounted'
    BY DEF WindowInv, CacheInv, Idle, views, ViewsAccounted
  <2>2. \A l \in Loops : Creating(l)' => loops'[l].tab \in Tabs /\ \A v \in alive' : v.tab # loops'[l].tab
    BY DEF WindowInv, CacheInv, Idle, views, StillCreating
  <2> QED BY <2>1, <2>2 DEF CacheInv
<1>4. ShownInv'
  <2>1. SUFFICES ASSUME failures' = 0, closed' = "open"
                 PROVE  /\ \A l \in Loops : Creating(l)' => loops'[l].tab = activeTab'[workspaceId']
                        /\ (\A l \in Loops : ~Creating(l)') => activeTabView'.tab = activeTab'[workspaceId'] /\ activeTabView' \in alive'
    BY DEF ShownInv
  <2>2. failures = 0 /\ closed = "open"
    BY <2>1 DEF StillCreating, Idle
  <2>3. \A l \in Loops : Creating(l) <=> Creating(l)'
    BY <2>1 DEF StillCreating
  <2> QED BY <2>2, <2>3 DEF WindowInv, ShownInv, Idle, views, StillCreating
<1> QED BY <1>1, <1>2, <1>3, <1>4 DEF WindowInv

(* A request may start a loop, which creates nothing yet. *)
LEMMA EnqueueIdles ==
  ASSUME QueueTypes, IInv', NEW entry, Enqueue(entry)
  PROVE  /\ QueueTypes'
         /\ \A l \in Loops : (Creating(l)' <=> Creating(l)) /\ (Creating(l)' => loops'[l] = loops[l])
<1>1. actionQueue' \in Seq(Entries)
  BY DEF IInv
<1>2. CASE loops' = loops
  BY <1>1, <1>2 DEF QueueTypes, Creating
<1>3. CASE \E l \in Loops : ~Processing(l) /\ loops' = [loops EXCEPT ![l] = At("turn", 0)]
  <2>1. PICK l \in Loops : ~Processing(l) /\ loops' = [loops EXCEPT ![l] = At("turn", 0)]
    BY <1>3
  <2>2. At("turn", 0) \in Spots /\ At("turn", 0).at = "turn"
    <3>1. 0 \in 0..MaxTab
      BY WindowAssumption
    <3> QED BY <3>1 DEF At, Spots
  <2>3. loops \in [Loops -> Spots]
    BY DEF QueueTypes
  <2>4. loops' \in [Loops -> Spots] /\ loops'[l].at = "turn" /\ \A k \in Loops \ {l} : loops'[k] = loops[k]
    BY <2>1, <2>2, <2>3
  <2>5. loops[l].at = "off"
    BY <2>1 DEF Processing
  <2> QED BY <1>1, <2>4, <2>5 DEF QueueTypes, Creating
<1>4. loops' = loops \/ \E l \in Loops : ~Processing(l) /\ loops' = [loops EXCEPT ![l] = At("turn", 0)]
  BY Zenon DEF Enqueue
<1> QED BY <1>2, <1>3, <1>4

LEMMA RequestIdles ==
  ASSUME WindowInv, IInv', NEW entry, RequestTab(entry)
  PROVE  WindowInv'
<1>1. Enqueue(entry) /\ requests < MaxRequests /\ requests' = requests + 1
      /\ UNCHANGED <<server, workspaceId, views, asking, failures, timers, closed>>
  BY DEF RequestTab, CanAsk
<1>2. /\ QueueTypes'
      /\ \A l \in Loops : (Creating(l)' <=> Creating(l)) /\ (Creating(l)' => loops'[l] = loops[l])
  BY <1>1, EnqueueIdles DEF WindowInv
<1>3. Idle /\ StillCreating
  BY <1>1, <1>2 DEF Idle, StillCreating, server
<1>4. requests' \in 0..MaxRequests
  BY <1>1, WindowAssumption DEF WindowInv, UserTypes
<1>5. UserTypes'
  BY <1>1, <1>4 DEF WindowInv, UserTypes, server
<1> QED BY <1>2, <1>3, <1>5, IdleKeeps

LEMMA SwitchRequestedIdles ==
  ASSUME WindowInv, IInv', NEW w \in Workspaces, SwitchWorkspaceRequested(w)
  PROVE  WindowInv'
<1>1. requests < MaxRequests /\ requests' = requests + 1 /\ asking' = asking \cup {w}
      /\ UNCHANGED <<server, workspaceId, queue, views, failures, timers, closed>>
  BY DEF SwitchWorkspaceRequested, CanAsk
<1>2. Idle /\ StillCreating
  BY <1>1 DEF Idle, StillCreating, server, queue, Creating
<1>3. QueueTypes'
  BY <1>1 DEF WindowInv, QueueTypes, queue
<1>4. requests' \in 0..MaxRequests
  BY <1>1, WindowAssumption DEF WindowInv, UserTypes
<1>5. UserTypes'
  BY <1>1, <1>4 DEF WindowInv, UserTypes, server
<1> QED BY <1>2, <1>3, <1>5, IdleKeeps

LEMMA SwitchQueuedIdles ==
  ASSUME WindowInv, IInv', NEW w \in Workspaces, SwitchWorkspaceQueued(w)
  PROVE  WindowInv'
<1>1. /\ asking' = asking \ {w}
      /\ UNCHANGED <<tabIds, activeTab, workspaces, windowWs, nextTab, workspaceId, views, requests, failures, timers, closed>>
  BY DEF SwitchWorkspaceQueued
<1>2. /\ QueueTypes'
      /\ \A l \in Loops : (Creating(l)' <=> Creating(l)) /\ (Creating(l)' => loops'[l] = loops[l])
  <2>1. CASE Enqueue([op |-> "switchworkspace", ws |-> w])
    BY <2>1, EnqueueIdles DEF WindowInv
  <2>2. CASE UNCHANGED queue
    BY <2>2 DEF WindowInv, QueueTypes, queue, Creating
  <2> QED BY <2>1, <2>2, Zenon DEF SwitchWorkspaceQueued
<1>3. Idle /\ StillCreating
  BY <1>1, <1>2 DEF Idle, StillCreating
<1>4. elsewhere' = elsewhere \/ elsewhere' = elsewhere \cup {w}
  BY Zenon DEF SwitchWorkspaceQueued
<1>5. UserTypes'
  BY <1>1, <1>4 DEF WindowInv, UserTypes
<1> QED BY <1>2, <1>3, <1>5, IdleKeeps

(* A loop that ends an iteration, or calls the server. *)
LEMMA LoopIdles ==
  ASSUME WindowInv, IInv', NEW l \in Loops, Processing(l), Idle, UserTypes',
         \/ loops' = [loops EXCEPT ![l] = At("turn", 0)]
         \/ loops' = [loops EXCEPT ![l] = Off]
         \/ loops' = [loops EXCEPT ![l] = At("backend", 0)],
         failures' = 0 => failures = 0 /\ ~Creating(l)
  PROVE  WindowInv'
<1>1. PICK place \in {"turn", "off", "backend"} : loops' = [loops EXCEPT ![l] = At(place, 0)]
  BY DEF Off
<1>2. /\ loops' \in [Loops -> Spots]
      /\ loops'[l].at = place
      /\ \A k \in Loops \ {l} : loops'[k] = loops[k]
  <2>1. 0 \in 0..MaxTab
    BY WindowAssumption
  <2> QED BY <1>1, <2>1, LoopTo DEF WindowInv, IInv
<1>3. StillCreating
  BY <1>2 DEF StillCreating, Creating
<1>4. QueueTypes'
  BY <1>2 DEF QueueTypes, IInv
<1> QED BY <1>3, <1>4, IdleKeeps

LEMMA LoopStepIdles ==
  ASSUME WindowInv, IInv', NEW l \in Loops,
         LoopEnds(l) \/ SkipSwitch(l) \/ CallBackend(l) \/ ViewReady(l) \/ SwitchRefused(l) \/ CallRefused(l)
  PROVE  WindowInv'
<1>1. UNCHANGED <<server, workspaceId, views, user, timers, closed>>
  BY Zenon DEF LoopEnds, SkipSwitch, CallBackend, ViewReady, SwitchRefused, CallRefused
<1>2. Processing(l) /\ ~Creating(l)
  <2>1. loops[l].at \in {"turn", "backend", "init"}
    BY DEF LoopEnds, SkipSwitch, CallBackend, ViewReady, SwitchRefused, CallRefused, Turning, Waiting
  <2> QED BY <2>1 DEF Processing, Creating
<1>3. Idle /\ failures' = failures
  BY <1>1 DEF Idle, server, user
<1>4. UserTypes'
  BY <1>1 DEF WindowInv, UserTypes, server, user
<1>5. \/ loops' = [loops EXCEPT ![l] = At("turn", 0)]
      \/ loops' = [loops EXCEPT ![l] = Off]
      \/ loops' = [loops EXCEPT ![l] = At("backend", 0)]
  BY Zenon DEF LoopEnds, SkipSwitch, CallBackend, ViewReady, SwitchRefused, CallRefused, Continue, Return, Await
<1> QED BY <1>2, <1>3, <1>4, <1>5, LoopIdles

LEMMA CallFailsIdles ==
  ASSUME WindowInv, IInv', NEW l \in Loops, CallFails(l)
  PROVE  WindowInv'
<1>1. /\ loops[l].at \in {"backend", "config"} /\ failures < MaxFailures /\ failures' = failures + 1
      /\ loops' = [loops EXCEPT ![l] = At("turn", 0)]
      /\ UNCHANGED <<server, workspaceId, views, asking, requests, timers, closed>>
  BY DEF CallFails, Continue
<1>2. failures \in 0..MaxFailures /\ MaxFailures \in Nat
  BY WindowAssumption DEF WindowInv, UserTypes
<1>3. failures' \in 0..MaxFailures /\ failures' # 0
  BY <1>1, <1>2
<1>4. Processing(l) /\ Idle
  BY <1>1 DEF Processing, Idle, server
<1>5. UserTypes'
  BY <1>1, <1>3 DEF WindowInv, UserTypes, server
<1> QED BY <1>1, <1>3, <1>4, <1>5, LoopIdles

-----------------------------------------------------------------------------
(* Showing a tab: a cached view at once, or a loop that creates one. *)
LEMMA ShowKeeps ==
  ASSUME WindowInv, IInv', NEW l \in Loops, loops[l].at = "backend", NEW t \in Tabs, NEW loaded,
         NEW cache \in Seq(Views), ShowTab(l, t, loaded, cache),
         alive' = ToSet(cache), alive' \subseteq alive, loaded \subseteq allLoadedTabViews,
         closed # "closed" => alive' = loaded,
         UNCHANGED <<made, failures, closed>>, activeTab'[workspaceId'] = t
  PROVE  QueueTypes' /\ ViewTypes' /\ CacheInv' /\ ShownInv'
<1>1. Processing(l) /\ ~Creating(l) /\ Serialized /\ QueueTypes
  BY DEF Processing, Creating, WindowInv, IInv
<1>2. t \in 0..MaxTab /\ 0 \in 0..MaxTab
  BY WindowAssumption DEF Tabs
<1>3. \A u, v \in alive' : u.tab = v.tab => u = v
  BY DEF WindowInv, CacheInv, ViewsAccounted
<1>4. \A v \in alive' \cup loaded \cup {activeTabView} : v.tab \in Tabs /\ v.no \in 1..made
  BY DEF WindowInv, ViewTypes
<1>5. made' \in Nat
  BY DEF WindowInv, ViewTypes
<1>6. CASE \E v \in ToSet(cache) : v.tab = t
  <2>1. PICK v \in ToSet(cache) : /\ v.tab = t
                                  /\ wcvCache' = Append(Without(cache, {v}), v)
                                  /\ SetTabViewIntoWindow(l, v, TRUE, loaded)
    <3> DEFINE c == CHOOSE u \in ToSet(cache) : u.tab = t
    <3>1. c \in ToSet(cache) /\ c.tab = t
      BY <1>6
    <3>2. wcvCache' = Append(Without(cache, {c}), c) /\ SetTabViewIntoWindow(l, c, TRUE, loaded)
      BY <1>6, Zenon DEF ShowTab
    <3> HIDE DEF c
    <3> QED BY <3>1, <3>2
  <2>2. /\ activeTabView' = v
        /\ allLoadedTabViews' = {u \in loaded : u.tab # t} \cup {v}
        /\ loops' = [loops EXCEPT ![l] = At("turn", 0)]
    BY <2>1 DEF SetTabViewIntoWindow, Continue
  <2>3. /\ loops' \in [Loops -> Spots]
        /\ loops'[l].at = "turn"
        /\ \A k \in Loops \ {l} : loops[k].at = "off" /\ loops'[k] = loops[k]
    BY <1>1, <1>2, <2>2, LoopTo
  <2>4. \A k \in Loops : ~Creating(k)'
    BY <2>3 DEF Creating
  <2>5. wcvCache' \in Seq(Views) /\ ToSet(wcvCache') = alive'
    <3>1. Without(cache, {v}) \in Seq(Views) /\ ToSet(Without(cache, {v})) = ToSet(cache) \ {v}
      BY WithoutProperties
    <3>2. v \in Views
      <4>1. \A i \in 1..Len(cache) : cache[i] \in Views
        BY ElementOfSeq
      <4>2. DOMAIN cache = 1..Len(cache)
        BY LenProperties
      <4> QED BY <2>1, <4>1, <4>2 DEF ToSet
    <3>3. Append(Without(cache, {v}), v) \in Seq(Views)
      BY <3>1, <3>2, AppendProperties
    <3>4. ToSet(Append(Without(cache, {v}), v)) = (ToSet(cache) \ {v}) \cup {v}
      BY <3>1, ToSetAppend
    <3> QED BY <2>1, <3>3, <3>4
  <2>6. closed # "closed" => alive' = allLoadedTabViews'
    BY <1>3, <2>1, <2>2
  <2>7. ViewTypes'
    BY <1>4, <1>5, <2>1, <2>2, <2>5 DEF ViewTypes
  <2>8. CacheInv'
    BY <1>3, <2>4, <2>5, <2>6 DEF CacheInv, ViewsAccounted
  <2>9. ShownInv'
    BY <2>1, <2>2, <2>4 DEF ShownInv
  <2>10. QueueTypes'
    BY <2>3 DEF QueueTypes, IInv
  <2> QED BY <2>7, <2>8, <2>9, <2>10
<1>7. CASE ~ \E v \in ToSet(cache) : v.tab = t
  <2>1. /\ loops' = [loops EXCEPT ![l] = At("config", t)]
        /\ allLoadedTabViews' = loaded /\ wcvCache' = cache /\ activeTabView' = activeTabView
    BY <1>7 DEF ShowTab, Await
  <2>2. /\ loops' \in [Loops -> Spots]
        /\ loops'[l].at = "config" /\ loops'[l].tab = t
        /\ \A k \in Loops \ {l} : loops[k].at = "off" /\ loops'[k] = loops[k]
    <3>1. PICK spot \in Spots : spot = At("config", t)
      BY <1>2 DEF At, Spots
    <3>2. loops' = [loops EXCEPT ![l] = spot]
      BY <2>1, <3>1
    <3>3. /\ loops' \in [Loops -> Spots]
          /\ loops'[l] = spot
          /\ \A k \in Loops \ {l} : loops[k].at = "off" /\ loops'[k] = loops[k]
      BY <1>1, <3>2, LoopToSpot
    <3>4. spot.at = "config" /\ spot.tab = t
      BY <3>1 DEF At
    <3> QED BY <3>3, <3>4
  <2>3. Creating(l)' /\ \A k \in Loops : Creating(k)' => k = l
    BY <2>2 DEF Creating
  <2>4. ViewTypes'
    BY <1>4, <1>5, <2>1 DEF ViewTypes
  <2>5. CacheInv'
    <3>1. ViewsAccounted'
      BY <1>3, <2>1 DEF ViewsAccounted
    <3>2. \A v \in alive' : v.tab # t
      BY <1>7
    <3> QED BY <2>1, <2>2, <2>3, <3>1, <3>2 DEF CacheInv
  <2>6. ShownInv'
    BY <2>2, <2>3 DEF ShownInv
  <2>7. QueueTypes'
    BY <2>2 DEF QueueTypes, IInv
  <2> QED BY <2>4, <2>5, <2>6, <2>7
<1> QED BY <1>6, <1>7

LEMMA ShowHereKeeps ==
  ASSUME WindowInv, IInv', NEW l \in Loops, loops[l].at = "backend", NEW t \in Tabs,
         ShowTab(l, t, allLoadedTabViews, wcvCache),
         UNCHANGED <<alive, made, failures, closed>>, activeTab'[workspaceId'] = t
  PROVE  QueueTypes' /\ ViewTypes' /\ CacheInv' /\ ShownInv'
<1>1. PICK cache \in Seq(Views) : cache = wcvCache
  BY DEF WindowInv, CacheInv
<1>2. PICK loaded : loaded = allLoadedTabViews
  OBVIOUS
<1>3. ShowTab(l, t, loaded, cache)
  BY <1>1, <1>2
<1>4. alive' = ToSet(cache) /\ alive' \subseteq alive /\ loaded \subseteq allLoadedTabViews
  BY <1>1, <1>2 DEF WindowInv, CacheInv, ViewsAccounted
<1>5. closed # "closed" => alive' = loaded
  BY <1>2 DEF WindowInv, CacheInv, ViewsAccounted
<1>6. UNCHANGED <<made, failures, closed>>
  OBVIOUS
<1> QED BY <1>3, <1>4, <1>5, <1>6, ShowKeeps

(* The answers of the services. *)
LEMMA CreateKeeps ==
  ASSUME WindowInv, IInv', NEW l \in Loops, CreateTabAnswers(l)
  PROVE  WindowInv'
<1>1. /\ loops[l].at = "backend" /\ workspaceId \in workspaces /\ nextTab <= MaxTab
      /\ nextTab' = nextTab + 1
      /\ tabIds' = [tabIds EXCEPT ![workspaceId] = Append(tabIds[workspaceId], nextTab)]
      /\ activeTab' = [activeTab EXCEPT ![workspaceId] = nextTab]
      /\ ShowTab(l, nextTab, allLoadedTabViews, wcvCache)
      /\ UNCHANGED <<workspaces, windowWs, elsewhere, workspaceId, alive, made, user, timers, closed>>
  BY DEF CreateTabAnswers, Waiting
<1>2. PICK w \in Workspaces, n \in Tabs, s \in Seq(Tabs) : w = workspaceId /\ n = nextTab /\ s = tabIds[w]
  <2>1. nextTab \in Tabs
    BY <1>1, WindowAssumption DEF WindowInv, ServerTypes, Tabs
  <2>2. workspaceId \in Workspaces /\ tabIds[workspaceId] \in Seq(Tabs)
    BY DEF WindowInv, ServerTypes
  <2> QED BY <2>1, <2>2
<1>3. n \in 1..MaxTab /\ n \in 0..MaxTab /\ n + 1 \in 1..(MaxTab + 1) /\ n \in Nat
  BY WindowAssumption DEF Tabs
<1>4. tabIds' = [tabIds EXCEPT ![w] = Append(s, n)] /\ activeTab' = [activeTab EXCEPT ![w] = n]
      /\ nextTab' = n + 1 /\ workspaceId' = w
  BY <1>1, <1>2
<1>5. /\ Append(s, n) \in Seq(Tabs)
      /\ ToSet(Append(s, n)) = ToSet(s) \cup {n}
      /\ IsInjective(s) /\ n \notin ToSet(s) => IsInjective(Append(s, n))
  BY AppendProperties, ToSetAppend
<1>6. /\ tabIds \in [Workspaces -> Seq(Tabs)] /\ activeTab \in [Workspaces -> 0..MaxTab]
      /\ \A v \in Workspaces : IsInjective(tabIds[v]) /\ \A t \in ToSet(tabIds[v]) : t < n
  BY <1>2 DEF WindowInv, ServerTypes, TabsInv
<1>7. ServerTypes'
  BY <1>1, <1>3, <1>4, <1>5, <1>6 DEF WindowInv, ServerTypes
<1>8. TabsInv'
  <2>1. ASSUME NEW v \in Workspaces
        PROVE  IsInjective(tabIds'[v]) /\ \A t \in ToSet(tabIds'[v]) : t < nextTab'
    <3>1. \A t \in ToSet(tabIds[v]) : t \in Int
      <4>1. tabIds[v] \in Seq(Tabs)
        BY <1>6
      <4>2. DOMAIN tabIds[v] = 1..Len(tabIds[v]) /\ \A i \in 1..Len(tabIds[v]) : tabIds[v][i] \in Tabs
        BY <4>1, LenProperties, ElementOfSeq
      <4> QED BY <4>2 DEF ToSet, Tabs
    <3>2. IsInjective(tabIds[v]) /\ \A t \in ToSet(tabIds[v]) : t < n /\ t < n + 1
      BY <1>3, <1>6, <3>1
    <3>3. CASE v = w
      <4>1. tabIds'[v] = Append(s, n)
        BY <1>4, <1>6, <3>3
      <4>2. n \notin ToSet(s)
        <5>1. \A t \in ToSet(s) : t < n
          BY <1>2, <3>2, <3>3
        <5>2. ~(n < n)
          BY <1>3
        <5> QED BY <5>1, <5>2
      <4>3. n < n + 1
        BY <1>3
      <4> QED BY <1>2, <1>4, <1>5, <3>2, <3>3, <4>1, <4>2, <4>3
    <3>4. CASE v # w
      <4>1. tabIds'[v] = tabIds[v]
        BY <1>4, <1>6, <3>4
      <4> QED BY <1>4, <3>2, <4>1
    <3> QED BY <3>3, <3>4
  <2>2. \A v \in workspaces' : activeTab'[v] \in Tabs
    BY <1>1, <1>4, <1>6 DEF WindowInv, TabsInv, ServerTypes
  <2>3. \A v \in Workspaces \ workspaces' : tabIds'[v] = <<>>
    BY <1>1, <1>2, <1>4, <1>6 DEF WindowInv, TabsInv
  <2>4. (closed' # "open" => workspaceId' \notin workspaces') /\ workspaceId' = windowWs'
    BY <1>1 DEF WindowInv, TabsInv
  <2> QED BY <2>1, <2>2, <2>3, <2>4 DEF TabsInv
<1>9. QueueTypes' /\ ViewTypes' /\ CacheInv' /\ ShownInv'
  <2>1. ShowTab(l, n, allLoadedTabViews, wcvCache) /\ UNCHANGED <<alive, made, failures, closed>>
    BY <1>1, <1>2 DEF user
  <2>2. activeTab'[workspaceId'] = n
    BY <1>4, <1>6
  <2> QED BY <1>1, <2>1, <2>2, ShowHereKeeps
<1>10. UserTypes'
  BY <1>1 DEF WindowInv, UserTypes, user
<1> QED BY <1>7, <1>8, <1>9, <1>10 DEF WindowInv

LEMMA SetActiveKeeps ==
  ASSUME WindowInv, IInv', NEW l \in Loops, SetActiveTabAnswers(l)
  PROVE  WindowInv'
<1>1. PICK t : /\ t = actionQueue[1].tab
               /\ loops[l].at = "backend" /\ workspaceId \in workspaces /\ t \in Existing
               /\ activeTab' = [activeTab EXCEPT ![workspaceId] = t]
               /\ ShowTab(l, t, allLoadedTabViews, wcvCache)
               /\ UNCHANGED <<tabIds, workspaces, windowWs, elsewhere, nextTab, workspaceId, alive, made, user, timers, closed>>
  BY DEF SetActiveTabAnswers, Waiting
<1>2. t \in Tabs
  <2>1. PICK w \in Workspaces : t \in ToSet(tabIds[w])
    BY <1>1 DEF Existing
  <2>2. tabIds[w] \in Seq(Tabs)
    BY DEF WindowInv, ServerTypes
  <2>3. DOMAIN tabIds[w] = 1..Len(tabIds[w]) /\ \A i \in 1..Len(tabIds[w]) : tabIds[w][i] \in Tabs
    BY <2>2, LenProperties, ElementOfSeq
  <2> QED BY <2>1, <2>3 DEF ToSet
<1>3. t \in 0..MaxTab
  BY <1>2 DEF Tabs
<1>4. workspaceId \in Workspaces /\ activeTab \in [Workspaces -> 0..MaxTab]
  BY DEF WindowInv, ServerTypes
<1>5. ServerTypes'
  BY <1>1, <1>3, <1>4 DEF WindowInv, ServerTypes
<1>6. TabsInv'
  <2>1. \A v \in workspaces' : activeTab'[v] \in Tabs
    BY <1>1, <1>2, <1>4 DEF WindowInv, TabsInv, ServerTypes
  <2> QED BY <1>1, <2>1 DEF WindowInv, TabsInv
<1>7. QueueTypes' /\ ViewTypes' /\ CacheInv' /\ ShownInv'
  <2>1. UNCHANGED <<alive, made, failures, closed>>
    BY <1>1 DEF user
  <2>2. activeTab'[workspaceId'] = t
    BY <1>1, <1>4
  <2> QED BY <1>1, <1>2, <2>1, <2>2, ShowHereKeeps
<1>8. UserTypes'
  BY <1>1 DEF WindowInv, UserTypes, user
<1> QED BY <1>5, <1>6, <1>7, <1>8 DEF WindowInv

(* The tab that becomes active is one of those that are left, when any is:   *)
(* the one before the closed tab, or the first.                              *)
LEMMA NextActive ==
  ASSUME WindowInv, NEW w \in workspaces, NEW t \in ToSet(tabIds[w])
  PROVE  \/ ActiveAfterClose(w, t) \in Tabs
         \/ (ActiveAfterClose(w, t) = 0 /\ Without(tabIds[w], {t}) = <<>>)
<1>1. PICK s \in Seq(Tabs) : s = tabIds[w] /\ IsInjective(s)
  BY DEF WindowInv, ServerTypes, TabsInv
<1>2. activeTab[w] \in Tabs
  BY DEF WindowInv, TabsInv
<1>3. Len(s) \in Nat /\ DOMAIN s = 1..Len(s)
  BY LenProperties
<1> DEFINE idx == CHOOSE i \in 1..Len(s) : s[i] = t
           rest == Without(s, {t})
<1>4. idx \in 1..Len(s) /\ s[idx] = t
  <2>1. \E i \in 1..Len(s) : s[i] = t
    BY <1>1, <1>3 DEF ToSet
  <2> QED BY <2>1
<1>5. ActiveAfterClose(w, t) = IF activeTab[w] # t THEN activeTab[w]
                               ELSE IF rest = <<>> THEN 0
                               ELSE rest[IF idx > 1 THEN idx - 1 ELSE 1]
  BY <1>1 DEF ActiveAfterClose
<1> HIDE DEF idx
<1>6. rest \in Seq(Tabs) /\ Len(rest) = Len(s) - 1
  <2>1. Len(Without(s, {s[idx]})) = Len(s) - 1
    BY <1>1, <1>4, WithoutOne
  <2> QED BY <1>4, <2>1, WithoutProperties
<1> HIDE DEF rest
<1>7. CASE activeTab[w] # t
  BY <1>2, <1>5, <1>7
<1>8. CASE activeTab[w] = t /\ rest = <<>>
  BY <1>1, <1>5, <1>8 DEF rest
<1>9. CASE activeTab[w] = t /\ rest # <<>>
  <2>1. Len(rest) \in Nat /\ Len(rest) # 0
    BY <1>6, <1>9, EmptySeq, LenProperties
  <2>2. idx \in Int /\ 1 <= idx /\ idx <= Len(s)
    BY <1>3, <1>4
  <2>3. (IF idx > 1 THEN idx - 1 ELSE 1) \in 1..Len(rest)
    BY <1>3, <1>6, <2>1, <2>2
  <2>4. rest[IF idx > 1 THEN idx - 1 ELSE 1] \in Tabs
    BY <1>6, <2>3, ElementOfSeq
  <2> QED BY <1>5, <1>9, <2>4
<1> QED BY <1>7, <1>8, <1>9

LEMMA CloseKeeps ==
  ASSUME WindowInv, IInv', NEW l \in Loops, CloseTabAnswers(l)
  PROVE  WindowInv'
<1>0. PICK w \in Workspaces, s \in Seq(Tabs) : w = workspaceId /\ s = tabIds[w]
  <2>1. workspaceId \in Workspaces /\ tabIds[workspaceId] \in Seq(Tabs)
    BY DEF WindowInv, ServerTypes
  <2> QED BY <2>1
<1>t. PICK t : t = actionQueue[1].tab
  OBVIOUS
<1>n. PICK next : next = ActiveAfterClose(w, t)
  OBVIOUS
<1>1. w = workspaceId /\ t = actionQueue[1].tab /\ s = tabIds[w] /\ next = ActiveAfterClose(w, t)
  BY <1>0, <1>t, <1>n
<1>2. /\ loops[l].at = "backend" /\ t \in ToSet(s)
      /\ tabIds' = [tabIds EXCEPT ![w] = Without(s, {t})]
      /\ activeTab' = [activeTab EXCEPT ![w] = next]
      /\ timers' = timers \cup {t}
      /\ \/ /\ next = 0 /\ workspaces' = workspaces \ {w} /\ closed' = "closing"
            /\ loops' = [loops EXCEPT ![l] = Off]
            /\ UNCHANGED <<activeTabView, allLoadedTabViews, wcvCache>>
         \/ /\ next # 0 /\ ShowTab(l, next, allLoadedTabViews, wcvCache)
            /\ UNCHANGED <<workspaces, closed>>
      /\ UNCHANGED <<windowWs, elsewhere, nextTab, workspaceId, alive, made, user>>
  BY <1>1 DEF CloseTabAnswers, Waiting, Return
<1>3. w \in workspaces /\ closed = "open"
  <2>1. s # <<>>
    BY <1>2 DEF ToSet
  <2> QED BY <1>1, <2>1 DEF WindowInv, TabsInv
<1>4. next \in Tabs \/ (next = 0 /\ Without(s, {t}) = <<>>)
  <2>1. w \in workspaces /\ t \in ToSet(tabIds[w])
    BY <1>1, <1>2, <1>3
  <2>2. \/ ActiveAfterClose(w, t) \in Tabs
        \/ (ActiveAfterClose(w, t) = 0 /\ Without(tabIds[w], {t}) = <<>>)
    BY <2>1, NextActive
  <2> QED BY <1>1, <2>2
<1>5. next \in 0..MaxTab
  BY <1>4, WindowAssumption DEF Tabs
<1>6. /\ Without(s, {t}) \in Seq(Tabs)
      /\ ToSet(Without(s, {t})) = ToSet(s) \ {t}
      /\ IsInjective(s) => IsInjective(Without(s, {t}))
  BY WithoutProperties
<1>7. tabIds \in [Workspaces -> Seq(Tabs)] /\ activeTab \in [Workspaces -> 0..MaxTab]
  BY DEF WindowInv, ServerTypes
<1>8. t \in Tabs
  <2>1. DOMAIN s = 1..Len(s) /\ \A i \in 1..Len(s) : s[i] \in Tabs
    BY LenProperties, ElementOfSeq
  <2> QED BY <1>2, <2>1 DEF ToSet
<1>9. workspaces' \subseteq workspaces /\ closed' \in {"open", "closing", "closed"}
  BY <1>2, <1>3
<1>10. ServerTypes'
  BY <1>2, <1>5, <1>6, <1>7, <1>9 DEF WindowInv, ServerTypes
<1>11. UserTypes'
  BY <1>2, <1>8, <1>9 DEF WindowInv, UserTypes, user
<1>12. \A v \in Workspaces : IsInjective(tabIds'[v]) /\ \A u \in ToSet(tabIds'[v]) : u < nextTab'
  <2>1. \A v \in Workspaces : IsInjective(tabIds[v]) /\ \A u \in ToSet(tabIds[v]) : u < nextTab
    BY DEF WindowInv, TabsInv
  <2>2. \A v \in Workspaces : v # w => tabIds'[v] = tabIds[v]
    BY <1>2, <1>7
  <2>3. tabIds'[w] = Without(s, {t})
    BY <1>2, <1>7
  <2> QED BY <1>1, <1>2, <1>6, <2>1, <2>2, <2>3
<1>13. CASE next = 0
  <2>1. /\ workspaces' = workspaces \ {w} /\ closed' = "closing"
        /\ loops' = [loops EXCEPT ![l] = At("off", 0)]
        /\ UNCHANGED <<activeTabView, allLoadedTabViews, wcvCache>>
    BY <1>2, <1>13 DEF Off
  <2>2. Without(s, {t}) = <<>>
    BY <1>4, <1>13 DEF Tabs
  <2>3. TabsInv'
    <3>1. \A v \in workspaces' : activeTab'[v] \in Tabs
      BY <1>2, <1>7, <2>1 DEF WindowInv, TabsInv, ServerTypes
    <3>2. \A v \in Workspaces \ workspaces' : tabIds'[v] = <<>>
      BY <1>2, <1>7, <2>1, <2>2 DEF WindowInv, TabsInv
    <3>3. (closed' # "open" => workspaceId' \notin workspaces') /\ workspaceId' = windowWs'
      BY <1>1, <1>2, <2>1 DEF WindowInv, TabsInv
    <3> QED BY <1>12, <3>1, <3>2, <3>3 DEF TabsInv
  <2>4. /\ loops' \in [Loops -> Spots]
        /\ loops'[l].at = "off"
        /\ \A k \in Loops \ {l} : loops[k].at = "off" /\ loops'[k] = loops[k]
    <3>1. Processing(l)
      BY <1>2 DEF Processing
    <3> QED BY <2>1, <3>1, LoopTo DEF WindowInv, IInv
  <2>5. \A k \in Loops : ~Creating(k)'
    BY <2>4 DEF Creating
  <2>6. CacheInv'
    BY <1>2, <1>3, <2>1, <2>5 DEF WindowInv, CacheInv, ViewsAccounted
  <2>7. ShownInv'
    BY <2>1 DEF ShownInv
  <2>8. ViewTypes' /\ QueueTypes'
    BY <1>2, <2>1, <2>4 DEF WindowInv, ViewTypes, QueueTypes, IInv
  <2> QED BY <1>10, <1>11, <2>3, <2>6, <2>7, <2>8 DEF WindowInv
<1>14. CASE next # 0
  <2>1. ShowTab(l, next, allLoadedTabViews, wcvCache) /\ UNCHANGED <<workspaces, closed>>
    BY <1>2, <1>14
  <2>2. next \in Tabs
    BY <1>4, <1>14
  <2>3. TabsInv'
    <3>1. \A v \in workspaces' : activeTab'[v] \in Tabs
      BY <1>2, <1>7, <2>1, <2>2 DEF WindowInv, TabsInv, ServerTypes
    <3>2. \A v \in Workspaces \ workspaces' : tabIds'[v] = <<>>
      BY <1>2, <1>3, <1>7, <2>1 DEF WindowInv, TabsInv
    <3>3. (closed' # "open" => workspaceId' \notin workspaces') /\ workspaceId' = windowWs'
      BY <1>2, <2>1 DEF WindowInv, TabsInv
    <3> QED BY <1>12, <3>1, <3>2, <3>3 DEF TabsInv
  <2>4. QueueTypes' /\ ViewTypes' /\ CacheInv' /\ ShownInv'
    <3>1. UNCHANGED <<alive, made, failures, closed>>
      BY <1>2, <2>1 DEF user
    <3>2. activeTab'[workspaceId'] = next
      BY <1>1, <1>2, <1>7
    <3> QED BY <1>2, <2>1, <2>2, <3>1, <3>2, ShowHereKeeps
  <2> QED BY <1>10, <1>11, <2>3, <2>4 DEF WindowInv
<1> QED BY <1>13, <1>14

LEMMA SwitchKeeps ==
  ASSUME WindowInv, IInv', NEW l \in Loops, SwitchAnswers(l)
  PROVE  WindowInv'
<1>1. PICK w : /\ w = actionQueue[1].ws
               /\ loops[l].at = "backend" /\ w \in workspaces /\ closed = "open"
               /\ windowWs' = w /\ workspaceId' = w
               /\ workspaces' = IF workspaceId \notin Saved THEN workspaces \ {workspaceId} ELSE workspaces
               /\ tabIds' = IF workspaceId \notin Saved THEN [tabIds EXCEPT ![workspaceId] = <<>>] ELSE tabIds
               /\ alive' = alive \ allLoadedTabViews
               /\ ShowTab(l, activeTab[w], {}, Without(wcvCache, allLoadedTabViews))
               /\ UNCHANGED <<activeTab, elsewhere, nextTab, made, user, timers, closed>>
               /\ w # windowWs
  BY DEF SwitchAnswers, Waiting
<1>2. /\ workspaces \subseteq Workspaces /\ workspaceId \in Workspaces /\ workspaceId = windowWs
      /\ tabIds \in [Workspaces -> Seq(Tabs)] /\ activeTab \in [Workspaces -> 0..MaxTab]
      /\ activeTab[w] \in Tabs
  BY <1>1 DEF WindowInv, ServerTypes, TabsInv
<1>3. workspaces' \subseteq workspaces /\ w \in workspaces'
  BY <1>1, <1>2
<1>4. tabIds' \in [Workspaces -> Seq(Tabs)] /\ \A v \in Workspaces : tabIds'[v] = tabIds[v] \/ tabIds'[v] = <<>>
  <2>1. <<>> \in Seq(Tabs)
    OBVIOUS
  <2> QED BY <1>1, <1>2, <2>1
<1>5. ServerTypes'
  BY <1>1, <1>2, <1>3, <1>4 DEF WindowInv, ServerTypes
<1>6. UserTypes'
  BY <1>1 DEF WindowInv, UserTypes, user
<1>7. TabsInv'
  <2>1. ASSUME NEW v \in Workspaces
        PROVE  IsInjective(tabIds'[v]) /\ \A t \in ToSet(tabIds'[v]) : t < nextTab'
    <3>1. IsInjective(tabIds[v]) /\ \A t \in ToSet(tabIds[v]) : t < nextTab'
      BY <1>1 DEF WindowInv, TabsInv
    <3>2. IsInjective(<<>>) /\ ToSet(<<>>) = {}
      BY DEF IsInjective, ToSet
    <3> QED BY <1>4, <3>1, <3>2
  <2>2. \A v \in workspaces' : activeTab'[v] \in Tabs
    BY <1>1, <1>3 DEF WindowInv, TabsInv
  <2>3. \A v \in Workspaces \ workspaces' : tabIds'[v] = <<>>
    BY <1>1, <1>2 DEF WindowInv, TabsInv
  <2> QED BY <1>1, <2>1, <2>2, <2>3 DEF TabsInv
<1>8. PICK t \in Tabs, cache \in Seq(Views) :
        /\ t = activeTab[w] /\ cache = Without(wcvCache, allLoadedTabViews)
        /\ ToSet(cache) = ToSet(wcvCache) \ allLoadedTabViews
  <2>1. wcvCache \in Seq(Views)
    BY DEF WindowInv, CacheInv
  <2> QED BY <1>2, <2>1, WithoutProperties
<1>9. QueueTypes' /\ ViewTypes' /\ CacheInv' /\ ShownInv'
  <2>1. alive = allLoadedTabViews /\ alive = ToSet(wcvCache)
    BY <1>1 DEF WindowInv, CacheInv, ViewsAccounted
  <2>2. alive' = ToSet(cache) /\ alive' = {}
    BY <1>1, <1>8, <2>1
  <2>3. ShowTab(l, t, {}, cache) /\ UNCHANGED <<made, failures, closed>>
    BY <1>1, <1>8 DEF user
  <2>4. activeTab'[workspaceId'] = t
    BY <1>1, <1>8
  <2>5. PICK loaded : loaded = {}
    OBVIOUS
  <2>6. ShowTab(l, t, loaded, cache) /\ loaded \subseteq allLoadedTabViews /\ alive' \subseteq alive
    BY <2>2, <2>3, <2>5
  <2>7. closed # "closed" => alive' = loaded
    BY <2>2, <2>5
  <2> QED BY <1>1, <2>2, <2>3, <2>4, <2>6, <2>7, ShowKeeps
<1> QED BY <1>5, <1>6, <1>7, <1>9 DEF WindowInv

(* The configuration arrives and the view is created: no other view has its  *)
(* tab, and the view itself is never the one that is evicted.                *)
LEMMA ConfigKeeps ==
  ASSUME WindowInv, IInv', NEW l \in Loops, ConfigAnswers(l)
  PROVE  WindowInv'
<1>1. Creating(l) /\ made \in Nat /\ loops[l].tab \in Tabs /\ \A u \in alive : u.tab # loops[l].tab
  BY DEF ConfigAnswers, Creating, WindowInv, ViewTypes, CacheInv
<1>2. PICK v \in Views : v = [tab |-> loops[l].tab, no |-> made + 1]
  <2>1. PICK t \in Tabs, n \in Nat : t = loops[l].tab /\ n = made + 1
    <3>1. made + 1 \in Nat
      BY <1>1
    <3> QED BY <1>1, <3>1
  <2>2. [tab |-> t, no |-> n] \in Views
    BY DEF Views
  <2> QED BY <2>1, <2>2
<1>3. v.tab = loops[l].tab /\ v.no = made + 1
  BY <1>2
<1>4. PICK evicted :
        /\ Evicts(evicted, v)
        /\ wcvCache' = Without(Append(Without(wcvCache, {u \in ToSet(wcvCache) : u.tab = v.tab}), v), evicted)
        /\ alive' = (alive \ evicted) \cup {v}
        /\ SetTabViewIntoWindow(l, v, FALSE, allLoadedTabViews \ evicted)
  BY <1>2, Zenon DEF ConfigAnswers
<1>5. made' = made + 1 /\ UNCHANGED <<server, workspaceId, user, timers, closed>>
  BY DEF ConfigAnswers
<1>6. /\ activeTabView' = v
      /\ allLoadedTabViews' = {u \in allLoadedTabViews \ evicted : u.tab # v.tab} \cup {v}
      /\ loops' = [loops EXCEPT ![l] = At("init", 0)]
  BY <1>4 DEF SetTabViewIntoWindow, Await
<1>7. v \notin evicted
  BY <1>4 DEF Evicts
<1>8. /\ loops' \in [Loops -> Spots]
      /\ loops'[l].at = "init"
      /\ \A k \in Loops \ {l} : loops[k].at = "off" /\ loops'[k] = loops[k]
  <2>1. Processing(l)
    BY <1>1 DEF Creating, Processing
  <2> QED BY <1>6, <2>1, LoopTo DEF WindowInv, IInv
<1>9. \A k \in Loops : ~Creating(k)'
  BY <1>8 DEF Creating
<1>10. wcvCache' \in Seq(Views) /\ ToSet(wcvCache') = alive'
  <2>1. PICK same : same = {u \in ToSet(wcvCache) : u.tab = v.tab}
    OBVIOUS
  <2>2. wcvCache \in Seq(Views) /\ alive = ToSet(wcvCache)
    BY DEF WindowInv, CacheInv, ViewsAccounted
  <2>3. same = {}
    BY <1>1, <1>3, <2>1, <2>2
  <2>4. PICK kept \in Seq(Views) : kept = Without(wcvCache, same) /\ ToSet(kept) = ToSet(wcvCache) \ same
    BY <2>2, WithoutProperties
  <2>5. PICK more \in Seq(Views) : more = Append(kept, v) /\ ToSet(more) = ToSet(kept) \cup {v}
    BY <2>4, AppendProperties, ToSetAppend
  <2>6. wcvCache' = Without(more, evicted)
    BY <1>4, <2>1, <2>4, <2>5
  <2>7. wcvCache' \in Seq(Views) /\ ToSet(wcvCache') = ToSet(more) \ evicted
    BY <2>6, WithoutProperties
  <2> QED BY <1>4, <1>7, <2>2, <2>3, <2>4, <2>5, <2>7
<1>11. CacheInv'
  <2>1. \A u, x \in alive' : u.tab = x.tab => u = x
    <3>1. \A u, x \in alive : u.tab = x.tab => u = x
      BY DEF WindowInv, CacheInv, ViewsAccounted
    <3> QED BY <1>1, <1>3, <1>4, <3>1
  <2>2. closed' # "closed" => alive' = allLoadedTabViews'
    <3>1. closed # "closed" => alive = allLoadedTabViews
      BY DEF WindowInv, CacheInv, ViewsAccounted
    <3> QED BY <1>1, <1>3, <1>4, <1>5, <1>6, <3>1
  <2> QED BY <1>9, <1>10, <2>1, <2>2 DEF CacheInv, ViewsAccounted
<1>12. ShownInv'
  <2>1. failures' = 0 /\ closed' = "open" => failures = 0 /\ closed = "open" /\ activeTab'[workspaceId'] = activeTab[workspaceId]
    BY <1>5 DEF user, server
  <2>2. failures = 0 /\ closed = "open" => v.tab = activeTab[workspaceId]
    BY <1>1, <1>3 DEF WindowInv, ShownInv
  <2> QED BY <1>4, <1>6, <1>9, <2>1, <2>2 DEF ShownInv
<1>13. ViewTypes'
  <2>1. made + 1 \in Nat /\ 1..made \subseteq 1..(made + 1) /\ made + 1 \in 1..(made + 1)
    BY <1>1
  <2>2. \A u \in alive \cup allLoadedTabViews : u.tab \in Tabs /\ u.no \in 1..made
    BY DEF WindowInv, ViewTypes
  <2>3. alive' \cup allLoadedTabViews' \cup {activeTabView'} \cup ToSet(wcvCache') \subseteq alive \cup allLoadedTabViews \cup {v}
    BY <1>4, <1>6, <1>10
  <2> QED BY <1>1, <1>3, <1>5, <2>1, <2>2, <2>3 DEF ViewTypes
<1>14. ServerTypes' /\ UserTypes' /\ TabsInv' /\ QueueTypes'
  BY <1>5, <1>8 DEF WindowInv, ServerTypes, UserTypes, TabsInv, QueueTypes, IInv, server, user
<1> QED BY <1>11, <1>12, <1>13, <1>14 DEF WindowInv

(* Views are destroyed without an action of the queue: those of a closed     *)
(* tab, and all of them with the window.                                     *)
LEMMA RemoveLaterKeeps ==
  ASSUME WindowInv, IInv', NEW t \in Tabs, RemoveTabViewLater(t)
  PROVE  WindowInv'
<1>1. PICK gone : /\ gone = {v \in allLoadedTabViews : v.tab = t /\ activeTabView.tab # t}
                  /\ allLoadedTabViews' = allLoadedTabViews \ gone
                  /\ wcvCache' = Without(wcvCache, gone)
                  /\ alive' = alive \ gone
                  /\ timers' = timers \ {t} /\ closed # "closed"
                  /\ UNCHANGED <<server, workspaceId, queue, activeTabView, made, user, closed>>
  BY DEF RemoveTabViewLater, Open
<1>2. wcvCache' \in Seq(Views) /\ ToSet(wcvCache') = ToSet(wcvCache) \ gone
  BY <1>1, WithoutProperties DEF WindowInv, CacheInv
<1>3. activeTabView \in alive => activeTabView \in alive'
  BY <1>1
<1>4. ServerTypes' /\ UserTypes' /\ TabsInv' /\ QueueTypes'
  BY <1>1 DEF WindowInv, ServerTypes, UserTypes, TabsInv, QueueTypes, server, user, queue
<1>5. ViewTypes'
  BY <1>1, <1>2 DEF WindowInv, ViewTypes
<1>6. CacheInv'
  <2>1. ViewsAccounted'
    BY <1>1, <1>2 DEF WindowInv, CacheInv, ViewsAccounted
  <2> QED BY <1>1, <1>2, <2>1 DEF WindowInv, CacheInv, Creating, queue
<1>7. ShownInv'
  BY <1>1, <1>3 DEF WindowInv, ShownInv, Creating, queue, user, server
<1> QED BY <1>4, <1>5, <1>6, <1>7 DEF WindowInv

LEMMA ClosesKeeps ==
  ASSUME WindowInv, IInv', WindowCloses
  PROVE  WindowInv'
<1>1. /\ closed = "closing" /\ closed' = "closed"
      /\ alive' = alive \ allLoadedTabViews
      /\ wcvCache' = Without(wcvCache, allLoadedTabViews)
      /\ UNCHANGED <<server, workspaceId, queue, activeTabView, allLoadedTabViews, made, user, timers>>
  BY DEF WindowCloses
<1>2. wcvCache' \in Seq(Views) /\ ToSet(wcvCache') = ToSet(wcvCache) \ allLoadedTabViews
  BY <1>1, WithoutProperties DEF WindowInv, CacheInv
<1>3. ServerTypes' /\ UserTypes' /\ TabsInv' /\ QueueTypes'
  BY <1>1 DEF WindowInv, ServerTypes, UserTypes, TabsInv, QueueTypes, server, user, queue
<1>4. ViewTypes'
  BY <1>1, <1>2 DEF WindowInv, ViewTypes
<1>5. CacheInv'
  <2>1. ViewsAccounted'
    BY <1>1, <1>2 DEF WindowInv, CacheInv, ViewsAccounted
  <2> QED BY <1>1, <1>2, <2>1 DEF WindowInv, CacheInv, Creating, queue
<1>6. ShownInv'
  BY <1>1 DEF ShownInv
<1> QED BY <1>3, <1>4, <1>5, <1>6 DEF WindowInv

-----------------------------------------------------------------------------
(* At the start the window shows the active tab of its workspace. *)
LEMMA WindowInitOK == Init => WindowInv
<1> SUFFICES ASSUME Init PROVE WindowInv
  OBVIOUS
<1>1. IInv
  BY InitOK
<1>2. /\ tabIds = FirstTabs
      /\ activeTab = [w \in Workspaces |-> FirstTabs[w][1]]
      /\ workspaces = Workspaces /\ windowWs \in Workspaces /\ workspaceId = windowWs
      /\ elsewhere = Elsewhere
      /\ nextTab = 1 + Cardinality(UNION {ToSet(FirstTabs[w]) : w \in Workspaces})
      /\ actionQueue = <<>> /\ loops = [l \in Loops |-> Off]
      /\ activeTabView = [tab |-> activeTab[windowWs], no |-> 1]
      /\ allLoadedTabViews = {activeTabView} /\ wcvCache = <<activeTabView>>
      /\ alive = {activeTabView} /\ made = 1
      /\ asking = {} /\ requests = 0 /\ failures = 0 /\ timers = {} /\ closed = "open"
  BY DEF Init
<1>3. PICK n \in 0..MaxTab : UNION {ToSet(FirstTabs[w]) : w \in Workspaces} = 1..n
  BY WindowAssumption
<1>4. n \in Nat /\ n <= MaxTab /\ MaxTab \in Nat
  BY <1>3, WindowAssumption
<1>5. nextTab = n + 1
  <2>1. Cardinality(1..n) = n
    <3>1. Cardinality(1..n) = IF 1 > n THEN 0 ELSE n - 1 + 1
      BY <1>4, FS_Interval
    <3> QED BY <1>4, <3>1
  <2>2. nextTab = 1 + Cardinality(1..n)
    BY <1>2, <1>3, Zenon
  <2>3. nextTab = 1 + n
    BY <2>1, <2>2, Zenon
  <2> QED BY <1>4, <2>3
<1>6. \A w \in Workspaces : /\ FirstTabs[w] \in Seq(Tabs) /\ IsInjective(FirstTabs[w])
                            /\ FirstTabs[w][1] \in Tabs
                            /\ \A t \in ToSet(FirstTabs[w]) : t < n + 1
  <2> TAKE w \in Workspaces
  <2>1. FirstTabs[w] \in Seq(Tabs) /\ IsInjective(FirstTabs[w]) /\ FirstTabs[w] # <<>>
    BY WindowAssumption DEF Tabs
  <2>2. FirstTabs[w][1] \in Tabs
    <3>1. Len(FirstTabs[w]) \in Nat /\ Len(FirstTabs[w]) # 0
      BY <2>1, EmptySeq, LenProperties
    <3>2. 1 \in 1..Len(FirstTabs[w])
      BY <3>1
    <3> QED BY <2>1, <3>2, ElementOfSeq
  <2>3. \A t \in ToSet(FirstTabs[w]) : t < n + 1
    <3>1. ToSet(FirstTabs[w]) \subseteq 1..n
      BY <1>3
    <3> QED BY <1>4, <3>1
  <2> QED BY <2>1, <2>2, <2>3
<1>7. Tabs \subseteq 0..MaxTab /\ 0 \in 0..MaxTab
  BY <1>4 DEF Tabs
<1>8. QueueTypes
  <2>1. Off \in Spots
    BY <1>7 DEF Off, At, Spots
  <2> QED BY <1>1, <1>2, <2>1 DEF QueueTypes, IInv
<1>9. \A l \in Loops : ~Creating(l)
  BY <1>2 DEF Creating, Off, At
<1>10. ServerTypes
  <2>1. n + 1 \in 1..(MaxTab + 1)
    BY <1>4
  <2>2. tabIds \in [Workspaces -> Seq(Tabs)]
    BY <1>2, <1>6, WindowAssumption DEF Tabs
  <2>3. activeTab \in [Workspaces -> 0..MaxTab]
    BY <1>2, <1>6, <1>7
  <2> QED BY <1>2, <1>5, <2>1, <2>2, <2>3 DEF ServerTypes
<1>11. TabsInv
  BY <1>2, <1>5, <1>6 DEF TabsInv
<1>12. activeTabView.tab = activeTab[windowWs] /\ activeTabView.tab \in Tabs /\ activeTabView.no = 1
  BY <1>2, <1>6
<1>13. activeTabView \in Views
  <2>1. PICK t \in Tabs : t = activeTab[windowWs]
    BY <1>2, <1>12
  <2>2. [tab |-> t, no |-> 1] \in Views
    BY DEF Views
  <2> QED BY <1>2, <2>1, <2>2
<1>14. PICK v \in Views : v = activeTabView
  BY <1>13
<1>15. wcvCache \in Seq(Views) /\ ToSet(wcvCache) = {activeTabView}
  <2>1. <<v>> \in Seq(Views) /\ ToSet(<<v>>) = {v}
    BY DEF ToSet
  <2> QED BY <1>2, <1>14, <2>1
<1>16. ViewTypes
  <2>1. 1 \in 1..1 /\ 1 \in Nat
    OBVIOUS
  <2> QED BY <1>2, <1>12, <1>15, <2>1 DEF ViewTypes
<1>17. CacheInv
  BY <1>2, <1>9, <1>15 DEF CacheInv, ViewsAccounted
<1>18. ShownInv
  BY <1>2, <1>9, <1>12 DEF ShownInv
<1>19. UserTypes
  BY <1>2, WindowAssumption DEF UserTypes
<1> QED BY <1>1, <1>8, <1>10, <1>11, <1>16, <1>17, <1>18, <1>19 DEF WindowInv

LEMMA LoopStepKeeps ==
  ASSUME WindowInv, IInv', NEW l \in Loops, LoopStep(l)
  PROVE  WindowInv'
<1>1. CASE LoopEnds(l) \/ SkipSwitch(l) \/ CallBackend(l) \/ ViewReady(l) \/ SwitchRefused(l) \/ CallRefused(l)
  BY <1>1, LoopStepIdles
<1>2. CASE CreateTabAnswers(l)
  BY <1>2, CreateKeeps
<1>3. CASE SetActiveTabAnswers(l)
  BY <1>3, SetActiveKeeps
<1>4. CASE CloseTabAnswers(l)
  BY <1>4, CloseKeeps
<1>5. CASE SwitchAnswers(l)
  BY <1>5, SwitchKeeps
<1>6. CASE CallFails(l)
  BY <1>6, CallFailsIdles
<1>7. CASE ConfigAnswers(l)
  BY <1>7, ConfigKeeps
<1> QED BY <1>1, <1>2, <1>3, <1>4, <1>5, <1>6, <1>7 DEF LoopStep, Answers

LEMMA WindowInvKept == WindowInv /\ [Next]_vars => WindowInv'
<1> SUFFICES ASSUME WindowInv, [Next]_vars PROVE WindowInv'
  OBVIOUS
<1>1. IInv'
  BY InvKept DEF WindowInv
<1>2. ASSUME NEW entry, RequestTab(entry) PROVE WindowInv'
  BY <1>1, <1>2, RequestIdles
<1>3. CASE CreateTabRequested
  BY <1>2, <1>3 DEF CreateTabRequested
<1>4. ASSUME NEW t \in Tabs, CloseTabRequested(t) \/ SetActiveTabRequested(t) PROVE WindowInv'
  BY <1>2, <1>4 DEF CloseTabRequested, SetActiveTabRequested
<1>5. ASSUME NEW t \in Tabs, RemoveTabViewLater(t) PROVE WindowInv'
  BY <1>1, <1>5, RemoveLaterKeeps
<1>6. ASSUME NEW w \in Workspaces, SwitchWorkspaceRequested(w) PROVE WindowInv'
  BY <1>1, <1>6, SwitchRequestedIdles
<1>7. ASSUME NEW w \in Workspaces, SwitchWorkspaceQueued(w) PROVE WindowInv'
  BY <1>1, <1>7, SwitchQueuedIdles
<1>8. ASSUME NEW l \in Loops, LoopStep(l) PROVE WindowInv'
  BY <1>1, <1>8, LoopStepKeeps
<1>9. CASE WindowCloses
  BY <1>1, <1>9, ClosesKeeps
<1>10. CASE UNCHANGED vars
  <2>1. Idle /\ StillCreating
    BY <1>10 DEF Idle, StillCreating, vars, server, queue, views, user, Creating
  <2>2. QueueTypes' /\ UserTypes'
    BY <1>10 DEF WindowInv, QueueTypes, UserTypes, vars, server, queue, user
  <2> QED BY <1>1, <2>1, <2>2, IdleKeeps
<1> QED BY <1>3, <1>4, <1>5, <1>6, <1>7, <1>8, <1>9, <1>10 DEF Next

(* The invariant of the window holds in every reachable state (TypeOK,       *)
(* Serialized and the parts above; emain-window.ts:395-694).                 *)
THEOREM WindowInvHolds == Spec => []WindowInv
BY WindowInitOK, WindowInvKept, PTL DEF Spec

(* Every variable keeps its type: a view's tab is one the server has given   *)
(* out, and a switch or a close always finds a next tab to show.             *)
THEOREM TypeCorrect == Spec => []TypeOK
BY WindowInvHolds, InvImplies, PTL

(* When everything requested has been processed, no call failed and the      *)
(* window is open, it shows the server's active tab of the server's          *)
(* workspace in a living view, however requests and answers interleave.      *)
THEOREM QuietCorrect == Spec => []QuietAgrees
BY WindowInvHolds, InvImplies, PTL

(* No page runs that the window cannot reach and no page the window holds is *)
(* gone: living, cached and loaded views are the same, one for a tab         *)
(* (emain-tabview.ts:256-376).                                               *)
THEOREM ViewsCorrect == Spec => []ViewsAccounted
BY WindowInvHolds, InvImplies, PTL
=============================================================================
