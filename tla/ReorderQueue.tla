----------------------------- MODULE ReorderQueue -----------------------------
(* The reorder queue of terminal input (pkg/utilds/quickreorderqueue.go).     *)
(* A controller of the main server numbers what it sends to a job, the job    *)
(* manager handles each request in a goroutine of its own, and the queue puts *)
(* the inputs back in order before they reach the PTY, waiting a short while  *)
(* for one that is missing.                                                   *)
(*                                                                            *)
(* Every method runs under q.lock and is one action.  The out channel keeps   *)
(* its history: `sent` is all that was put into it, `taken` how much of that  *)
(* was received.  Time is counted in accepted items: `aged` is the last one   *)
(* accepted at least `timeout` ago.  Close and SetNextSeqNum, which only the  *)
(* tests call, are left out.                                                  *)
EXTENDS Integers, Sequences, FiniteSets, Functions

CONSTANTS Sessions,   \* InputSessionIds, one for each controller
          NoSession,  \* the empty session id
          Times,      \* the milliseconds in which sessions are first seen
          Cap,        \* capacity of the out channel
          MaxSeq,     \* bound on the numbers of a session
          MaxItems,   \* bound on the inputs accepted
          AnyCaller,  \* beyond the job manager's use of it: numbers that repeat,
                      \* number 0, no session
          ClockTies   \* two sessions may be first seen in the same millisecond

ASSUME SessionsAssumption == NoSession \notin Sessions
ASSUME TimesAssumption == Times \subseteq Nat \ {0}
ASSUME BoundsAssumption == Cap \in Nat \ {0} /\ MaxSeq \in Nat /\ MaxItems \in Nat
ASSUME CallersAssumption == AnyCaller \in BOOLEAN /\ ClockTies \in BOOLEAN

VARIABLES
  arrived,          \* the inputs, <<session, number>>, that have reached the queue
  accepted,         \* how many of them QueueItem took
  sessionOrder,     \* when a session was first seen, 0 if it was not
  currentSessionId, nextSeqNum,
  buffer,           \* the waiting items, which every use sorts first
  sent, taken,      \* the out channel
  aged,
  timer,            \* q.timer: "none", "armed", or "fired" while its callback
                    \* waits for the lock
  due,              \* the item whose timeout it was set for, 0 without a timer
  strays            \* callbacks to come of timers that q.timer no longer names

sessionVars == <<sessionOrder, currentSessionId, nextSeqNum>>
channelVars == <<sent, taken>>
timerVars   == <<timer, due, strays>>
vars == <<arrived, accepted, sessionVars, buffer, channelVars, aged, timerVars>>

Ids == Sessions \cup {NoSession}
Items == [session : Ids, seq : Nat, n : Nat]

Init ==
  /\ arrived = {} /\ accepted = 0 /\ aged = 0
  /\ sessionOrder = [session \in Ids |-> 0]
  /\ currentSessionId = NoSession /\ nextSeqNum = 1
  /\ buffer = {}
  /\ sent = <<>> /\ taken = 0
  /\ timer = "none" /\ due = 0 /\ strays = 0

-----------------------------------------------------------------------------
(* cmpSessionSeq_withlock *)
Before(session1, seq1, session2, seq2) ==
  \/ sessionOrder[session1] < sessionOrder[session2]
  \/ sessionOrder[session1] = sessionOrder[session2] /\ seq1 < seq2

Same(session1, seq1, session2, seq2) ==
  sessionOrder[session1] = sessionOrder[session2] /\ seq1 = seq2

Precedes(a, b) == Before(a.session, a.seq, b.session, b.seq)

(* sortBuffer_withlock: equal items may come in any order. *)
(* Fault: the items are taken as they lie. *)
Orders_Unsorted(items) == Bijection(1..Cardinality(items), items)
Orders(items) ==
  {order \in Bijection(1..Cardinality(items), items) :
     \A i, j \in 1..Cardinality(items) : i < j => ~Precedes(order[j], order[i])}

(* The first k of a sorted buffer are sent; `q.buffer[k:]` is left. *)
FirstOf(order, k) == {order[i] : i \in 1..k}

(* Fault: the item after them goes too. *)
Rest_OneTooMany(order, k) == buffer \ {order[i] : i \in (1..(k + 1)) \cap DOMAIN order}
Rest(order, k) == buffer \ FirstOf(order, k)

Item(session, seq) == [session |-> session, seq |-> seq, n |-> accepted + 1]

(* len(q.outCh) *)
Waiting == Len(sent) - taken

(* Fault: one more is let in than fits. *)
Full_OffByOne == Cardinality(buffer) + Waiting > Cap
Full == Cardinality(buffer) + Waiting >= Cap

-----------------------------------------------------------------------------
(* The timer.                                                                 *)
Arm(n)   == timer' = "armed" /\ due' = n
NoTimer  == timer' = "none" /\ due' = 0

(* ensureTimer_withlock, for the item that comes in *)
EnsureTimer ==
  /\ timer = "none" => Arm(accepted + 1)
  /\ timer # "none" => UNCHANGED <<timer, due>>

(* timer.Stop() does not reach a callback that already waits for the lock. *)
AfterStop == IF timer = "fired" THEN strays + 1 ELSE strays

-----------------------------------------------------------------------------
(* QueueItem of a session that has been seen, or of none.                     *)
Known(session) == session = NoSession \/ sessionOrder[session] # 0
Bypasses(session, seq) == session = NoSession \/ seq = 0

SendOld(session, seq) ==
  /\ Known(session)
  /\ Bypasses(session, seq) \/ Before(session, seq, currentSessionId, nextSeqNum)
  /\ sent' = Append(sent, Item(session, seq))
  /\ UNCHANGED <<sessionVars, buffer, timerVars>>

(* processBuffer_withlock: the first k items continue from number `next`, and *)
(* the one after them does not. *)
(* Fault: a gap is jumped over. *)
FollowsOn_Jumps(item, next) == item.session = currentSessionId /\ item.seq >= next
FollowsOn(item, next) == item.session = currentSessionId /\ item.seq = next

Run(order, next, k) ==
  /\ \A i \in 1..k : FollowsOn(order[i], next + i - 1)
  /\ k + 1 \in DOMAIN order => ~FollowsOn(order[k + 1], next + k)

SendNext(session, seq) ==
  /\ Known(session) /\ ~Bypasses(session, seq)
  /\ Same(session, seq, currentSessionId, nextSeqNum)
  /\ \E order \in Orders(buffer), k \in 0..Cardinality(buffer) :
       /\ Run(order, nextSeqNum + 1, k)
       /\ sent' = Append(sent, Item(session, seq)) \o SubSeq(order, 1, k)
       /\ nextSeqNum' = nextSeqNum + 1 + k
       /\ buffer' = Rest(order, k)
  /\ UNCHANGED <<sessionOrder, currentSessionId, timerVars>>

Hold(session, seq) ==
  /\ Known(session) /\ ~Bypasses(session, seq)
  /\ Before(currentSessionId, nextSeqNum, session, seq)
  /\ buffer' = buffer \cup {Item(session, seq)}
  /\ EnsureTimer
  /\ UNCHANGED <<sessionVars, sent, strays>>

(* ensureSessionTs_withlock, flushBuffer_withlock: the first item of a        *)
(* session flushes what waits and opens it at number 1.  The wall clock may   *)
(* have been set back: the new session can come "before" an older one.        *)
OpenSession(session) ==
  /\ ~Known(session)
  /\ \E ts \in Times :
       /\ ClockTies \/ \A other \in Ids : sessionOrder[other] # ts
       /\ sessionOrder' = [sessionOrder EXCEPT ![session] = ts]
  /\ currentSessionId' = session

(* Number 0 or 1 is sent at once. *)
OpenAndSend(session, seq) ==
  /\ OpenSession(session) /\ seq \in {0, 1}
  /\ nextSeqNum' = 1 + seq
  /\ \E order \in Orders(buffer) : sent' = Append(sent \o order, Item(session, seq))
  /\ buffer' = {}
  /\ buffer # {} => NoTimer /\ strays' = AfterStop
  /\ buffer = {} => UNCHANGED timerVars

OpenAndHold(session, seq) ==
  /\ OpenSession(session) /\ seq > 1
  /\ nextSeqNum' = 1
  /\ \E order \in Orders(buffer) : sent' = sent \o order
  /\ buffer' = {Item(session, seq)}
  /\ buffer # {} => Arm(accepted + 1) /\ strays' = AfterStop
  /\ buffer = {} => EnsureTimer /\ UNCHANGED strays

(* The inputs of a controller carry its session and the numbers 1, 2, ...     *)
(* (getNextInputSeq); a request may overtake another or never arrive.         *)
Inputs ==
  IF AnyCaller THEN (Sessions \X (0..MaxSeq)) \cup {<<NoSession, 0>>}
               ELSE (Sessions \X (1..MaxSeq)) \ arrived

QueueItem(session, seq) ==
  /\ arrived' = arrived \cup {<<session, seq>>}
  /\ ~Full
  /\ accepted < MaxItems
  /\ accepted' = accepted + 1
  /\ \/ SendOld(session, seq)
     \/ SendNext(session, seq)
     \/ Hold(session, seq)
     \/ OpenAndSend(session, seq)
     \/ OpenAndHold(session, seq)
  /\ UNCHANGED <<taken, aged>>

(* QueueItem's error, which JobInputCommand drops: the input is lost. *)
Refuse(session, seq) ==
  /\ arrived' = arrived \cup {<<session, seq>>}
  /\ Full
  /\ UNCHANGED <<accepted, sessionVars, buffer, channelVars, aged, timerVars>>

-----------------------------------------------------------------------------
(* onTimeout                                                                  *)

(* The last item in the order that has timed out takes all before it along. *)
LastAged(order, k) ==
  /\ k # 0 => order[k].n <= aged
  /\ \A i \in DOMAIN order : order[i].n <= aged => i <= k

SkipPast(items) ==
  LET nexts == {nextSeqNum} \cup {b.seq + 1 : b \in {c \in items : c.session = currentSessionId}}
  IN \E next \in nexts :
       /\ \A other \in nexts : other <= next
       /\ nextSeqNum' = next

(* Fault: the timer is set for the newest item. *)
Rearm_Newest ==
  /\ buffer' = {} => NoTimer
  /\ buffer' # {} => \E b \in buffer' : (\A c \in buffer' : c.n <= b.n) /\ Arm(b.n)
(* Fault: one timeout is all a buffer gets. *)
Rearm_Never == NoTimer
Rearm ==
  /\ buffer' = {} => NoTimer
  /\ buffer' # {} => \E b \in buffer' : (\A c \in buffer' : b.n <= c.n) /\ Arm(b.n)

onTimeout ==
  /\ \E order \in Orders(buffer), k \in 0..Cardinality(buffer) :
       /\ LastAged(order, k)
       /\ sent' = sent \o SubSeq(order, 1, k)
       /\ SkipPast(FirstOf(order, k))
       /\ buffer' = Rest(order, k)
  /\ Rearm
  /\ UNCHANGED <<arrived, accepted, sessionOrder, currentSessionId, taken, aged>>

TimerCallback == timer = "fired" /\ onTimeout /\ UNCHANGED strays

(* The callback of a timer that was stopped or forgotten.  It forgets the     *)
(* current timer, whose callback is then still to come. *)
StrayCallback ==
  /\ strays > 0
  /\ onTimeout
  /\ strays' = IF timer = "none" THEN strays - 1 ELSE strays

TimerFires ==
  /\ timer = "armed" /\ due <= aged
  /\ timer' = "fired"
  /\ UNCHANGED <<arrived, accepted, sessionVars, buffer, channelVars, aged, due, strays>>

Tick ==
  /\ aged' \in (aged + 1)..accepted
  /\ UNCHANGED <<arrived, accepted, sessionVars, buffer, channelVars, timerVars>>

-----------------------------------------------------------------------------
(* processInputQueue *)
(* Fault: it goes on without waiting for an item. *)
Take_Always ==
  /\ taken' = taken + 1
  /\ UNCHANGED <<arrived, accepted, sessionVars, buffer, sent, aged, timerVars>>
Take ==
  /\ Waiting > 0
  /\ taken' = taken + 1
  /\ UNCHANGED <<arrived, accepted, sessionVars, buffer, sent, aged, timerVars>>

Next ==
  \/ \E input \in Inputs : QueueItem(input[1], input[2]) \/ Refuse(input[1], input[2])
  \/ TimerCallback \/ StrayCallback
  \/ TimerFires \/ Tick \/ Take

Spec == Init /\ [][Next]_vars

(* Time passes, a timer fires, its callback gets the lock, and the loop of    *)
(* the job manager receives; nothing makes an input arrive. *)
FairSpec ==
  Spec /\ WF_vars(Tick) /\ WF_vars(TimerFires) /\ WF_vars(TimerCallback) /\ WF_vars(Take)

-----------------------------------------------------------------------------
(* Properties                                                                 *)

TypeOK ==
  /\ arrived \subseteq Ids \X Nat
  /\ accepted \in Nat /\ aged \in 0..accepted
  /\ sessionOrder \in [Ids -> Nat] /\ sessionOrder[NoSession] = 0
  /\ currentSessionId \in Ids /\ nextSeqNum \in Nat \ {0}
  /\ buffer \subseteq Items /\ IsFiniteSet(buffer)
  /\ sent \in Seq(Items) /\ taken \in 0..Len(sent)
  /\ timer \in {"none", "armed", "fired"} /\ due \in 0..accepted /\ strays \in Nat

(* The channel has room for all that waits in the buffer: outCh, which every  *)
(* method sends to with the lock held, never blocks one.                      *)
RoomForAll == Cardinality(buffer) + Waiting <= Cap

(* An input that QueueItem took is in the buffer or was sent, and is so once: *)
(* no flush, timeout or change of session drops one or sends it again.        *)
EachOnce ==
  /\ \A n \in 1..accepted : \/ \E i \in DOMAIN sent : sent[i].n = n
                            \/ \E b \in buffer : b.n = n
  /\ Len(sent) + Cardinality(buffer) = accepted

(* While items wait there is a timer, and it was set for the oldest of them   *)
(* or for one before it: none waits longer than the timeout, although a flush *)
(* stops timers whose callbacks may still run and forget the next timer.      *)
DueInTime ==
  buffer # {} => timer # "none" /\ \A b \in buffer : due <= b.n

New == (Len(sent) + 1)..Len(sent')

InOrder ==
  \A i \in New :
    /\ \A b \in buffer' : b.session = sent'[i].session => sent'[i].seq < b.seq
    /\ \A j \in (i + 1)..Len(sent') :
         sent'[j].session = sent'[i].session => sent'[i].seq < sent'[j].seq

InTurn ==
  \A i \in New :
    /\ currentSessionId' = currentSessionId
    /\ sent'[i].session = currentSessionId /\ sent'[i].seq >= nextSeqNum
    => \/ \A seq \in nextSeqNum..sent'[i].seq :
            \E j \in (Len(sent) + 1)..i :
              sent'[j].session = currentSessionId /\ sent'[j].seq = seq
       \/ \E b \in buffer : b.n <= aged /\ ~Precedes(b, sent'[i])

(* With the program's callers and sessions that begin at different times, an  *)
(* input is never sent while an earlier one of its session stays in the       *)
(* buffer or is sent after it in the same step: arrivals out of order,        *)
(* timeouts and changes of session do not swap two inputs the queue holds.    *)
NothingOvertaken == [][InOrder]_vars

(* An input of the current session is sent ahead of its turn only when an     *)
(* item that waits and does not come before it has timed out: while time is   *)
(* left, the inputs missing between nextSeqNum and it are waited for.         *)
Patient == [][InTurn]_vars

(* Every input that was taken reaches the loop of the job manager: none is    *)
(* left in the buffer behind one that never comes.                            *)
EveryInputHandled ==
  \A n \in 1..MaxItems :
    accepted >= n ~> \E i \in 1..taken : sent[i].n = n

=============================================================================
