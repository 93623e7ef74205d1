--------------------------- MODULE WindowActions ----------------------------
(* A WaveBrowserWindow of the Electron main process: the queue of actions    *)
(* that change what the window shows, the loop that processes it, and the    *)
(* cache of tab views.                                                       *)
(*                                                                           *)
(* The main process runs one handler at a time, up to its next await.  A     *)
(* loop that has not reached an await is "turn"ing; nothing else runs then.  *)
(* A service call takes effect and answers in one step: this loop is the     *)
(* only writer of the window's workspace.                                    *)
EXTENDS Integers, Sequences, SequencesExt

CONSTANTS Workspaces,    \* workspaces of the installation
          Saved,         \* those with a name and an icon
          FirstTabs,     \* the tabs each of them starts with
          Elsewhere,     \* workspaces that another window shows
          MaxTab,        \* bound: tabs are 1..MaxTab
          MaxCacheSize,  \* tab views kept before eviction
          MaxRequests,   \* bound on user requests
          MaxFailures,   \* bound on calls that fail
          Loops          \* identities for activations of processActionQueue

ASSUME WindowAssumption ==
  /\ MaxTab \in Nat /\ MaxCacheSize \in Nat /\ MaxRequests \in Nat /\ MaxFailures \in Nat
  /\ Saved \subseteq Workspaces /\ Elsewhere \subseteq Workspaces
  /\ FirstTabs \in [Workspaces -> Seq(1..MaxTab)]
  /\ \A w \in Workspaces : FirstTabs[w] # <<>> /\ IsInjective(FirstTabs[w])
  /\ \E n \in 0..MaxTab : UNION {ToSet(FirstTabs[w]) : w \in Workspaces} = 1..n

VARIABLES
  tabIds, activeTab,   \* the server's workspaces: their tabs, the active one (0: none)
  workspaces,          \* those that exist
  windowWs,            \* the workspace the server has for the window
  elsewhere,           \* the workspaces other windows show
  nextTab,             \* next tab id
  workspaceId,         \* the workspace the window believes it shows
  actionQueue,         \* requested actions, the one in process first
  loops,               \* where each activation of processActionQueue is
  activeTabView, allLoadedTabViews, wcvCache,
  alive,               \* tab views that have not been destroyed
  made,                \* views created
  asking,              \* workspace switches that wait for ListWorkspaces
  timers,              \* tabs with a removeTabViewLater timer
  closed,              \* the window: "open", "closing" or "closed"
  requests, failures

server == <<tabIds, activeTab, workspaces, windowWs, elsewhere, nextTab>>
queue == <<actionQueue, loops>>
views == <<activeTabView, allLoadedTabViews, wcvCache, alive, made>>
user == <<asking, requests, failures>>
vars == <<server, workspaceId, queue, views, user, timers, closed>>

Tabs == 1..MaxTab
NoView == [tab |-> 0, no |-> 0]
Entries ==
  [op : {"createtab"}] \cup [op : {"closetab"}, tab : Tabs]
    \cup [op : {"switchtab"}, tab : Tabs, setInBackend : BOOLEAN]
    \cup [op : {"switchworkspace"}, ws : Workspaces]
At(place, tab) == [at |-> place, tab |-> tab]
Off == At("off", 0)

Init ==
  /\ tabIds = FirstTabs
  /\ activeTab = [w \in Workspaces |-> FirstTabs[w][1]]
  /\ workspaces = Workspaces
  /\ windowWs \in Workspaces \ Elsewhere
  /\ elsewhere = Elsewhere
  /\ nextTab = 1 + Cardinality(UNION {ToSet(FirstTabs[w]) : w \in Workspaces})
  /\ workspaceId = windowWs
  /\ actionQueue = <<>> /\ loops = [l \in Loops |-> Off]
  /\ activeTabView = [tab |-> activeTab[windowWs], no |-> 1]
  /\ allLoadedTabViews = {activeTabView} /\ wcvCache = <<activeTabView>>
  /\ alive = {activeTabView} /\ made = 1
  /\ asking = {} /\ requests = 0 /\ failures = 0 /\ timers = {} /\ closed = "open"

(* A list without the elements that are gone. *)
Without(s, gone) ==
  LET kept[i \in 0..Len(s)] ==
        IF i = 0 THEN <<>>
        ELSE IF s[i] \in gone THEN kept[i - 1] ELSE Append(kept[i - 1], s[i])
  IN  kept[Len(s)]

Existing == UNION {ToSet(tabIds[w]) : w \in Workspaces}
Turning(l) == loops[l].at = "turn"
Yielded == \A l \in Loops : ~Turning(l)
Open == closed # "closed"
Processing(l) == loops[l].at # "off"
Waiting(l, op) == Yielded /\ loops[l].at = "backend" /\ actionQueue # <<>> /\ actionQueue[1].op = op

-----------------------------------------------------------------------------
(* _queueActionInternal *)

Enqueue_StartsAgain(entry) ==
  IF Len(actionQueue) >= 2
  THEN actionQueue' = [actionQueue EXCEPT ![2] = entry] /\ UNCHANGED loops
  ELSE /\ actionQueue' = Append(actionQueue, entry)
       /\ \E l \in Loops : ~Processing(l) /\ loops' = [loops EXCEPT ![l] = At("turn", 0)]

Enqueue(entry) ==
  IF Len(actionQueue) >= 2
  THEN actionQueue' = [actionQueue EXCEPT ![2] = entry] /\ UNCHANGED loops
  ELSE /\ actionQueue' = Append(actionQueue, entry)
       /\ IF actionQueue = <<>>
          THEN \E l \in Loops : ~Processing(l) /\ loops' = [loops EXCEPT ![l] = At("turn", 0)]
          ELSE UNCHANGED loops

CanAsk == Yielded /\ Open /\ requests < MaxRequests /\ requests' = requests + 1

RequestTab(entry) ==
  /\ CanAsk
  /\ Enqueue(entry)
  /\ UNCHANGED <<server, workspaceId, views, asking, failures, timers, closed>>

CreateTabRequested_AsSwitch == RequestTab([op |-> "switchtab", tab |-> 0, setInBackend |-> TRUE])

CreateTabRequested == RequestTab([op |-> "createtab"])
CloseTabRequested(t) == t \in ToSet(tabIds[workspaceId]) /\ RequestTab([op |-> "closetab", tab |-> t])
SetActiveTabRequested(t) ==
  /\ t \in ToSet(tabIds[workspaceId])
  /\ RequestTab([op |-> "switchtab", tab |-> t, setInBackend |-> TRUE])

(* switchWorkspace asks the server who shows the workspace, then queues. *)
SwitchWorkspaceRequested(w) ==
  /\ CanAsk /\ w \in workspaces /\ w # workspaceId /\ w \notin asking
  /\ asking' = asking \cup {w}
  /\ UNCHANGED <<server, workspaceId, queue, views, failures, timers, closed>>

NonEmptyUnsaved(w) == w \notin Saved /\ Len(tabIds[w]) > 1

SwitchWorkspaceQueued(w) ==
  /\ Yielded /\ Open /\ w \in asking
  /\ asking' = asking \ {w}
  /\ IF w \in elsewhere \cup {windowWs} \/ (workspaceId \in workspaces /\ ~NonEmptyUnsaved(workspaceId))
     THEN Enqueue([op |-> "switchworkspace", ws |-> w]) /\ UNCHANGED elsewhere
     ELSE /\ elsewhere' = IF workspaceId \in workspaces THEN elsewhere \cup {w} ELSE elsewhere
          /\ UNCHANGED queue
  /\ UNCHANGED <<tabIds, activeTab, workspaces, windowWs, nextTab, workspaceId, views, requests, failures,
                 timers, closed>>

-----------------------------------------------------------------------------
(* The ends of an iteration: the finally clause always shifts the queue; an *)
(* iteration that completes or throws goes round, one that returns leaves.  *)

Shift == actionQueue' = IF actionQueue = <<>> THEN <<>> ELSE Tail(actionQueue)
Continue(l) == Shift /\ loops' = [loops EXCEPT ![l] = At("turn", 0)]
Return(l) == Shift /\ loops' = [loops EXCEPT ![l] = Off]
Await(l, place, tab) == loops' = [loops EXCEPT ![l] = At(place, tab)] /\ UNCHANGED actionQueue

SetTabViewIntoWindow_KeepsActive(l, v, initialized, loaded) ==
  /\ allLoadedTabViews' = {u \in loaded : u.tab # v.tab} \cup {v}
  /\ UNCHANGED activeTabView
  /\ IF initialized THEN Continue(l) ELSE Await(l, "init", 0)

(* setTabViewIntoWindow *)
SetTabViewIntoWindow(l, v, initialized, loaded) ==
  /\ activeTabView' = v
  /\ allLoadedTabViews' = {u \in loaded : u.tab # v.tab} \cup {v}
  /\ IF initialized THEN Continue(l) ELSE Await(l, "init", 0)

(* getOrCreateWebViewForTab: a cached view is shown at once, a new one waits *)
(* for the configuration.                                                    *)
ShowTab(l, t, loaded, cache) ==
  IF \E v \in ToSet(cache) : v.tab = t
  THEN LET v == CHOOSE u \in ToSet(cache) : u.tab = t
       IN  /\ wcvCache' = Append(Without(cache, {v}), v)
           /\ SetTabViewIntoWindow(l, v, TRUE, loaded)
  ELSE /\ Await(l, "config", t)
       /\ allLoadedTabViews' = loaded /\ wcvCache' = cache
       /\ UNCHANGED activeTabView

(* checkAndEvictCache looks at as many of the oldest views as there are too *)
(* many; the comparator may sort the active one first.  One used within the *)
(* last second stays, and removeTabView keeps the active one.               *)
Evictable(cache) ==
  LET n == Len(cache) - MaxCacheSize
      old == {i \in 1..Len(cache) : i <= n}
      others == Without(cache, {activeTabView})
  IN  {cache[i] : i \in old} \cup {others[i] : i \in {j \in 1..Len(others) : j <= n - 1}}

Evicts(evicted, v) ==
  /\ evicted \in SUBSET (Evictable(Append(wcvCache, v)) \ {v})
  /\ \A u \in evicted : u.tab # activeTabView.tab /\ u \in allLoadedTabViews

ConfigAnswers(l) ==
  /\ Yielded /\ loops[l].at = "config"
  /\ made' = made + 1
  /\ LET v == [tab |-> loops[l].tab, no |-> made + 1]
     IN  \E evicted \in SUBSET allLoadedTabViews :
           /\ Evicts(evicted, v)
           /\ wcvCache' = Without(Append(Without(wcvCache, {u \in ToSet(wcvCache) : u.tab = v.tab}), v), evicted)
           /\ alive' = (alive \ evicted) \cup {v}
           /\ SetTabViewIntoWindow(l, v, FALSE, allLoadedTabViews \ evicted)
  /\ UNCHANGED <<server, workspaceId, user, timers, closed>>

ViewReady(l) ==
  /\ Yielded /\ loops[l].at = "init"
  /\ Continue(l)
  /\ UNCHANGED <<server, workspaceId, views, user, timers, closed>>

-----------------------------------------------------------------------------
(* processActionQueue, up to the first await of an iteration. *)

LoopEnds(l) ==
  /\ Turning(l)
  /\ IF actionQueue = <<>>
     THEN loops' = [loops EXCEPT ![l] = Off] /\ UNCHANGED actionQueue
     ELSE closed = "closed" /\ Return(l)
  /\ UNCHANGED <<server, workspaceId, views, user, timers, closed>>

AlreadyShown == actionQueue[1].op = "switchtab" /\ activeTabView.tab = actionQueue[1].tab

SkipSwitch(l) ==
  /\ Turning(l) /\ Open /\ actionQueue # <<>> /\ AlreadyShown
  /\ Continue(l)
  /\ UNCHANGED <<server, workspaceId, views, user, timers, closed>>

CallBackend(l) ==
  /\ Turning(l) /\ Open /\ actionQueue # <<>> /\ ~AlreadyShown
  /\ Await(l, "backend", 0)
  /\ UNCHANGED <<server, workspaceId, views, user, timers, closed>>

-----------------------------------------------------------------------------
(* The answers of the services, and what the loop does with them up to its *)
(* next await.                                                             *)

CreateTabAnswers(l) ==
  /\ Waiting(l, "createtab")
  /\ workspaceId \in workspaces /\ nextTab <= MaxTab
  /\ nextTab' = nextTab + 1
  /\ tabIds' = [tabIds EXCEPT ![workspaceId] = Append(@, nextTab)]
  /\ activeTab' = [activeTab EXCEPT ![workspaceId] = nextTab]
  /\ ShowTab(l, nextTab, allLoadedTabViews, wcvCache)
  /\ UNCHANGED <<workspaces, windowWs, elsewhere, workspaceId, alive, made, user, timers, closed>>

(* SetActiveTab checks that the tab exists, not that the workspace has it. *)
SetActiveTabAnswers(l) ==
  /\ Waiting(l, "switchtab")
  /\ LET t == actionQueue[1].tab
     IN  /\ workspaceId \in workspaces /\ t \in Existing
         /\ activeTab' = [activeTab EXCEPT ![workspaceId] = t]
         /\ ShowTab(l, t, allLoadedTabViews, wcvCache)
  /\ UNCHANGED <<tabIds, workspaces, windowWs, elsewhere, nextTab, workspaceId, alive, made, user, timers, closed>>

(* The tab that is active after DeleteTab: the one before it, if it was.    *)
ActiveAfterClose(w, t) ==
  LET idx == CHOOSE i \in 1..Len(tabIds[w]) : tabIds[w][i] = t
      rest == Without(tabIds[w], {t})
  IN  IF activeTab[w] # t THEN activeTab[w]
      ELSE IF rest = <<>> THEN 0
      ELSE rest[IF idx > 1 THEN idx - 1 ELSE 1]

(* CloseTab: the last tab takes the workspace and the window with it, and   *)
(* the loop returns.                                                        *)
CloseTabAnswers(l) ==
  /\ Waiting(l, "closetab")
  /\ LET t == actionQueue[1].tab
         next == ActiveAfterClose(workspaceId, t)
     IN  /\ t \in ToSet(tabIds[workspaceId])
         /\ tabIds' = [tabIds EXCEPT ![workspaceId] = Without(@, {t})]
         /\ activeTab' = [activeTab EXCEPT ![workspaceId] = next]
         /\ timers' = timers \cup {t}
         /\ IF next = 0
            THEN /\ workspaces' = workspaces \ {workspaceId}
                 /\ closed' = "closing"
                 /\ Return(l)
                 /\ UNCHANGED <<activeTabView, allLoadedTabViews, wcvCache>>
            ELSE /\ ShowTab(l, next, allLoadedTabViews, wcvCache)
                 /\ UNCHANGED <<workspaces, closed>>
  /\ UNCHANGED <<windowWs, elsewhere, nextTab, workspaceId, alive, made, user>>

(* SwitchWorkspace answers null for a workspace that has a window already: *)
(* the loop returns.                                                       *)
SwitchRefused(l) ==
  /\ Waiting(l, "switchworkspace")
  /\ actionQueue[1].ws \in workspaces /\ closed = "open"
  /\ actionQueue[1].ws \in elsewhere \cup {windowWs}
  /\ Return(l)
  /\ UNCHANGED <<server, workspaceId, views, user, timers, closed>>

(* Otherwise the window moves, the workspace it leaves is deleted unless it *)
(* is saved, and every view of it is destroyed; the active view is replaced *)
(* only later.                                                              *)
SwitchAnswers(l) ==
  /\ Waiting(l, "switchworkspace")
  /\ LET w == actionQueue[1].ws
         leaves == workspaceId \notin Saved
     IN  /\ w \in workspaces /\ closed = "open"
         /\ w \notin elsewhere \cup {windowWs}
         /\ windowWs' = w /\ workspaceId' = w
         /\ workspaces' = IF leaves THEN workspaces \ {workspaceId} ELSE workspaces
         /\ tabIds' = IF leaves THEN [tabIds EXCEPT ![workspaceId] = <<>>] ELSE tabIds
         /\ alive' = alive \ allLoadedTabViews
         /\ ShowTab(l, activeTab[w], {}, Without(wcvCache, allLoadedTabViews))
  /\ UNCHANGED <<activeTab, elsewhere, nextTab, made, user, timers, closed>>

(* A call that throws is caught: the iteration ends and the loop goes on.   *)
CallRefused(l) ==
  /\ \/ Waiting(l, "createtab") /\ (workspaceId \notin workspaces \/ nextTab > MaxTab)
     \/ Waiting(l, "switchtab") /\ (workspaceId \notin workspaces \/ actionQueue[1].tab \notin Existing)
     \/ Waiting(l, "closetab") /\ actionQueue[1].tab \notin ToSet(tabIds[workspaceId])
     \/ Waiting(l, "switchworkspace") /\ (actionQueue[1].ws \notin workspaces \/ closed # "open")
  /\ Continue(l)
  /\ UNCHANGED <<server, workspaceId, views, user, timers, closed>>

CallFails(l) ==
  /\ Yielded /\ loops[l].at \in {"backend", "config"} /\ failures < MaxFailures
  /\ failures' = failures + 1
  /\ Continue(l)
  /\ UNCHANGED <<server, workspaceId, views, asking, requests, timers, closed>>

-----------------------------------------------------------------------------
RemoveTabViewLater_KeepsEntry(t) ==
  /\ Yielded /\ t \in timers /\ Open
  /\ timers' = timers \ {t}
  /\ LET gone == {v \in allLoadedTabViews : v.tab = t /\ activeTabView.tab # t}
     IN  /\ allLoadedTabViews' = allLoadedTabViews \ gone
         /\ alive' = alive \ gone
  /\ UNCHANGED <<server, workspaceId, queue, activeTabView, wcvCache, made, user, closed>>

(* removeTabView, from its timer: the view on show is kept. *)
RemoveTabViewLater(t) ==
  /\ Yielded /\ t \in timers /\ Open
  /\ timers' = timers \ {t}
  /\ LET gone == {v \in allLoadedTabViews : v.tab = t /\ activeTabView.tab # t}
     IN  /\ allLoadedTabViews' = allLoadedTabViews \ gone
         /\ wcvCache' = Without(wcvCache, gone)
         /\ alive' = alive \ gone
  /\ UNCHANGED <<server, workspaceId, queue, activeTabView, made, user, closed>>

(* The server's close-window event destroys the window and its views. *)
WindowCloses ==
  /\ Yielded /\ closed = "closing"
  /\ closed' = "closed"
  /\ alive' = alive \ allLoadedTabViews
  /\ wcvCache' = Without(wcvCache, allLoadedTabViews)
  /\ UNCHANGED <<server, workspaceId, queue, activeTabView, allLoadedTabViews, made, user, timers>>

Answers(l) ==
  \/ CreateTabAnswers(l) \/ SetActiveTabAnswers(l) \/ CloseTabAnswers(l)
  \/ SwitchRefused(l) \/ SwitchAnswers(l) \/ CallRefused(l) \/ CallFails(l)

LoopStep(l) ==
  LoopEnds(l) \/ SkipSwitch(l) \/ CallBackend(l) \/ Answers(l) \/ ConfigAnswers(l) \/ ViewReady(l)

Next ==
  \/ CreateTabRequested
  \/ \E t \in Tabs : CloseTabRequested(t) \/ SetActiveTabRequested(t) \/ RemoveTabViewLater(t)
  \/ \E w \in Workspaces : SwitchWorkspaceRequested(w) \/ SwitchWorkspaceQueued(w)
  \/ \E l \in Loops : LoopStep(l)
  \/ WindowCloses

Spec == Init /\ [][Next]_vars

-----------------------------------------------------------------------------
(* Properties. *)

TypeOK ==
  /\ tabIds \in [Workspaces -> Seq(Tabs)] /\ activeTab \in [Workspaces -> 0..MaxTab]
  /\ workspaces \subseteq Workspaces /\ elsewhere \subseteq Workspaces
  /\ windowWs \in Workspaces /\ workspaceId \in Workspaces /\ nextTab \in 1..(MaxTab + 1)
  /\ actionQueue \in Seq(Entries)
  /\ loops \in [Loops -> [at : {"off", "turn", "backend", "config", "init"}, tab : 0..MaxTab]]
  /\ \A v \in alive \cup allLoadedTabViews \cup {activeTabView} \cup ToSet(wcvCache) : v.tab \in Tabs /\ v.no \in 1..made
  /\ made \in Nat /\ requests \in 0..MaxRequests /\ failures \in 0..MaxFailures
  /\ asking \subseteq Workspaces /\ timers \subseteq Tabs /\ closed \in {"open", "closing", "closed"}

(* Actions on the window are serialized: whatever is requested while an      *)
(* action waits for the server or for a page, no second activation of        *)
(* processActionQueue starts, and the action it works on stays at the head   *)
(* of a queue that never holds more than one other.                          *)
Serialized ==
  /\ \A l, k \in Loops : Processing(l) /\ Processing(k) => l = k
  /\ Len(actionQueue) <= 2
  /\ \A l \in Loops : Processing(l) /\ ~Turning(l) => actionQueue # <<>>

(* What the queue's comment says of [0]: it is in process.  An action that   *)
(* nothing processes stays in the queue for good, and with it every later    *)
(* request of the window.                                                    *)
HeadInProcess == actionQueue # <<>> /\ closed = "open" => \E l \in Loops : Processing(l)

Quiet == actionQueue = <<>> /\ (\A l \in Loops : ~Processing(l)) /\ closed = "open" /\ failures = 0

(* When everything requested has been processed and no call failed, the      *)
(* window and the server agree: the window shows the server's active tab of  *)
(* the workspace the server has for the window, in a view that is alive.     *)
QuietAgrees ==
  Quiet => /\ workspaceId = windowWs
           /\ activeTabView.tab = activeTab[windowWs]
           /\ activeTabView \in alive

(* The main process, the window and the cache have the same views, one for a *)
(* tab: switching, closing, eviction and removal leave no page running that  *)
(* nothing can reach, and no reachable view whose page is gone.              *)
ViewsAccounted ==
  /\ alive = ToSet(wcvCache)
  /\ closed # "closed" => alive = allLoadedTabViews
  /\ \A u, v \in alive : u.tab = v.tab => u = v
=============================================================================
