-------------------------- MODULE McpServersProofs --------------------------
(***************************************************************************)
(* What the MCP channel of the main process promises, for every set of     *)
(* windows and servers: its locks have owners, the clients it keeps for    *)
(* tool calls are connected, and the tools that windows offer are theirs.  *)
(***************************************************************************)
EXTENDS McpServers, TLAPS, SequenceTheorems, FiniteSetTheorems

Settings == [Servers -> BOOLEAN]
Messages ==
    [op : {"refresh"}, arg : Refreshes, isOn : Settings] \cup [op : {"toggle"}, arg : Toggles, isOn : Settings]
Stores ==
    [then : {"remove", "refresh"}, arg : Refreshes, value : Settings]
        \cup [then : {"toggle"}, arg : Toggles, value : Settings]
Tasks ==
    [call : 1..calls, server : Servers, kind : {"add", "update", "remove", "toggle", "off"},
     step : {"closing", "creating"}, isOn : BOOLEAN, client : Clients, names : SUBSET Servers]

WindowTypes ==
    /\ config \in SUBSET Servers
    /\ isOn \in [Windows -> Settings] /\ saved \in Settings
    /\ storing \in [Windows -> Seq(Stores)]
    /\ toMain \in [Windows -> Seq(Messages)]

MainTypes ==
    /\ calls \in Nat
    /\ tasks \subseteq Tasks
    /\ clientOf \in [Servers -> Clients \cup {None}]
    /\ open \subseteq Clients

\* The client a task makes, or would make.
Own(t) == <<t.call, t.server>>
Creates(t) == t.step = "creating" \/ t.kind = "update"

\* Of one call, the tasks share their names and differ in their servers; a switch
\* locks nothing.
TasksOfCall ==
    /\ \A t, u \in tasks : t.call = u.call => t.names = u.names /\ (t.server = u.server => t = u)
    /\ \A t \in tasks : t.kind \in {"toggle", "off"} => t.names = {}

\* A client is of the server it is kept for, or closed for.
OwnServer ==
    /\ \A s \in Servers : clientOf[s] # None => clientOf[s][2] = s
    /\ \A t \in tasks : t.client[2] = t.server

\* A client that is yet to be made is neither kept nor closed.
NotYetMade ==
    /\ \A t \in tasks : t.step = "creating" => t.client = Own(t)
    /\ \A t \in tasks : Creates(t) =>
        /\ clientOf[t.server] # Own(t)
        /\ \A u \in tasks : u.step = "closing" => u.client # Own(t)

\* A client that a switch closes is not kept any more; other closings forget it.
SwitchedOff == \A t \in tasks : t.kind = "off" => t.step = "closing" /\ clientOf[t.server] # t.client

MainInv ==
    /\ MainTypes /\ TasksOfCall /\ OwnServer /\ NotYetMade /\ SwitchedOff
    /\ LockHasOwner /\ StoredIsOpen

IInv == WindowTypes /\ MainInv

-----------------------------------------------------------------------------
LEMMA InitInv == Init => IInv
<1> SUFFICES ASSUME Init PROVE IInv
  OBVIOUS
<1>1. WindowTypes
  <2>1. << >> \in Seq(Stores) /\ << >> \in Seq(Messages)
    OBVIOUS
  <2> QED
    BY <2>1 DEF Init, WindowTypes, Settings
<1>2. MainInv
  BY DEF Init, MainInv, MainTypes, TasksOfCall, OwnServer, NotYetMade, SwitchedOff, LockHasOwner, StoredIsOpen
<1> QED
  BY <1>1, <1>2 DEF IInv

-----------------------------------------------------------------------------
\* The windows: they only send messages that are well formed.

LEMMA QueueTypes ==
    ASSUME NEW S, NEW q \in Seq(S), q # << >>
    PROVE  Head(q) \in S /\ Tail(q) \in Seq(S)
BY HeadTailProperties

LEMMA MainUnchanged ==
    ASSUME MainInv, UNCHANGED main
    PROVE  MainInv'
BY DEF main, MainInv, MainTypes, TasksOfCall, OwnServer, NotYetMade, SwitchedOff, LockHasOwner, StoredIsOpen,
       Tasks, Clients, Own, Creates

LEMMA StoreTypes ==
    ASSUME WindowTypes, NEW w \in Windows, NEW on \in Settings, NEW then, NEW arg,
           [then |-> then, arg |-> arg, value |-> on] \in Stores, Store(w, on, then, arg)
    PROVE  isOn' \in [Windows -> Settings] /\ storing' \in [Windows -> Seq(Stores)]
<1>1. storing[w] \in Seq(Stores)
  BY DEF WindowTypes
<1>2. Append(storing[w], [then |-> then, arg |-> arg, value |-> on]) \in Seq(Stores)
  BY <1>1, AppendProperties
<1> QED
  BY <1>2 DEF WindowTypes, Store

LEMMA ReadConfigTypes == ASSUME WindowTypes, NEW w \in Windows, ReadConfig(w) PROVE WindowTypes'
<1>1. CASE ~readable
  BY <1>1 DEF ReadConfig, WindowTypes, file
<1>2. CASE readable
  <2> DEFINE added == Added(w)
             removed == {s \in Servers : shown[w][s] # Absent} \ config
             on == [s \in Servers |-> s \in added \/ isOn[w][s]]
  <2>1. on \in Settings /\ Refresh(config, added, removed) \in Refreshes
    BY DEF WindowTypes, Settings, Refresh, Refreshes, Added
  <2>2. Store(w, on, "remove", Refresh(config, added, removed))
    BY <1>2 DEF ReadConfig
  <2> HIDE DEF added, removed, on
  <2>3. isOn' \in [Windows -> Settings] /\ storing' \in [Windows -> Seq(Stores)]
    <3>1. [then |-> "remove", arg |-> Refresh(config, added, removed), value |-> on] \in Stores
      BY <2>1 DEF Stores
    <3> QED
      BY <2>1, <2>2, <3>1, StoreTypes
  <2> QED
    BY <2>3 DEF ReadConfig, WindowTypes, file
<1> QED
  BY <1>1, <1>2

LEMMA ToggleTypes ==
    ASSUME WindowTypes, NEW w \in Windows, NEW s \in Servers, Toggle(w, s)
    PROVE  WindowTypes'
<1> DEFINE on == ~isOn[w][s]
           all == [isOn[w] EXCEPT ![s] = on]
           arg == [server |-> s, isOn |-> on]
<1>1. all \in Settings /\ arg \in Toggles
  <2>1. isOn[w] \in Settings
    BY DEF WindowTypes
  <2>2. on \in BOOLEAN
    BY <2>1 DEF Settings
  <2> QED
    BY <2>1, <2>2 DEF Settings, Toggles
<1>2. Store(w, all, "toggle", arg)
  BY DEF Toggle
<1> HIDE DEF on, all, arg
<1>3. isOn' \in [Windows -> Settings] /\ storing' \in [Windows -> Seq(Stores)]
  <2>1. [then |-> "toggle", arg |-> arg, value |-> all] \in Stores
    BY <1>1 DEF Stores
  <2> QED
    BY <1>1, <1>2, <2>1, StoreTypes
<1> QED
  BY <1>3 DEF Toggle, WindowTypes, file

LEMMA StoredTypes ==
    ASSUME WindowTypes, NEW w \in Windows, RemoveStates(w) \/ SendRefresh(w) \/ SendToggle(w)
    PROVE  WindowTypes'
<1> DEFINE e == Head(storing[w])
           rest == Tail(storing[w])
<1>1. e \in Stores /\ rest \in Seq(Stores)
  BY QueueTypes DEF RemoveStates, SendRefresh, SendToggle, Stored, WindowTypes
<1>2. isOn[w] \in Settings /\ toMain[w] \in Seq(Messages)
  BY DEF WindowTypes
<1>3. e.value \in Settings /\ saved' = e.value /\ config' = config
  BY <1>1 DEF Stores, RemoveStates, SendRefresh, SendToggle, Stored, file
<1>4. CASE RemoveStates(w)
  <2> DEFINE new == [then |-> "refresh", arg |-> e.arg, value |-> isOn[w]]
  <2>1. new \in Stores
    BY <1>1, <1>2, <1>4 DEF Stores, RemoveStates
  <2>2. Append(rest, new) \in Seq(Stores)
    BY <1>1, <2>1, AppendProperties
  <2>3. storing' = [storing EXCEPT ![w] = Append(rest, new)]
    BY <1>4 DEF RemoveStates
  <2>4. isOn' = isOn /\ toMain' = toMain
    BY <1>4 DEF RemoveStates
  <2> HIDE DEF e, rest, new
  <2> QED
    BY <1>3, <2>2, <2>3, <2>4 DEF WindowTypes
<1>5. ASSUME NEW m \in Messages, toMain' = [toMain EXCEPT ![w] = Append(toMain[w], m)],
             storing' = [storing EXCEPT ![w] = rest], UNCHANGED isOn
      PROVE  WindowTypes'
  <2>1. Append(toMain[w], m) \in Seq(Messages)
    BY <1>2, AppendProperties
  <2> HIDE DEF e, rest
  <2> QED
    BY <1>1, <1>3, <1>5, <2>1 DEF WindowTypes
<1>6. CASE SendRefresh(w)
  <2>1. [op |-> "refresh", arg |-> e.arg, isOn |-> isOn[w]] \in Messages
    BY <1>1, <1>2, <1>6 DEF Messages, Stores, SendRefresh
  <2> QED
    BY <1>5, <1>6, <2>1 DEF SendRefresh
<1>7. CASE SendToggle(w)
  <2>1. [op |-> "toggle", arg |-> e.arg, isOn |-> isOn[w]] \in Messages
    BY <1>1, <1>2, <1>7 DEF Messages, Stores, SendToggle
  <2> QED
    BY <1>5, <1>7, <2>1 DEF SendToggle
<1> QED
  BY <1>4, <1>6, <1>7

LEMMA WindowInv ==
    ASSUME IInv, NEW w \in Windows,
           \/ EditConfig \/ Reload(w) \/ \E s \in Servers : Toggle(w, s)
           \/ ReadConfig(w) \/ RemoveStates(w) \/ SendRefresh(w) \/ SendToggle(w) \/ Deliver(w)
    PROVE  IInv'
<1>1. MainInv'
  <2>1. UNCHANGED main
    BY DEF EditConfig, Reload, Toggle, ReadConfig, RemoveStates, SendRefresh, SendToggle, Stored, Deliver
  <2> QED
    BY <2>1, MainUnchanged DEF IInv
<1>2. CASE EditConfig
  BY <1>1, <1>2 DEF EditConfig, IInv, WindowTypes
<1>3. CASE Reload(w)
  <2>1. << >> \in Seq(Stores)
    OBVIOUS
  <2> QED
    BY <1>3, <1>1, <2>1 DEF Reload, IInv, WindowTypes, file
<1>4. CASE \E s \in Servers : Toggle(w, s)
  BY <1>1, <1>4, ToggleTypes DEF IInv
<1>5. CASE ReadConfig(w)
  BY <1>1, <1>5, ReadConfigTypes DEF IInv
<1>6. CASE RemoveStates(w) \/ SendRefresh(w) \/ SendToggle(w)
  BY <1>1, <1>6, StoredTypes DEF IInv
<1>7. CASE Deliver(w)
  BY <1>1, <1>7 DEF Deliver, IInv, WindowTypes, file
<1> QED
  BY <1>2, <1>3, <1>4, <1>5, <1>6, <1>7

-----------------------------------------------------------------------------
\* The main process.

\* A message is received: what it is, and what that does to the windows.
LEMMA Received ==
    ASSUME WindowTypes, NEW w \in Windows, toMain[w] # << >>,
           toMain' = [toMain EXCEPT ![w] = Tail(@)], UNCHANGED <<file, window>>
    PROVE  Head(toMain[w]) \in Messages /\ WindowTypes'
<1>1. Head(toMain[w]) \in Messages /\ Tail(toMain[w]) \in Seq(Messages)
  BY QueueTypes DEF WindowTypes
<1> QED
  BY <1>1 DEF WindowTypes, file, window

LEMMA WindowsUnchanged == ASSUME WindowTypes, UNCHANGED <<file, window, toMain>> PROVE WindowTypes'
BY DEF WindowTypes, file, window

\* A client of an earlier call is not made by the next one.
LEMMA CallsGrow ==
    ASSUME MainTypes, calls' = calls + 1
    PROVE  /\ calls' \in Nat /\ calls' \in 1..calls' /\ 1..calls \subseteq 1..calls'
           /\ Clients \subseteq Clients' /\ \A c \in Clients, s \in Servers : c # <<calls', s>>
           /\ \A s \in Servers : <<calls', s>> \in Clients'
           /\ \A t \in Tasks : t \in Tasks' /\ t.call # calls'
<1>1. calls \in Nat /\ calls' = calls + 1
  BY DEF MainTypes
<1>2. calls' \in Nat /\ calls' \in 1..calls' /\ 1..calls \subseteq 1..calls' /\ calls' \notin 1..calls
  BY <1>1
<1>3. Clients \subseteq Clients' /\ \A c \in Clients, s \in Servers : c # <<calls', s>>
  BY <1>2 DEF Clients
<1>4. \A s \in Servers : <<calls', s>> \in Clients'
  BY <1>2 DEF Clients
<1>5. \A t \in Tasks : t \in Tasks' /\ t.call # calls'
  BY <1>2, <1>3 DEF Tasks
<1> QED
  BY <1>2, <1>3, <1>4, <1>5

\* Call n begins with tasks of its own, some of which take over the clients of their
\* servers; the others make new ones.
LEMMA Begins ==
    ASSUME MainInv, calls' = calls + 1, NEW names \in SUBSET Servers, NEW begun \in SUBSET Tasks',
           tasks' = tasks \cup begun, UNCHANGED open,
           \A t \in begun : t.call = calls' /\ t.names = names,
           \A t, u \in begun : t.server = u.server => t = u,
           \A t \in begun : t.step = "creating" => t.client = Own(t),
           \A t \in begun : t.step = "closing" => clientOf[t.server] = t.client,
           \A t \in begun : t.kind = "off" => t.step = "closing",
           \A t \in begun : t.kind \in {"toggle", "off"} => t.names = {},
           \A t \in begun : t.kind = "off" => clientOf'[t.server] = None,
           clientOf' \in [Servers -> Clients \cup {None}],
           \A s \in Servers : clientOf'[s] \in {clientOf[s], None},
           \A s \in locked' : s \in locked \/ (begun # {} /\ s \in names)
    PROVE  MainInv'
<1>1. \A t \in tasks : t \in Tasks
  BY DEF MainInv, MainTypes
<1>2. MainTypes'
  BY CallsGrow DEF MainInv, MainTypes
<1>3. TasksOfCall'
  <2> SUFFICES ASSUME NEW t \in tasks', NEW u \in tasks', t.call = u.call
               PROVE  t.names = u.names /\ (t.server = u.server => t = u)
    BY DEF TasksOfCall, MainInv
  <2>1. CASE t \in tasks /\ u \in tasks
    BY <2>1 DEF MainInv, TasksOfCall
  <2>2. CASE t \in begun /\ u \in begun
    BY <2>2
  <2>3. \A x \in tasks : x.call # calls'
    BY <1>1, CallsGrow DEF MainInv
  <2> QED
    BY <2>1, <2>2, <2>3
<1>4. \A t \in tasks' : t \in Tasks' /\ t.server \in Servers
  BY <1>2 DEF MainTypes, Tasks
<1>5. \A c \in Clients : c # None
  BY McpAssumption DEF Clients, MainInv, MainTypes
<1>6. OwnServer'
  <2>1. \A s \in Servers : clientOf'[s] # None => clientOf'[s][2] = s
    BY DEF MainInv, OwnServer
  <2>2. ASSUME NEW t \in begun PROVE t.client[2] = t.server
    <3>1. CASE t.step = "creating"
      BY <3>1 DEF Own
    <3>2. CASE t.step = "closing"
      <4>1. t.client \in Clients' /\ t.server \in Servers
        BY <2>2 DEF Tasks
      <4>2. t.client \in Nat \X Servers
        BY <4>1, CallsGrow DEF Clients, MainInv
      <4>3. t.client # None
        BY <4>2, McpAssumption
      <4> QED
        BY <3>2, <4>1, <4>3 DEF MainInv, OwnServer
    <3> QED
      BY <3>1, <3>2, <1>4 DEF Tasks
  <2> QED
    BY <2>1, <2>2 DEF MainInv, OwnServer
<1>7. NotYetMade'
  <2>1. \A t \in tasks' : t.step = "creating" => t.client = Own(t)
    BY DEF MainInv, NotYetMade
  <2> SUFFICES ASSUME NEW t \in tasks', Creates(t)
               PROVE  /\ clientOf'[t.server] # Own(t)
                      /\ \A u \in tasks' : u.step = "closing" => u.client # Own(t)
    BY <2>1 DEF NotYetMade, Creates, Own
  <2>2. Own(t) # None /\ Own(t)[2] = t.server
    <3>1. Own(t) \in Nat \X Servers
      BY <1>4, CallsGrow DEF Own, Tasks, MainInv
    <3> QED
      BY <3>1, McpAssumption DEF Own
  <2>3. \A s \in Servers : clientOf[s] # Own(t)
    <3>1. CASE t \in begun
      <4>1. Own(t) = <<calls', t.server>>
        BY <3>1 DEF Own
      <4> QED
        BY <4>1, <2>2, <1>4, CallsGrow DEF MainInv, MainTypes
    <3>2. CASE t \in tasks
      <4>1. clientOf[t.server] # Own(t)
        BY <3>2 DEF MainInv, NotYetMade
      <4> QED
        BY <4>1, <2>2 DEF MainInv, OwnServer
    <3> QED
      BY <3>1, <3>2
  <2>4. clientOf'[t.server] # Own(t)
    BY <1>4, <2>2, <2>3
  <2>5. ASSUME NEW u \in tasks', u.step = "closing" PROVE u.client # Own(t)
    <3>1. CASE u \in begun
      BY <3>1, <2>5, <2>3, <1>4
    <3>2. CASE u \in tasks /\ t \in tasks
      BY <3>2, <2>5 DEF MainInv, NotYetMade
    <3>3. CASE u \in tasks /\ t \in begun
      <4>1. u.client \in Clients /\ Own(t) = <<calls', t.server>> /\ t.server \in Servers
        BY <3>3, <1>1, <1>4 DEF Own, Tasks
      <4> QED
        BY <4>1, CallsGrow DEF MainInv
    <3> QED
      BY <3>1, <3>2, <3>3
  <2> QED
    BY <2>4, <2>5
<1>8. SwitchedOff'
  <2> SUFFICES ASSUME NEW t \in tasks', t.kind = "off"
               PROVE  t.step = "closing" /\ clientOf'[t.server] # t.client
    BY DEF SwitchedOff
  <2>1. t.client # None
    <3>1. t.client \in Nat \X Servers
      BY <1>4, CallsGrow DEF Tasks, Clients, MainInv
    <3> QED
      BY <3>1, McpAssumption
  <2>2. CASE t \in begun
    BY <2>1, <2>2
  <2>3. CASE t \in tasks
    BY <1>4, <2>1, <2>3 DEF MainInv, SwitchedOff
  <2> QED
    BY <2>2, <2>3
<1>9. LockHasOwner'
  <2> SUFFICES ASSUME NEW s \in locked' PROVE \E t \in tasks' : s \in t.names
    BY DEF LockHasOwner
  <2>1. CASE s \in locked
    BY <2>1 DEF MainInv, LockHasOwner
  <2>2. CASE begun # {} /\ s \in names
    BY <2>2
  <2> QED
    BY <2>1, <2>2
<1>10. StoredIsOpen'
  BY DEF MainInv, StoredIsOpen
<1> QED
  BY <1>2, <1>3, <1>6, <1>7, <1>8, <1>9, <1>10 DEF MainInv

LEMMA ReceiveRefreshInv == ASSUME IInv, NEW w \in Windows, ReceiveRefresh(w) PROVE IInv'
<1> DEFINE m == Head(toMain[w])
           r == m.arg
           on == m.isOn
           n == calls + 1
           names == r.config \cup r.removed
           taken == names \ locked
           closing == {s \in taken \ r.added : clientOf[s] # None}
           gone == (taken \ r.added) \ closing
           created == (taken \ closing) \ r.removed
           kind(s) == CASE s \in r.removed -> "remove" [] s \in r.added -> "add" [] OTHER -> "update"
           begun1 == {Task(n, s, kind(s), "closing", on[s], clientOf[s], names) : s \in closing}
           begun2 == {Task(n, s, kind(s), "creating", on[s], <<n, s>>, names) : s \in created}
           begun == begun1 \cup begun2
<1>1. m \in Messages /\ m.op = "refresh" /\ WindowTypes'
  BY Received DEF IInv, ReceiveRefresh
<1>2. r \in Refreshes /\ on \in Settings
  BY <1>1 DEF Messages
<1>3. names \in SUBSET Servers /\ closing \subseteq Servers /\ created \subseteq Servers
  BY <1>2 DEF Refreshes
<1>4. /\ tasks' = tasks \cup begun /\ locked' = Freed(names, begun, n, locked \cup taken)
      /\ calls' = n /\ UNCHANGED <<clientOf, open>>
  BY DEF ReceiveRefresh
<1>5. \A s \in Servers : kind(s) \in {"add", "update", "remove"}
  OBVIOUS
<1>6. /\ calls' = calls + 1 /\ n \in 1..calls'
      /\ \A s \in Servers : <<n, s>> \in Clients'
      /\ \A s \in Servers : clientOf[s] # None => clientOf[s] \in Clients'
  <2>1. calls' = calls + 1
    BY <1>4
  <2> QED
    BY <2>1, CallsGrow DEF IInv, MainInv, MainTypes
<1>7. \A s \in Servers : on[s] \in BOOLEAN
  BY <1>2 DEF Settings
<1>8. ASSUME NEW t \in begun1
      PROVE  /\ t \in Tasks' /\ t.call = n /\ t.names = names /\ t.kind \notin {"toggle", "off"} /\ t.step = "closing"
             /\ t.server \in closing /\ t.client = clientOf[t.server]
             /\ t = Task(n, t.server, kind(t.server), "closing", on[t.server], clientOf[t.server], names)
  <2>1. PICK s \in closing : t = Task(n, s, kind(s), "closing", on[s], clientOf[s], names)
    OBVIOUS
  <2>2. clientOf[s] \in Clients' /\ s \in Servers
    BY <1>3, <1>6, <2>1
  <2>3. kind(s) \in {"add", "update", "remove", "toggle", "off"} /\ kind(s) \notin {"toggle", "off"} /\ on[s] \in BOOLEAN
    BY <1>5, <1>7, <2>2
  <2> HIDE DEF m, r, on, n, names, closing, kind
  <2> QED
    BY <1>3, <1>6, <2>1, <2>2, <2>3 DEF Task, Tasks
<1>9. ASSUME NEW t \in begun2
      PROVE  /\ t \in Tasks' /\ t.call = n /\ t.names = names /\ t.kind \notin {"toggle", "off"} /\ t.step = "creating"
             /\ t.server \in created /\ t.client = Own(t)
             /\ t = Task(n, t.server, kind(t.server), "creating", on[t.server], <<n, t.server>>, names)
  <2>1. PICK s \in created : t = Task(n, s, kind(s), "creating", on[s], <<n, s>>, names)
    OBVIOUS
  <2>2. <<n, s>> \in Clients' /\ s \in Servers
    BY <1>3, <1>6, <2>1
  <2>3. kind(s) \in {"add", "update", "remove", "toggle", "off"} /\ kind(s) \notin {"toggle", "off"} /\ on[s] \in BOOLEAN
    BY <1>5, <1>7, <2>2
  <2> HIDE DEF m, r, on, n, names, created, kind
  <2> QED
    BY <1>3, <1>6, <2>1, <2>2, <2>3 DEF Task, Tasks, Own
<1>10. \A t, u \in begun : t.server = u.server => t = u
  <2>1. closing \cap created = {}
    OBVIOUS
  <2>2. ASSUME NEW t \in begun, NEW u \in begun, t.server = u.server PROVE t = u
    <3>1. CASE t \in begun1 /\ u \in begun1
      <4> HIDE DEF m, r, on, n, names, closing, created, kind, begun1, begun2
      <4> QED
        BY <1>8, <2>2, <3>1
    <3>2. CASE t \in begun2 /\ u \in begun2
      <4> HIDE DEF m, r, on, n, names, closing, created, kind, begun1, begun2
      <4> QED
        BY <1>9, <2>2, <3>2
    <3> HIDE DEF m, r, on, n, names, closing, created, kind, begun1, begun2
    <3>3. CASE (t \in begun1 /\ u \in begun2) \/ (t \in begun2 /\ u \in begun1)
      BY <1>8, <1>9, <2>1, <2>2, <3>3
    <3> QED
      BY <3>1, <3>2, <3>3
  <2> QED
    BY <2>2
<1>11. \A s \in locked' : s \in locked \/ (begun # {} /\ s \in names)
  <2>1. begun = {} => locked' = (locked \cup taken) \ names
    <3> HIDE DEF begun, names, taken, n
    <3> QED
      BY <1>4 DEF Freed
  <2>2. locked' \subseteq locked \cup taken /\ taken \subseteq names
    <3>1. taken \subseteq names
      OBVIOUS
    <3> HIDE DEF begun, names, taken, n
    <3> QED
      BY <1>4, <3>1 DEF Freed
  <2> HIDE DEF begun, names, taken, n
  <2> QED
    BY <2>1, <2>2
<1>12. MainInv'
  <2>1. begun \in SUBSET Tasks'
    BY <1>8, <1>9
  <2>2. /\ \A t \in begun : t.call = calls' /\ t.names = names
        /\ \A t \in begun : t.step = "creating" => t.client = Own(t)
        /\ \A t \in begun : t.step = "closing" => clientOf[t.server] = t.client
        /\ \A t \in begun : t.kind \notin {"toggle", "off"}
    <3> HIDE DEF m, r, on, n, names, closing, created, kind, begun1, begun2
    <3> QED
      BY <1>4, <1>8, <1>9
  <2>3. clientOf' \in [Servers -> Clients \cup {None}]
    BY <1>4 DEF IInv, MainInv, MainTypes
  <2>4. tasks' = tasks \cup begun /\ UNCHANGED open /\ clientOf' = clientOf
    BY <1>4
  <2> HIDE DEF m, r, on, n, names, closing, created, kind, begun1, begun2, begun
  <2>5. /\ \A t \in begun : t.kind = "off" => t.step = "closing"
        /\ \A t \in begun : t.kind \in {"toggle", "off"} => t.names = {}
        /\ \A t \in begun : t.kind = "off" => clientOf'[t.server] = None
        /\ \A s \in Servers : clientOf'[s] \in {clientOf[s], None}
    BY <2>2, <2>4
  <2>6. MainInv /\ calls' = calls + 1 /\ names \in SUBSET Servers
    BY <1>3, <1>6 DEF IInv
  <2> QED
    BY <1>10, <1>11, <2>1, <2>2, <2>3, <2>4, <2>5, <2>6, Begins
<1> QED
  BY <1>1, <1>12 DEF IInv

LEMMA ReceiveToggleOnInv == ASSUME IInv, NEW w \in Windows, ReceiveToggleOn(w) PROVE IInv'
<1> DEFINE m == Head(toMain[w])
           s == m.arg.server
           n == calls + 1
           new == Task(n, s, "toggle", "creating", TRUE, <<n, s>>, {})
           begun == IF s \in known THEN {new} ELSE {}
<1>1. m \in Messages /\ m.op = "toggle" /\ WindowTypes'
  BY Received DEF IInv, ReceiveToggleOn
<1>2. s \in Servers
  BY <1>1 DEF Messages, Toggles
<1>3. /\ tasks' = tasks \cup begun /\ calls' = calls + 1 /\ calls' = n
      /\ UNCHANGED <<clientOf, open, locked>>
  BY DEF ReceiveToggleOn
<1>4. n \in 1..calls' /\ <<n, s>> \in Clients'
  BY <1>2, <1>3, CallsGrow DEF IInv, MainInv
<1>5. \A t \in begun : t = new
  OBVIOUS
<1>6. /\ new \in Tasks' /\ new.call = n /\ new.names = {} /\ new.step = "creating" /\ new.kind = "toggle"
      /\ new.client = Own(new)
  <2> HIDE DEF m, s, n
  <2> QED
    BY <1>2, <1>4 DEF Task, Tasks, Own
<1>7. MainInv'
  <2> HIDE DEF m, s, n, new, begun
  <2>1. /\ begun \in SUBSET Tasks' /\ {} \in SUBSET Servers
        /\ \A t \in begun : t.call = calls' /\ t.names = {}
        /\ \A t, u \in begun : t.server = u.server => t = u
        /\ \A t \in begun : t.step = "creating" => t.client = Own(t)
        /\ \A t \in begun : t.step = "closing" => clientOf[t.server] = t.client
        /\ \A t \in begun : t.kind = "off" => t.step = "closing"
        /\ \A t \in begun : t.kind \in {"toggle", "off"} => t.names = {}
        /\ \A t \in begun : t.kind = "off" => clientOf'[t.server] = None
    BY <1>3, <1>5, <1>6
  <2>2. /\ clientOf' \in [Servers -> Clients \cup {None}]
        /\ \A x \in Servers : clientOf'[x] \in {clientOf[x], None}
        /\ \A x \in locked' : x \in locked \/ (begun # {} /\ x \in {})
        /\ MainInv
    BY <1>3 DEF IInv, MainInv, MainTypes
  <2> QED
    BY <1>3, <2>1, <2>2, Begins
<1> QED
  BY <1>1, <1>7 DEF IInv

LEMMA ReceiveToggleOffInv == ASSUME IInv, NEW w \in Windows, ReceiveToggleOff(w) PROVE IInv'
<1> DEFINE m == Head(toMain[w])
           s == m.arg.server
           n == calls + 1
           c == clientOf[s]
           new == Task(n, s, "off", "closing", FALSE, c, {})
           begun == IF s \in known /\ c # None THEN {new} ELSE {}
<1>1. m \in Messages /\ m.op = "toggle" /\ WindowTypes'
  BY Received DEF IInv, ReceiveToggleOff
<1>2. s \in Servers
  BY <1>1 DEF Messages, Toggles
<1>3. /\ tasks' = tasks \cup begun /\ calls' = calls + 1 /\ calls' = n
      /\ UNCHANGED <<open, locked>>
      /\ clientOf' = IF s \in known THEN [clientOf EXCEPT ![s] = None] ELSE clientOf
  BY DEF ReceiveToggleOff, WithoutClient
<1>4. /\ clientOf' \in [Servers -> Clients \cup {None}]
      /\ \A x \in Servers : clientOf'[x] \in {clientOf[x], None}
      /\ s \in known => clientOf'[s] = None
      /\ c # None => c \in Clients
  <2> HIDE DEF m, s, n, new, begun
  <2> QED
    BY <1>2, <1>3 DEF IInv, MainInv, MainTypes
<1>5. n \in 1..calls' /\ Clients \subseteq Clients'
  BY <1>3, CallsGrow DEF IInv, MainInv
<1>6. \A t \in begun : t = new /\ s \in known /\ c # None
  OBVIOUS
<1>7. c # None => /\ new \in Tasks' /\ new.call = n /\ new.names = {} /\ new.step = "closing"
                  /\ new.kind = "off" /\ new.client = clientOf[s] /\ new.server = s
  <2>1. c # None => c \in Clients'
    BY <1>4, <1>5
  <2>2. c = clientOf[s]
    OBVIOUS
  <2> HIDE DEF m, s, n, c
  <2> QED
    BY <1>2, <1>5, <2>1, <2>2 DEF Task, Tasks
<1>8. MainInv'
  <2>1. c = clientOf[s]
    OBVIOUS
  <2> HIDE DEF m, s, n, c, new, begun
  <2>2. /\ begun \in SUBSET Tasks' /\ {} \in SUBSET Servers
        /\ \A t \in begun : t.call = calls' /\ t.names = {}
        /\ \A t, u \in begun : t.server = u.server => t = u
        /\ \A t \in begun : t.step = "creating" => t.client = Own(t)
        /\ \A t \in begun : t.step = "closing" => clientOf[t.server] = t.client
        /\ \A t \in begun : t.kind = "off" => t.step = "closing"
        /\ \A t \in begun : t.kind \in {"toggle", "off"} => t.names = {}
        /\ \A t \in begun : t.kind = "off" => clientOf'[t.server] = None
    BY <1>3, <1>4, <1>6, <1>7
  <2>3. \A x \in locked' : x \in locked \/ (begun # {} /\ x \in {})
    BY <1>3
  <2> QED
    BY <1>3, <1>4, <2>2, <2>3, Begins DEF IInv
<1> QED
  BY <1>1, <1>8 DEF IInv

\* A call is over: names are unlocked, or another task of it holds them.
LEMMA LockStays ==
    ASSUME MainInv, NEW t \in tasks, NEW left, left \ tasks' = {}, tasks \ {t} \subseteq left,
           \A u \in left : u.call = t.call => u.names = t.names,
           locked' = Freed(t.names, left, t.call, locked)
    PROVE  LockHasOwner'
<1> SUFFICES ASSUME NEW s \in locked' PROVE \E u \in tasks' : s \in u.names
  BY DEF LockHasOwner
<1>1. s \in locked
  BY DEF Freed
<1>2. PICK v \in tasks : s \in v.names
  BY <1>1 DEF MainInv, LockHasOwner
<1>3. CASE v # t
  BY <1>2, <1>3
<1>4. CASE v = t
  <2>1. \E u \in left : u.call = t.call
    BY <1>2, <1>4 DEF Freed
  <2> QED
    BY <1>2, <1>4, <2>1
<1> QED
  BY <1>3, <1>4

LEMMA TaskFacts ==
    ASSUME MainInv, NEW t \in tasks
    PROVE  /\ t \in Tasks /\ t.server \in Servers /\ t.client \in Clients /\ t.client # None
           /\ t.client[2] = t.server /\ Own(t) \in Clients /\ Own(t)[2] = t.server /\ Own(t) # None
<1>1. t \in Tasks /\ t.server \in Servers /\ t.client \in Clients /\ Own(t) \in Clients
  BY DEF MainInv, MainTypes, Tasks, Own, Clients
<1>2. \A c \in Clients : c # None
  BY McpAssumption DEF Clients, MainInv, MainTypes
<1> QED
  BY <1>1, <1>2 DEF MainInv, OwnServer, Own

LEMMA ClosedInv == ASSUME IInv, NEW t \in tasks, Closed(t) PROVE IInv'
<1>1. t.step = "closing" /\ open' = open \ {t.client} /\ UNCHANGED <<file, window, toMain, calls>>
  BY DEF Closed
<1>2. WindowTypes'
  BY <1>1, WindowsUnchanged DEF IInv
<1>3. CASE t.kind = "off"
  <2>1. tasks' = tasks \ {t} /\ UNCHANGED <<clientOf, known, locked>>
    BY <1>3 DEF Closed
  <2>2. \A s \in Servers : clientOf[s] # t.client
    <3>1. clientOf[t.server] # t.client
      BY <1>3 DEF IInv, MainInv, SwitchedOff
    <3> QED
      BY <3>1, TaskFacts DEF IInv, MainInv, OwnServer
  <2>3. StoredIsOpen'
    BY <1>1, <2>1, <2>2 DEF IInv, MainInv, StoredIsOpen
  <2>4. MainTypes'
    BY <1>1, <2>1 DEF IInv, MainInv, MainTypes, Tasks, Clients
  <2>5. TasksOfCall' /\ OwnServer' /\ NotYetMade' /\ SwitchedOff'
    BY <2>1 DEF IInv, MainInv, TasksOfCall, OwnServer, NotYetMade, SwitchedOff, Own, Creates
  <2>6. LockHasOwner'
    BY <1>3, <2>1 DEF IInv, MainInv, LockHasOwner, TasksOfCall
  <2> QED
    BY <1>2, <2>3, <2>4, <2>5, <2>6 DEF IInv, MainInv
<1>4. CASE t.kind # "off"
  <2> DEFINE s == t.server
             next == [t EXCEPT !.step = "creating", !.client = <<t.call, t.server>>]
             more == {[t EXCEPT !.step = "creating", !.client = <<t.call, t.server>>] :
                        k \in {t.kind} \cap {"update"}}
  <2>1. /\ tasks' = (tasks \ {t}) \cup more /\ clientOf' = [clientOf EXCEPT ![s] = None]
        /\ locked' = Freed(t.names, tasks', t.call, locked)
    BY <1>4 DEF Closed, WithoutClient
  <2>2. t \in Tasks /\ s \in Servers /\ t.client[2] = s /\ Own(t) \in Clients /\ Own(t)[2] = s
    BY TaskFacts DEF IInv
  <2>3. \A u \in more : u = next /\ t.kind = "update"
    OBVIOUS
  <2>4. /\ next \in Tasks /\ next.call = t.call /\ next.server = t.server /\ next.names = t.names
        /\ next.kind = t.kind /\ next.step = "creating" /\ next.client = Own(t) /\ Own(next) = Own(t)
    BY <2>2 DEF Tasks, Own
  <2> HIDE DEF s, next, more
  <2>5. /\ \A x \in Servers : x # s => clientOf'[x] = clientOf[x]
        /\ clientOf'[s] = None /\ clientOf' \in [Servers -> Clients \cup {None}]
    BY <2>1, <2>2 DEF IInv, MainInv, MainTypes
  <2>6. MainTypes'
    <3>1. UNCHANGED <<Tasks, Clients>>
      BY <1>1 DEF Tasks, Clients
    <3>2. tasks' \subseteq Tasks
      BY <2>1, <2>3, <2>4 DEF IInv, MainInv, MainTypes
    <3> QED
      BY <1>1, <2>5, <3>1, <3>2 DEF IInv, MainInv, MainTypes
  <2>7. TasksOfCall'
    <3>1. \A x \in tasks' : x = next \/ (x \in tasks /\ x # t)
      BY <2>1, <2>3
    <3> SUFFICES ASSUME NEW x \in tasks', NEW y \in tasks'
                 PROVE  /\ x.call = y.call => x.names = y.names /\ (x.server = y.server => x = y)
                        /\ x.kind \in {"toggle", "off"} => x.names = {}
      BY DEF TasksOfCall
    <3> QED
      BY <2>4, <3>1 DEF IInv, MainInv, TasksOfCall
  <2>8. OwnServer'
    BY <2>1, <2>2, <2>3, <2>4, <2>5 DEF IInv, MainInv, OwnServer
  <2>9. \A u \in tasks' : u.step = "closing" => u \in tasks
    BY <2>1, <2>3, <2>4
  <2>10. NotYetMade'
    <3>1. \A x \in tasks' : x.step = "creating" => x.client = Own(x)
      BY <2>1, <2>3, <2>4 DEF IInv, MainInv, NotYetMade
    <3>2. ASSUME NEW x \in tasks', Creates(x)
          PROVE  /\ clientOf'[x.server] # Own(x)
                 /\ \A u \in tasks' : u.step = "closing" => u.client # Own(x)
      <4>1. PICK y \in tasks : Creates(y) /\ Own(y) = Own(x) /\ y.server = x.server
        BY <2>1, <2>3, <2>4, <3>2 DEF Creates
      <4>2. clientOf[y.server] # Own(y) /\ \A u \in tasks : u.step = "closing" => u.client # Own(y)
        BY <4>1 DEF IInv, MainInv, NotYetMade
      <4>3. Own(y) # None /\ y.server \in Servers
        BY TaskFacts DEF IInv
      <4> QED
        BY <2>5, <2>9, <4>1, <4>2, <4>3
    <3> QED
      BY <3>1, <3>2 DEF NotYetMade, Creates, Own
  <2>11. SwitchedOff'
    <3> SUFFICES ASSUME NEW x \in tasks', x.kind = "off"
                 PROVE  x.step = "closing" /\ clientOf'[x.server] # x.client
      BY DEF SwitchedOff
    <3>1. x \in tasks
      BY <1>4, <2>1, <2>3, <2>4
    <3>2. x.client # None /\ x.server \in Servers
      BY <3>1, TaskFacts DEF IInv
    <3> QED
      BY <2>5, <3>1, <3>2 DEF IInv, MainInv, SwitchedOff
  <2>12. LockHasOwner'
    <3>1. \A u \in tasks' : u.call = t.call => u.names = t.names
      BY <2>1, <2>3, <2>4 DEF IInv, MainInv, TasksOfCall
    <3> QED
      BY <2>1, <3>1, LockStays DEF IInv
  <2>13. StoredIsOpen'
    BY <1>1, <2>2, <2>5 DEF IInv, MainInv, StoredIsOpen, OwnServer
  <2> QED
    BY <1>2, <2>6, <2>7, <2>8, <2>10, <2>11, <2>12, <2>13 DEF IInv, MainInv
<1> QED
  BY <1>3, <1>4

LEMMA CreatedInv == ASSUME IInv, NEW t \in tasks, NEW ok \in BOOLEAN, Created(t, ok) PROVE IInv'
<1> DEFINE s == t.server
<1>1. /\ t.step = "creating" /\ tasks' = tasks \ {t} /\ UNCHANGED <<file, window, toMain, calls>>
      /\ open' = IF ok THEN open \cup {t.client} ELSE open
      /\ clientOf' = [clientOf EXCEPT ![s] = IF ok THEN t.client ELSE None]
      /\ locked' = Freed(t.names, tasks \ {t}, t.call, locked)
  BY DEF Created, FreedAfter
<1>2. WindowTypes'
  BY <1>1, WindowsUnchanged DEF IInv
<1>3. t \in Tasks /\ s \in Servers /\ t.client \in Clients /\ t.client # None /\ t.client[2] = s /\ t.client = Own(t)
  BY <1>1, TaskFacts DEF IInv, MainInv, NotYetMade
<1> HIDE DEF s
<1>4. /\ \A x \in Servers : x # s => clientOf'[x] = clientOf[x]
      /\ clientOf'[s] = IF ok THEN t.client ELSE None
      /\ clientOf' \in [Servers -> Clients \cup {None}]
  BY <1>1, <1>3 DEF IInv, MainInv, MainTypes
<1>5. MainTypes'
  <2>1. UNCHANGED <<Tasks, Clients>>
    BY <1>1 DEF Tasks, Clients
  <2> QED
    BY <1>1, <1>3, <1>4, <2>1 DEF IInv, MainInv, MainTypes
<1>6. TasksOfCall'
  BY <1>1 DEF IInv, MainInv, TasksOfCall
<1>7. OwnServer'
  BY <1>1, <1>3, <1>4 DEF IInv, MainInv, OwnServer
<1>8. NotYetMade'
  <2> SUFFICES ASSUME NEW x \in tasks', Creates(x)
               PROVE  clientOf'[x.server] # Own(x)
    BY <1>1 DEF IInv, MainInv, NotYetMade, Creates, Own
  <2>1. x \in tasks /\ x # t /\ Own(x) # None /\ x.server \in Servers
    BY <1>1, TaskFacts DEF IInv
  <2>2. Own(x) # Own(t)
    <3>1. x.call # t.call \/ x.server # t.server
      BY <2>1 DEF IInv, MainInv, TasksOfCall
    <3> QED
      BY <3>1 DEF Own
  <2>3. clientOf[x.server] # Own(x)
    BY <2>1 DEF IInv, MainInv, NotYetMade
  <2> QED
    BY <1>3, <1>4, <2>1, <2>2, <2>3
<1>9. SwitchedOff'
  <2> SUFFICES ASSUME NEW x \in tasks', x.kind = "off"
               PROVE  x.step = "closing" /\ clientOf'[x.server] # x.client
    BY DEF SwitchedOff
  <2>1. x \in tasks /\ x.step = "closing" /\ clientOf[x.server] # x.client
    BY <1>1 DEF IInv, MainInv, SwitchedOff
  <2>2. x.client # None /\ x.server \in Servers
    BY <2>1, TaskFacts DEF IInv
  <2>3. x.client # Own(t)
    BY <1>1, <2>1 DEF IInv, MainInv, NotYetMade, Creates
  <2> QED
    BY <1>3, <1>4, <2>1, <2>2, <2>3
<1>10. LockHasOwner'
  <2>1. \A u \in tasks \ {t} : u.call = t.call => u.names = t.names
    BY DEF IInv, MainInv, TasksOfCall
  <2> QED
    BY <1>1, <2>1, LockStays DEF IInv
<1>11. StoredIsOpen'
  BY <1>1, <1>3, <1>4 DEF IInv, MainInv, StoredIsOpen
<1> QED
  BY <1>2, <1>5, <1>6, <1>7, <1>8, <1>9, <1>10, <1>11 DEF IInv, MainInv

LEMMA ToggledOnInv == ASSUME IInv, NEW t \in tasks, NEW ok \in BOOLEAN, ToggledOn(t, ok) PROVE IInv'
<1>1. /\ t.kind = "toggle" /\ tasks' = tasks \ {t}
      /\ open' = IF ok THEN open \cup {t.client} ELSE open
      /\ UNCHANGED <<file, window, toMain, calls, clientOf, locked>>
  BY DEF ToggledOn
<1>2. WindowTypes'
  BY <1>1, WindowsUnchanged DEF IInv
<1>3. MainTypes'
  <2>1. UNCHANGED <<Tasks, Clients>>
    BY <1>1 DEF Tasks, Clients
  <2> QED
    BY <1>1, <2>1, TaskFacts DEF IInv, MainInv, MainTypes
<1>4. TasksOfCall' /\ OwnServer' /\ NotYetMade' /\ SwitchedOff'
  BY <1>1 DEF IInv, MainInv, TasksOfCall, OwnServer, NotYetMade, SwitchedOff, Own, Creates
<1>5. LockHasOwner'
  BY <1>1 DEF IInv, MainInv, LockHasOwner, TasksOfCall
<1>6. StoredIsOpen'
  BY <1>1 DEF IInv, MainInv, StoredIsOpen
<1> QED
  BY <1>2, <1>3, <1>4, <1>5, <1>6 DEF IInv, MainInv

-----------------------------------------------------------------------------
LEMMA NextInv == IInv /\ [Next]_vars => IInv'
<1> SUFFICES ASSUME IInv, [Next]_vars PROVE IInv'
  OBVIOUS
<1>1. CASE EditConfig
  <2>1. CASE Windows = {}
    <3>1. UNCHANGED main /\ MainInv'
      BY <1>1, MainUnchanged DEF EditConfig, IInv
    <3> QED
      BY <1>1, <3>1 DEF EditConfig, IInv, WindowTypes
  <2>2. CASE Windows # {}
    BY <1>1, <2>2, WindowInv
  <2> QED
    BY <2>1, <2>2
<1>2. ASSUME NEW w \in Windows, Process(w) PROVE IInv'
  BY <1>2, WindowInv, ReceiveRefreshInv, ReceiveToggleOnInv, ReceiveToggleOffInv DEF Process
<1>3. ASSUME NEW w \in Windows, Reload(w) \/ \E s \in Servers : Toggle(w, s) PROVE IInv'
  BY <1>3, WindowInv
<1>4. ASSUME NEW t \in tasks, Settles(t) PROVE IInv'
  BY <1>4, ClosedInv, CreatedInv, ToggledOnInv DEF Settles
<1>5. CASE UNCHANGED vars
  BY <1>5, MainUnchanged DEF vars, file, window, IInv, WindowTypes
<1> QED
  BY <1>1, <1>2, <1>3, <1>4, <1>5 DEF Next

LEMMA Invariance == Spec => []IInv
<1> QED
  BY InitInv, NextInv, PTL DEF Spec

\* A locked server name belongs to a refresh that is under way, for every set of
\* windows and servers and whatever refreshes and switches overlap
\* (MCPChannel._refreshMCPServers, which unlocks also the names it skipped).
THEOREM LocksHaveOwners == Spec => []LockHasOwner
<1>1. IInv => LockHasOwner
  BY DEF IInv, MainInv
<1> QED
  BY <1>1, Invariance, PTL

\* The client that tool calls reach is connected until its closing settles: no closing,
\* creation or switch of another call disconnects it (_createClient, _closeClient,
\* _toggleMCPServer).
THEOREM StoredClientsAreOpen == Spec => []StoredIsOpen
<1>1. IInv => StoredIsOpen
  BY DEF IInv, MainInv
<1> QED
  BY <1>1, Invariance, PTL

-----------------------------------------------------------------------------
\* What a window is told of a server, and what it has understood of it so far.

Events == [server : Servers, new : States]

OfferTypes ==
    /\ readable \in BOOLEAN
    /\ shown \in [Windows -> [Servers -> States]]
    /\ reading \in [Windows -> Nat]
    /\ toWindow \in [Windows -> Seq(Events)]
    /\ known \subseteq Servers /\ locked \subseteq Servers
    /\ actions \in 0..MaxActions

\* The client of a switch is connected, and neither kept, nor closed, nor to be made again.
SpareInv ==
    /\ spare \subseteq open
    /\ \A t \in tasks :
        /\ Own(t) \notin spare
        /\ t.step = "closing" => t.client \notin spare
        /\ t.kind = "toggle" => t.step = "creating"
    /\ \A s \in Servers : clientOf[s] \notin spare

\* The tools of client c reach it, if the channel keeps kept, switches made spares, and
\* the clients on are connected.
Reaches(c, s, kept, spares, on) == c # None => IF c \in spares THEN c \in on ELSE c = kept[s]
Right(c, s) == Reaches(c, s, clientOf, spare, open)

LastOn(q, i, s) == q[i].server = s /\ \A j \in DOMAIN q : j > i => q[j].server # s

\* The last event on its way about a server is right, and where none is, what is shown.
Believes(w, s) ==
    /\ ~InFlight(w, s) => Right(shown[w][s].tools, s)
    /\ \A i \in DOMAIN toWindow[w] : LastOn(toWindow[w], i, s) => Right(toWindow[w][i].new.tools, s)

BeliefsOK == \A w \in Windows, s \in Servers : Believes(w, s)

OffersOK == OfferTypes /\ SpareInv /\ BeliefsOK

-----------------------------------------------------------------------------
LEMMA InitOffers == Init => OffersOK
<1> SUFFICES ASSUME Init PROVE OffersOK
  OBVIOUS
<1>1. Absent \in States /\ Absent.tools = None
  BY DEF Absent, Shown, States
<1>2. OfferTypes
  <2>1. << >> \in Seq(Events)
    OBVIOUS
  <2> QED
    BY <1>1, <2>1, McpAssumption DEF Init, OfferTypes
<1>3. SpareInv
  BY DEF Init, SpareInv
<1>4. BeliefsOK
  BY <1>1 DEF Init, BeliefsOK, Believes, Right, Reaches
<1> QED
  BY <1>2, <1>3, <1>4 DEF OffersOK

\* SetToSeq of the community modules: the names come in some order, none is left out.
LEMMA DeletedEvents ==
    ASSUME NEW names \in SUBSET Servers
    PROVE  /\ Deleted(names) \in Seq({Event(s, Absent) : s \in names})
           /\ names # {} => Len(Deleted(names)) > 0
<1> DEFINE f == [s \in names |-> Event(s, Absent)]
           S == {Event(s, Absent) : s \in names}
           N == 1..Cardinality(S)
<1>1. IsFiniteSet(names)
  BY FS_Subset, McpAssumption
<1>2. f \in Surjection(names, S)
  BY DEF Surjection
<1>3. IsFiniteSet(S)
  <2> HIDE DEF f, S
  <2> QED
    BY <1>1, <1>2, FS_Surjection
<1>4. Cardinality(S) \in Nat /\ ExistsBijection(N, S)
  <2> HIDE DEF f, S
  <2> QED
    BY <1>3, FS_CardinalityType
<1>5. \E g \in [N -> S] : IsInjective(g)
  <2> HIDE DEF S, N
  <2> QED
    BY <1>4 DEF ExistsBijection, Bijection, Injection
<1>6. Deleted(names) \in [N -> S]
  <2> HIDE DEF N
  <2>1. Deleted(names) = CHOOSE g \in [1..Cardinality(S) -> S] : IsInjective(g)
    BY DEF Deleted, SetToSeq
  <2>2. Deleted(names) = CHOOSE g \in [N -> S] : IsInjective(g)
    BY <2>1 DEF N
  <2> HIDE DEF S
  <2> QED
    BY <1>5, <2>2
<1>7. Deleted(names) \in Seq(S) /\ Len(Deleted(names)) = Cardinality(S)
  <2> HIDE DEF S
  <2> QED
    BY <1>4, <1>6 DEF N
<1>8. names # {} => Cardinality(S) > 0
  <2>1. names # {} => S # {}
    OBVIOUS
  <2> HIDE DEF S
  <2> QED
    BY <1>3, <1>4, <2>1, FS_EmptySet
<1> QED
  BY <1>7, <1>8

\* Events that every window is sent: they are right, and of the servers they do not name
\* what was right stays so.
LEMMA BeliefsFired ==
    ASSUME OffersOK, NEW ev \in Seq([server : Servers, new : States']), Fire(ev), shown' = shown,
           \A i \in DOMAIN ev : Reaches(ev[i].new.tools, ev[i].server, clientOf', spare', open'),
           \A s \in Servers : \A c : (\A i \in DOMAIN ev : ev[i].server # s) /\ Right(c, s)
               => Reaches(c, s, clientOf', spare', open')
    PROVE  BeliefsOK'
<1> SUFFICES ASSUME NEW w \in Windows, NEW s \in Servers PROVE Believes(w, s)'
  BY DEF BeliefsOK
<1> DEFINE q == toWindow[w]
<1>1. q \in Seq(Events) /\ toWindow'[w] = q \o ev /\ Believes(w, s)
  BY DEF Fire, OffersOK, OfferTypes, BeliefsOK
<1>2. /\ DOMAIN q = 1..Len(q) /\ DOMAIN ev = 1..Len(ev) /\ DOMAIN toWindow'[w] = 1..(Len(q) + Len(ev))
      /\ Len(q) \in Nat /\ Len(ev) \in Nat
      /\ \A i \in DOMAIN q : toWindow'[w][i] = q[i]
      /\ \A i \in 1..(Len(q) + Len(ev)) : i > Len(q) => i - Len(q) \in DOMAIN ev /\ toWindow'[w][i] = ev[i - Len(q)]
      /\ \A i \in DOMAIN ev : toWindow'[w][i + Len(q)] = ev[i]
  <2> HIDE DEF q
  <2> QED
    BY <1>1
<1> HIDE DEF q
<1>3. ASSUME ~InFlight(w, s)' PROVE Right(shown[w][s].tools, s)'
  <2>1. \A i \in DOMAIN ev : ev[i].server # s
    <3> SUFFICES ASSUME NEW i \in DOMAIN ev PROVE ev[i].server # s
      OBVIOUS
    <3>1. i + Len(q) \in DOMAIN toWindow'[w] /\ toWindow'[w][i + Len(q)] = ev[i]
      BY <1>2
    <3> QED
      BY <1>3, <3>1 DEF InFlight
  <2>2. ~InFlight(w, s)
    BY <1>2, <1>3 DEF InFlight, q
  <2>3. Right(shown[w][s].tools, s)
    BY <1>1, <2>2 DEF Believes
  <2> QED
    BY <2>1, <2>3 DEF Right
<1>4. ASSUME NEW i \in DOMAIN toWindow'[w], LastOn(toWindow'[w], i, s)
      PROVE  Reaches(toWindow'[w][i].new.tools, s, clientOf', spare', open')
  <2>1. CASE i > Len(q)
    BY <1>2, <1>4, <2>1 DEF LastOn
  <2>2. CASE ~(i > Len(q))
    <3>1. i \in DOMAIN q
      BY <1>2, <2>2
    <3>2. \A j \in DOMAIN ev : ev[j].server # s
      <4> SUFFICES ASSUME NEW j \in DOMAIN ev PROVE ev[j].server # s
        OBVIOUS
      <4>1. j + Len(q) \in DOMAIN toWindow'[w] /\ j + Len(q) > i /\ toWindow'[w][j + Len(q)] = ev[j]
        BY <1>2, <2>2
      <4> QED
        BY <1>4, <4>1 DEF LastOn
    <3>3. LastOn(q, i, s)
      <4>1. \A j \in DOMAIN q : j \in DOMAIN toWindow'[w] /\ toWindow'[w][j] = q[j]
        BY <1>2
      <4> QED
        BY <1>4, <3>1, <4>1 DEF LastOn
    <3>4. Right(q[i].new.tools, s)
      BY <1>1, <3>1, <3>3 DEF Believes, q
    <3> QED
      BY <1>2, <3>1, <3>2, <3>4
  <2> QED
    BY <2>1, <2>2
<1> QED
  BY <1>3, <1>4 DEF Believes, Right

\* Nothing is sent, and what was right stays so; a window may forget tools.
LEMMA BeliefsKept ==
    ASSUME BeliefsOK, toWindow' = toWindow,
           \A s \in Servers : \A c : Right(c, s) => Reaches(c, s, clientOf', spare', open'),
           \A w \in Windows, s \in Servers : shown'[w][s].tools \in {shown[w][s].tools, None}
    PROVE  BeliefsOK'
<1> SUFFICES ASSUME NEW w \in Windows, NEW s \in Servers PROVE Believes(w, s)'
  BY DEF BeliefsOK
<1>1. Believes(w, s)
  BY DEF BeliefsOK
<1>2. Reaches(None, s, clientOf', spare', open')
  BY DEF Reaches
<1> QED
  BY <1>1, <1>2 DEF Believes, Right, InFlight, LastOn

LEMMA QueueGrows == ASSUME NEW S, NEW T, S \subseteq T, NEW q \in Seq(S) PROVE q \in Seq(T)
<1>1. DOMAIN q = 1..Len(q) /\ Len(q) \in Nat /\ \A i \in 1..Len(q) : q[i] \in T
  OBVIOUS
<1>2. q = [i \in 1..Len(q) |-> q[i]]
  OBVIOUS
<1> QED
  BY <1>1, <1>2

\* States of the clients so far are states of the clients of later calls.
LEMMA StatesGrow ==
    ASSUME MainTypes, OfferTypes, calls' \in {calls, calls + 1}
    PROVE  /\ States \subseteq States' /\ Clients \subseteq Clients'
           /\ shown \in [Windows -> [Servers -> States']]
           /\ \A w \in Windows : toWindow[w] \in Seq([server : Servers, new : States'])
<1>1. Clients \subseteq Clients'
  BY DEF Clients, MainTypes
<1>2. States \subseteq States'
  BY <1>1 DEF States
<1>3. shown \in [Windows -> [Servers -> States']]
  BY <1>2 DEF OfferTypes
<1>4. ASSUME NEW w \in Windows PROVE toWindow[w] \in Seq([server : Servers, new : States'])
  <2>1. toWindow[w] \in Seq(Events)
    BY DEF OfferTypes
  <2>2. \A e \in Events : e \in [server : Servers, new : States']
    BY <1>2 DEF Events
  <2> QED
    BY <2>1, <2>2, QueueGrows
<1> QED
  BY <1>1, <1>2, <1>3, <1>4

\* A step of the main process that sends every window the events ev.
LEMMA FiredTypes ==
    ASSUME MainTypes, OfferTypes, calls' \in {calls, calls + 1}, shown' = shown,
           NEW ev \in Seq([server : Servers, new : States']), Fire(ev) \/ toWindow' = toWindow
    PROVE  shown' \in [Windows -> [Servers -> States']] /\ toWindow' \in [Windows -> Seq(Events')]
<1>1. Events' = [server : Servers, new : States']
  BY DEF Events
<1>2. \A w \in Windows : toWindow[w] \in Seq(Events')
  BY <1>1, StatesGrow
<1>3. \A w \in Windows : toWindow[w] \o ev \in Seq(Events')
  BY <1>1, <1>2, ConcatProperties
<1>4. toWindow' \in [Windows -> Seq(Events')]
  BY <1>2, <1>3 DEF Fire, OfferTypes
<1> QED
  BY <1>4, StatesGrow

\* A call begins: its tasks make clients of its own, and close the ones that are kept.
LEMMA SpareBegins ==
    ASSUME IInv, IInv', SpareInv, calls' = calls + 1, UNCHANGED <<open, spare>>,
           \A s \in Servers : clientOf'[s] \in {clientOf[s], None},
           \A t \in tasks' : t \in tasks \/
               /\ t.call = calls'
               /\ t.step = "closing" => t.client = clientOf[t.server]
               /\ t.kind = "toggle" => t.step = "creating"
    PROVE  SpareInv'
<1>1. spare \subseteq Clients /\ None \notin spare
  <2>1. spare \subseteq Clients
    BY DEF SpareInv, IInv, MainInv, MainTypes
  <2> QED
    BY <2>1, McpAssumption DEF Clients, IInv, MainInv, MainTypes
<1>2. \A s \in Servers : clientOf'[s] \notin spare'
  BY <1>1 DEF SpareInv
<1>3. ASSUME NEW t \in tasks'
      PROVE  /\ Own(t) \notin spare' /\ (t.step = "closing" => t.client \notin spare')
             /\ t.kind = "toggle" => t.step = "creating"
  <2>1. CASE t \in tasks
    BY <2>1 DEF SpareInv
  <2>2. CASE t \notin tasks
    <3>1. t.server \in Servers /\ Own(t) = <<calls', t.server>>
      BY <2>2, TaskFacts DEF IInv, MainInv, MainTypes, Tasks, Own
    <3>2. Own(t) \notin spare
      BY <1>1, <3>1, CallsGrow DEF IInv, MainInv
    <3> QED
      BY <2>2, <3>1, <3>2 DEF SpareInv
  <2> QED
    BY <2>1, <2>2
<1> QED
  BY <1>2, <1>3 DEF SpareInv, Own

-----------------------------------------------------------------------------
\* The windows.

LEMMA SameSpares == ASSUME SpareInv, UNCHANGED main PROVE SpareInv'
BY DEF main, SpareInv, Own

LEMMA SameStates == UNCHANGED main => States' = States /\ Events' = Events
<1> SUFFICES ASSUME UNCHANGED main PROVE States' = States /\ Events' = Events
  OBVIOUS
<1>1. Clients' = Clients
  BY DEF main, Clients
<1>2. States' = States
  BY <1>1 DEF States
<1> QED
  BY <1>2 DEF Events

\* A window forgets tools, and is told nothing.
LEMMA ForgetTools ==
    ASSUME OffersOK, UNCHANGED <<main, toWindow>>, shown' \in [Windows -> [Servers -> States]],
           \A v \in Windows, s \in Servers : shown'[v][s].tools \in {shown[v][s].tools, None},
           readable' \in BOOLEAN, reading' \in [Windows -> Nat], actions' \in 0..MaxActions
    PROVE  OffersOK'
<1>1. SpareInv' /\ States' = States /\ Events' = Events
  BY SameSpares, SameStates DEF OffersOK
<1>2. OfferTypes'
  BY <1>1 DEF main, OffersOK, OfferTypes
<1>3. BeliefsOK'
  <2>1. \A s \in Servers : \A c : Right(c, s) => Reaches(c, s, clientOf', spare', open')
    BY DEF main, Right
  <2> QED
    BY <2>1, BeliefsKept DEF OffersOK
<1> QED
  BY <1>1, <1>2, <1>3 DEF OffersOK

LEMMA QuietStates ==
    /\ Absent \in States /\ Absent.tools = None /\ Absent.status = "absent"
    /\ Loading \in States /\ Loading.tools = None
BY DEF Absent, Loading, Shown, States

LEMMA DeliverOffers == ASSUME OffersOK, NEW w \in Windows, Deliver(w) PROVE OffersOK'
<1> DEFINE q == toWindow[w]
           e == Head(q)
<1>1. /\ UNCHANGED main /\ q # << >>
      /\ shown' = [shown EXCEPT ![w][e.server] = e.new] /\ toWindow' = [toWindow EXCEPT ![w] = Tail(q)]
      /\ UNCHANGED <<readable, reading, actions>>
  BY DEF Deliver, file
<1>2. q \in Seq(Events) /\ e \in Events /\ Tail(q) \in Seq(Events)
  BY <1>1, QueueTypes DEF OffersOK, OfferTypes
<1>3. e.server \in Servers /\ e.new \in States
  BY <1>2 DEF Events
<1>4. SpareInv' /\ States' = States /\ Events' = Events
  BY <1>1, SameSpares, SameStates DEF OffersOK
<1>5. OfferTypes'
  <2> HIDE DEF q, e
  <2> QED
    BY <1>1, <1>2, <1>3, <1>4 DEF main, OffersOK, OfferTypes
<1>6. /\ shown'[w][e.server] = e.new /\ toWindow'[w] = Tail(q)
      /\ \A s \in Servers : s # e.server => shown'[w][s] = shown[w][s]
      /\ \A v \in Windows : v # w => shown'[v] = shown[v] /\ toWindow'[v] = toWindow[v]
  <2>1. shown[w] \in [Servers -> States]
    BY DEF OffersOK, OfferTypes
  <2> HIDE DEF q, e
  <2> QED
    BY <1>1, <1>3, <2>1 DEF OffersOK, OfferTypes
<1>7. UNCHANGED <<clientOf, spare, open>>
  BY <1>1 DEF main
<1>8. /\ e = q[1] /\ DOMAIN q = 1..Len(q) /\ Len(q) \in Nat /\ Len(q) > 0
      /\ DOMAIN Tail(q) = 1..(Len(q) - 1) /\ \A i \in 1..(Len(q) - 1) : Tail(q)[i] = q[i + 1]
  <2> HIDE DEF q
  <2> QED
    BY <1>1, <1>2
<1>9. BeliefsOK'
  <2> SUFFICES ASSUME NEW v \in Windows, NEW s \in Servers PROVE Believes(v, s)'
    BY DEF BeliefsOK
  <2>1. Believes(v, s)
    BY DEF OffersOK, BeliefsOK
  <2>2. CASE v # w
    BY <1>6, <1>7, <2>1, <2>2 DEF Believes, Right, InFlight, LastOn
  <2>3. CASE v = w
    <3>1. \A i \in DOMAIN q : LastOn(q, i, s) => Right(q[i].new.tools, s)
      BY <2>1, <2>3 DEF Believes
    <3>2. (\A i \in DOMAIN q : q[i].server # s) => Right(shown[w][s].tools, s)
      BY <2>1, <2>3 DEF Believes, InFlight
    <3> HIDE DEF q
    <3>3. ASSUME \A i \in DOMAIN Tail(q) : Tail(q)[i].server # s PROVE Right(shown'[w][s].tools, s)
      <4>0. \A j \in DOMAIN q : j > 1 => q[j].server # s
        <5> SUFFICES ASSUME NEW j \in DOMAIN q, j > 1 PROVE q[j].server # s
          OBVIOUS
        <5>1. j - 1 \in 1..(Len(q) - 1) /\ Tail(q)[j - 1] = q[j]
          BY <1>8
        <5> QED
          BY <1>8, <3>3, <5>1
      <4>1. CASE e.server = s
        <5>1. 1 \in DOMAIN q /\ LastOn(q, 1, s)
          BY <1>8, <4>0, <4>1 DEF LastOn
        <5> QED
          BY <1>6, <1>8, <3>1, <4>1, <5>1
      <4>2. CASE e.server # s
        <5>1. \A j \in DOMAIN q : q[j].server # s
          BY <1>8, <4>0, <4>2
        <5> QED
          BY <1>6, <3>2, <4>2, <5>1
      <4> QED
        BY <4>1, <4>2
    <3>4. ASSUME NEW i \in DOMAIN Tail(q), LastOn(Tail(q), i, s) PROVE Right(Tail(q)[i].new.tools, s)
      <4>1. i + 1 \in DOMAIN q /\ Tail(q)[i] = q[i + 1]
        BY <1>8
      <4>2. \A j \in DOMAIN q : j > i + 1 => q[j].server # s
        <5> SUFFICES ASSUME NEW j \in DOMAIN q, j > i + 1 PROVE q[j].server # s
          OBVIOUS
        <5>1. j - 1 \in 1..(Len(q) - 1) /\ j - 1 > i /\ Tail(q)[j - 1] = q[j]
          BY <1>8
        <5> QED
          BY <1>8, <3>4, <5>1 DEF LastOn
      <4>3. LastOn(q, i + 1, s)
        BY <3>4, <4>1, <4>2 DEF LastOn
      <4> QED
        BY <3>1, <4>1, <4>3
    <3>5. \A c : Right(c, s)' <=> Right(c, s)
      BY <1>7 DEF Right
    <3> QED
      BY <1>6, <1>7, <2>3, <3>3, <3>4 DEF Believes, Right, InFlight
  <2> QED
    BY <2>2, <2>3
<1> QED
  BY <1>4, <1>5, <1>9 DEF OffersOK

LEMMA ReloadOffers == ASSUME OffersOK, NEW w \in Windows, Reload(w) PROVE OffersOK'
<1>1. /\ UNCHANGED main /\ readable' = readable
      /\ shown' = [shown EXCEPT ![w] = [s \in Servers |-> Absent]]
      /\ reading' = [reading EXCEPT ![w] = 1] /\ toWindow' = [toWindow EXCEPT ![w] = << >>]
      /\ actions < MaxActions /\ actions' = actions + 1
  BY DEF Reload, Acts, file
<1>2. SpareInv' /\ States' = States /\ Events' = Events
  BY <1>1, SameSpares, SameStates DEF OffersOK
<1>3. << >> \in Seq(Events)
  OBVIOUS
<1>4. OfferTypes'
  BY <1>1, <1>2, <1>3, QuietStates, McpAssumption DEF main, OffersOK, OfferTypes
<1>5. BeliefsOK'
  <2> SUFFICES ASSUME NEW v \in Windows, NEW s \in Servers PROVE Believes(v, s)'
    BY DEF BeliefsOK
  <2>1. UNCHANGED <<clientOf, spare, open>>
    BY <1>1 DEF main
  <2>2. CASE v # w
    <3>1. shown'[v] = shown[v] /\ toWindow'[v] = toWindow[v]
      BY <1>1, <2>2 DEF OffersOK, OfferTypes
    <3> QED
      BY <2>1, <3>1 DEF OffersOK, BeliefsOK, Believes, Right, InFlight, LastOn
  <2>3. CASE v = w
    <3>1. shown'[w][s] = Absent /\ toWindow'[w] = << >>
      BY <1>1 DEF OffersOK, OfferTypes
    <3> QED
      BY <2>3, <3>1, QuietStates DEF Believes, Right, Reaches
  <2> QED
    BY <2>2, <2>3
<1> QED
  BY <1>2, <1>4, <1>5 DEF OffersOK

LEMMA WindowOffers ==
    ASSUME IInv, OffersOK, NEW w \in Windows,
           \/ \E s \in Servers : Toggle(w, s)
           \/ ReadConfig(w) \/ RemoveStates(w) \/ SendRefresh(w) \/ SendToggle(w)
    PROVE  OffersOK'
<1>1. UNCHANGED <<main, toWindow>>
  BY DEF Toggle, ReadConfig, RemoveStates, SendRefresh, SendToggle, Stored
<1>2. /\ readable \in BOOLEAN /\ reading \in [Windows -> Nat] /\ actions \in 0..MaxActions
      /\ shown \in [Windows -> [Servers -> States]] /\ shown[w] \in [Servers -> States]
  BY DEF OffersOK, OfferTypes
<1>3. ASSUME NEW s \in Servers, Toggle(w, s) PROVE OffersOK'
  <2>1. readable' = readable /\ reading' = reading /\ actions' \in 0..MaxActions
    BY <1>2, <1>3, McpAssumption DEF Toggle, Acts, file
  <2>2. shown' = [shown EXCEPT ![w][s] = Loading]
    BY <1>3 DEF Toggle
  <2>3. shown' \in [Windows -> [Servers -> States]]
    BY <1>2, <2>2, QuietStates
  <2>4. \A v \in Windows, x \in Servers : shown'[v][x].tools \in {shown[v][x].tools, None}
    BY <1>2, <2>2, QuietStates
  <2> QED
    BY <1>1, <1>2, <2>1, <2>3, <2>4, ForgetTools
<1>4. CASE ReadConfig(w)
  <2>1. readable' = readable /\ shown' = shown /\ actions' = actions
    BY <1>4 DEF ReadConfig, file
  <2>2. reading' \in [Windows -> Nat]
    BY <1>2, <1>4 DEF ReadConfig
  <2> QED
    BY <1>1, <1>2, <2>1, <2>2, ForgetTools
<1>5. CASE SendRefresh(w)
  <2> DEFINE c == Head(storing[w]).arg.config
  <2>1. readable' = readable /\ reading' = reading /\ actions' = actions
    BY <1>5 DEF SendRefresh, Stored, file
  <2>2. shown' = [shown EXCEPT ![w] = [s \in Servers |-> IF s \in c THEN Loading ELSE shown[w][s]]]
    BY <1>5 DEF SendRefresh
  <2> HIDE DEF c
  <2>3. shown' \in [Windows -> [Servers -> States]]
    BY <1>2, <2>2, QuietStates
  <2>4. \A v \in Windows, x \in Servers : shown'[v][x].tools \in {shown[v][x].tools, None}
    BY <1>2, <2>2, QuietStates
  <2> QED
    BY <1>1, <1>2, <2>1, <2>3, <2>4, ForgetTools
<1>6. CASE RemoveStates(w) \/ SendToggle(w)
  <2>1. readable' = readable /\ reading' = reading /\ actions' = actions /\ shown' = shown
    BY <1>6 DEF RemoveStates, SendToggle, Stored, file
  <2> QED
    BY <1>1, <1>2, <2>1, ForgetTools
<1> QED
  BY <1>3, <1>4, <1>5, <1>6

-----------------------------------------------------------------------------
\* The main process.

\* A step that sends every window the events ev, which say nothing wrong.
LEMMA MainOffers ==
    ASSUME MainTypes, OffersOK, SpareInv', calls' \in {calls, calls + 1},
           UNCHANGED <<file, window, actions>>, known' \subseteq Servers, locked' \subseteq Servers,
           NEW ev \in Seq([server : Servers, new : States']), Fire(ev),
           \A i \in DOMAIN ev : Reaches(ev[i].new.tools, ev[i].server, clientOf', spare', open'),
           \A s \in Servers : \A c : (\A i \in DOMAIN ev : ev[i].server # s) /\ Right(c, s)
               => Reaches(c, s, clientOf', spare', open')
    PROVE  OffersOK'
<1>1. shown' = shown /\ readable' = readable /\ reading' = reading
  BY DEF window, file
<1>2. OfferTypes'
  BY <1>1, FiredTypes DEF OffersOK, OfferTypes
<1>3. BeliefsOK'
  BY <1>1, BeliefsFired
<1> QED
  BY <1>2, <1>3 DEF OffersOK

\* A step that tells the windows nothing: no event is an event sequence too.
LEMMA SilentOffers ==
    ASSUME MainTypes, OffersOK, SpareInv', calls' \in {calls, calls + 1},
           UNCHANGED <<file, window, actions, toWindow>>, known' \subseteq Servers, locked' \subseteq Servers,
           \A s \in Servers : \A c : Right(c, s) => Reaches(c, s, clientOf', spare', open')
    PROVE  OffersOK'
<1> DEFINE ev == << >>
<1>1. ASSUME NEW w \in Windows PROVE toWindow[w] \o << >> = toWindow[w]
  <2>1. toWindow[w] \in Seq(Events)
    BY DEF OffersOK, OfferTypes
  <2> QED
    BY <2>1
<1>2. Fire(ev)
  BY <1>1 DEF Fire, OffersOK, OfferTypes
<1>3. ev \in Seq([server : Servers, new : States']) /\ DOMAIN ev = {}
  OBVIOUS
<1> HIDE DEF ev
<1> QED
  BY <1>2, <1>3, MainOffers

LEMMA ReceiveRefreshOffers ==
    ASSUME IInv, IInv', OffersOK, NEW w \in Windows, ReceiveRefresh(w) PROVE OffersOK'
<1> DEFINE m == Head(toMain[w])
           r == m.arg
           on == m.isOn
           n == calls + 1
           names == r.config \cup r.removed
           taken == names \ locked
           closing == {s \in taken \ r.added : clientOf[s] # None}
           gone == (taken \ r.added) \ closing
           created == (taken \ closing) \ r.removed
           kind(s) == CASE s \in r.removed -> "remove" [] s \in r.added -> "add" [] OTHER -> "update"
           begun1 == {Task(n, s, kind(s), "closing", on[s], clientOf[s], names) : s \in closing}
           begun2 == {Task(n, s, kind(s), "creating", on[s], <<n, s>>, names) : s \in created}
           begun == begun1 \cup begun2
<1>1. m \in Messages /\ m.op = "refresh"
  BY Received DEF IInv, ReceiveRefresh
<1>2. r \in Refreshes
  BY <1>1 DEF Messages
<1>3. names \in SUBSET Servers /\ taken \subseteq Servers /\ gone \in SUBSET Servers
  BY <1>2 DEF Refreshes
<1>4. /\ tasks' = tasks \cup begun /\ locked' = Freed(names, begun, n, locked \cup taken)
      /\ calls' = calls + 1 /\ calls' = n /\ known' = known \ gone /\ Fire(Deleted(gone))
      /\ UNCHANGED <<clientOf, open, spare, file, window, actions>>
  BY DEF ReceiveRefresh
<1>5. \A t \in tasks' : t \in tasks \/
         /\ t.call = calls' /\ t.kind # "toggle"
         /\ t.step = "closing" => t.client = clientOf[t.server]
  <2>1. \A s : kind(s) # "toggle"
    OBVIOUS
  <2>2. \A t \in begun1 : t.call = n /\ t.kind # "toggle" /\ t.client = clientOf[t.server]
    <3> HIDE DEF m, r, on, n, names, closing, kind
    <3> QED
      BY <2>1 DEF Task
  <2>3. \A t \in begun2 : t.call = n /\ t.kind # "toggle" /\ t.step = "creating"
    <3> HIDE DEF m, r, on, n, names, created, kind
    <3> QED
      BY <2>1 DEF Task
  <2> HIDE DEF m, r, on, n, names, closing, created, kind, begun1, begun2
  <2> QED
    BY <1>4, <2>2, <2>3
<1>6. SpareInv'
  <2>1. \A s \in Servers : clientOf'[s] \in {clientOf[s], None}
    BY <1>4
  <2> HIDE DEF m, r, on, n, names, taken, closing, gone, created, kind, begun
  <2> QED
    BY <1>4, <1>5, <2>1, SpareBegins DEF OffersOK
<1>7. known' \subseteq Servers /\ locked' \subseteq Servers
  <2> HIDE DEF m, r, on, n, names, taken, closing, gone, created, kind, begun
  <2> QED
    BY <1>3, <1>4 DEF Freed, OffersOK, OfferTypes
<1>8. /\ Deleted(gone) \in Seq([server : Servers, new : States'])
      /\ \A i \in DOMAIN Deleted(gone) : Deleted(gone)[i].new.tools = None
  <2>1. Absent \in States'
    BY QuietStates DEF Absent, Shown, States
  <2> HIDE DEF gone
  <2>2. \A e \in {Event(s, Absent) : s \in gone} :
           e \in [server : Servers, new : States'] /\ e.new.tools = None
    BY <1>3, <2>1, QuietStates DEF Event
  <2>3. Deleted(gone) \in Seq({Event(s, Absent) : s \in gone})
    BY <1>3, DeletedEvents
  <2>4. \A i \in DOMAIN Deleted(gone) : Deleted(gone)[i] \in {Event(s, Absent) : s \in gone}
    BY <2>3
  <2>5. Deleted(gone) \in Seq([server : Servers, new : States'])
    BY <2>2, <2>3, QueueGrows
  <2> QED
    BY <2>2, <2>4, <2>5
<1>9. UNCHANGED <<file, window, actions>> /\ calls' \in {calls, calls + 1} /\ MainTypes
  BY <1>4 DEF IInv, MainInv
<1>10. \A i \in DOMAIN Deleted(gone) :
          Reaches(Deleted(gone)[i].new.tools, Deleted(gone)[i].server, clientOf', spare', open')
  <2> HIDE DEF gone
  <2> QED
    BY <1>8 DEF Reaches
<1>11. \A s \in Servers : \A c : Right(c, s) => Reaches(c, s, clientOf', spare', open')
  BY <1>4 DEF Right
<1> HIDE DEF m, r, on, n, names, taken, closing, gone, created, kind, begun
<1> QED
  BY <1>4, <1>6, <1>7, <1>8, <1>9, <1>10, <1>11, MainOffers

LEMMA ReceiveToggleOnOffers ==
    ASSUME IInv, IInv', OffersOK, NEW w \in Windows, ReceiveToggleOn(w) PROVE OffersOK'
<1> DEFINE s == Head(toMain[w]).arg.server
           n == calls + 1
           new == Task(n, s, "toggle", "creating", TRUE, <<n, s>>, {})
<1>1. /\ tasks' = IF s \in known THEN tasks \cup {new} ELSE tasks
      /\ calls' = calls + 1 /\ UNCHANGED <<file, window, actions, toWindow, clientOf, known, locked, open, spare>>
  BY DEF ReceiveToggleOn
<1>2. new.call = calls' /\ new.step = "creating"
  <2> HIDE DEF s
  <2> QED
    BY <1>1 DEF Task
<1> HIDE DEF s, n, new
<1>3. SpareInv'
  <2>1. \A x \in Servers : clientOf'[x] \in {clientOf[x], None}
    BY <1>1
  <2>2. \A t \in tasks' : t \in tasks \/ t = new
    BY <1>1
  <2> QED
    BY <1>1, <1>2, <2>1, <2>2, SpareBegins DEF OffersOK
<1>4. /\ known' \subseteq Servers /\ locked' \subseteq Servers /\ MainTypes
      /\ UNCHANGED <<file, window, actions, toWindow>> /\ calls' \in {calls, calls + 1}
  BY <1>1 DEF OffersOK, OfferTypes, IInv, MainInv
<1>5. \A x \in Servers : \A c : Right(c, x) => Reaches(c, x, clientOf', spare', open')
  BY <1>1 DEF Right
<1> QED
  BY <1>3, <1>4, <1>5, SilentOffers DEF OffersOK

\* One event about server s, which is the only server whose client changes.
LEMMA OneEventOffers ==
    ASSUME MainTypes, OffersOK, SpareInv', calls' \in {calls, calls + 1},
           UNCHANGED <<file, window, actions>>, known' \subseteq Servers, locked' \subseteq Servers,
           NEW s \in Servers, NEW st \in States', Fire(<<Event(s, st)>>),
           Reaches(st.tools, s, clientOf', spare', open'),
           \A x \in Servers : \A c : x # s /\ Right(c, x) => Reaches(c, x, clientOf', spare', open')
    PROVE  OffersOK'
<1> DEFINE ev == <<Event(s, st)>>
<1>1. /\ ev \in Seq([server : Servers, new : States']) /\ DOMAIN ev = {1}
      /\ ev[1].server = s /\ ev[1].new = st
  BY DEF Event
<1>2. Fire(ev)
  OBVIOUS
<1> HIDE DEF ev
<1> QED
  BY <1>1, <1>2, MainOffers

LEMMA ReceiveToggleOffOffers ==
    ASSUME IInv, IInv', OffersOK, NEW w \in Windows, ReceiveToggleOff(w) PROVE OffersOK'
<1> DEFINE m == Head(toMain[w])
           s == m.arg.server
           n == calls + 1
           c == clientOf[s]
           new == Task(n, s, "off", "closing", FALSE, c, {})
           off == Shown("offline", None)
<1>1. /\ tasks' = IF s \in known /\ c # None THEN tasks \cup {new} ELSE tasks
      /\ clientOf' = IF s \in known THEN [clientOf EXCEPT ![s] = None] ELSE clientOf
      /\ s \notin known => toWindow' = toWindow
      /\ s \in known => Fire(<<Event(s, off)>>)
      /\ calls' = calls + 1 /\ UNCHANGED <<file, window, actions, known, locked, open, spare>>
  BY DEF ReceiveToggleOff, WithoutClient
<1>2. s \in Servers
  <2>1. m \in Messages /\ m.op = "toggle"
    BY Received DEF IInv, ReceiveToggleOff
  <2> QED
    BY <2>1 DEF Messages, Toggles
<1>3. /\ new.call = calls' /\ new.client = clientOf[new.server] /\ new.kind = "off"
  <2>1. c = clientOf[s]
    OBVIOUS
  <2> HIDE DEF s, c
  <2> QED
    BY <1>1, <2>1 DEF Task
<1>4. off \in States' /\ off.tools = None
  BY DEF Shown, States
<1> HIDE DEF m, s, n, c, new, off
<1>5. /\ \A x \in Servers : clientOf'[x] \in {clientOf[x], None}
      /\ \A x \in Servers : x # s => clientOf'[x] = clientOf[x]
  BY <1>1, <1>2 DEF IInv, MainInv, MainTypes
<1>6. SpareInv'
  <2>1. \A t \in tasks' : t \in tasks \/ t = new
    BY <1>1
  <2> QED
    BY <1>1, <1>3, <1>5, <2>1, SpareBegins DEF OffersOK
<1>7. /\ known' \subseteq Servers /\ locked' \subseteq Servers /\ MainTypes
      /\ UNCHANGED <<file, window, actions>> /\ calls' \in {calls, calls + 1}
  BY <1>1 DEF OffersOK, OfferTypes, IInv, MainInv
<1>8. CASE s \notin known
  <2>1. \A x \in Servers : \A d : Right(d, x) => Reaches(d, x, clientOf', spare', open')
    BY <1>1, <1>8 DEF Right
  <2> QED
    BY <1>1, <1>6, <1>7, <1>8, <2>1, SilentOffers
<1>9. CASE s \in known
  <2>1. \A x \in Servers : \A d : x # s /\ Right(d, x) => Reaches(d, x, clientOf', spare', open')
    BY <1>1, <1>5 DEF Right, Reaches
  <2>2. Reaches(off.tools, s, clientOf', spare', open')
    BY <1>4 DEF Reaches
  <2> QED
    BY <1>1, <1>2, <1>4, <1>6, <1>7, <1>9, <2>1, <2>2, OneEventOffers
<1> QED
  BY <1>8, <1>9

\* A task ends; the clients it makes, closes or may still make are not of a switch.
LEMMA SpareSettles ==
    ASSUME IInv, OffersOK, NEW t \in tasks,
           \A u \in tasks' : (u \in tasks /\ u # t) \/
               (Own(u) = Own(t) /\ u.step = "creating" /\ u.kind # "toggle"),
           UNCHANGED spare, spare \subseteq open',
           \A s \in Servers : clientOf'[s] \in {clientOf[s], None, Own(t)}
    PROVE  SpareInv'
<1>1. None \notin spare
  <2>1. spare \subseteq Clients
    BY DEF OffersOK, SpareInv, IInv, MainInv, MainTypes
  <2> QED
    BY <2>1, McpAssumption DEF Clients, IInv, MainInv, MainTypes
<1>2. \A s \in Servers : clientOf'[s] \notin spare
  BY <1>1 DEF OffersOK, SpareInv
<1> QED
  BY <1>2 DEF OffersOK, SpareInv, Own

LEMMA ClosedOffers == ASSUME IInv, IInv', OffersOK, NEW t \in tasks, Closed(t) PROVE OffersOK'
<1>1. t.step = "closing" /\ open' = open \ {t.client} /\ UNCHANGED <<file, window, spare, calls, actions>>
  BY DEF Closed
<1>2. t.client \notin spare /\ spare \subseteq open' /\ t.server \in Servers
  BY <1>1, TaskFacts DEF OffersOK, SpareInv, IInv
<1>3. calls' \in {calls, calls + 1} /\ MainTypes
  BY <1>1 DEF IInv, MainInv
<1>4. CASE t.kind = "off"
  <2>1. tasks' = tasks \ {t} /\ UNCHANGED <<toWindow, clientOf, known, locked>>
    BY <1>4 DEF Closed
  <2>2. SpareInv'
    BY <1>1, <1>2, <2>1, SpareSettles
  <2>3. \A x \in Servers : \A c : Right(c, x) => Reaches(c, x, clientOf', spare', open')
    BY <1>1, <1>2, <2>1 DEF Right, Reaches
  <2>4. known' \subseteq Servers /\ locked' \subseteq Servers
    BY <2>1 DEF OffersOK, OfferTypes
  <2> QED
    BY <1>1, <1>3, <2>1, <2>2, <2>3, <2>4, SilentOffers
<1>5. CASE t.kind # "off"
  <2> DEFINE s == t.server
             next == [t EXCEPT !.step = "creating", !.client = <<t.call, t.server>>]
             more == {[t EXCEPT !.step = "creating", !.client = <<t.call, t.server>>] :
                        k \in {t.kind} \cap {"update"}}
             ev == Deleted({s})
  <2>1. /\ tasks' = (tasks \ {t}) \cup more /\ clientOf' = [clientOf EXCEPT ![s] = None]
        /\ known' = known \ {s} /\ locked' = Freed(t.names, tasks', t.call, locked) /\ Fire(ev)
    BY <1>5 DEF Closed, WithoutClient, FireDelete
  <2>2. \A u \in more : u = next /\ t.kind = "update"
    OBVIOUS
  <2>3. t \in Tasks
    BY TaskFacts DEF IInv
  <2>4. t.kind = "update" => next.step = "creating" /\ Own(next) = Own(t) /\ next.kind # "toggle"
    BY <2>3 DEF Tasks, Own
  <2>5. /\ ev \in Seq([server : Servers, new : States']) /\ 1 \in DOMAIN ev
        /\ \A i \in DOMAIN ev : ev[i].server = s /\ ev[i].new.tools = None
    <3>1. Absent \in States'
      BY QuietStates DEF Absent, Shown, States
    <3> DEFINE S == {Event(x, Absent) : x \in {s}}
    <3>2. \A e \in S : e \in [server : Servers, new : States'] /\ e.server = s /\ e.new.tools = None
      BY <1>2, <3>1, QuietStates DEF Event
    <3>3. ev \in Seq(S) /\ Len(ev) > 0
      BY <1>2, DeletedEvents
    <3> HIDE DEF S, s, ev
    <3>4. 1 \in DOMAIN ev /\ \A i \in DOMAIN ev : ev[i] \in S
      BY <3>3
    <3>5. ev \in Seq([server : Servers, new : States'])
      BY <3>2, <3>3, QueueGrows
    <3> QED
      BY <3>2, <3>4, <3>5
  <2> HIDE DEF s, next, more, ev
  <2>6. /\ \A x \in Servers : clientOf'[x] \in {clientOf[x], None}
        /\ \A x \in Servers : x # s => clientOf'[x] = clientOf[x]
    BY <1>2, <2>1 DEF s, IInv, MainInv, MainTypes
  <2>7. SpareInv'
    <3>1. \A u \in tasks' : (u \in tasks /\ u # t) \/
             (Own(u) = Own(t) /\ u.step = "creating" /\ u.kind # "toggle")
      BY <2>1, <2>2, <2>4
    <3> QED
      BY <1>1, <1>2, <2>6, <3>1, SpareSettles
  <2>8. \A i \in DOMAIN ev : Reaches(ev[i].new.tools, ev[i].server, clientOf', spare', open')
    BY <2>5 DEF Reaches
  <2>9. \A x \in Servers : \A c : (\A i \in DOMAIN ev : ev[i].server # x) /\ Right(c, x)
            => Reaches(c, x, clientOf', spare', open')
    <3>1. \A x \in Servers : \A c : x # s /\ Right(c, x) => Reaches(c, x, clientOf', spare', open')
      BY <1>1, <1>2, <2>6 DEF Right, Reaches
    <3> QED
      BY <2>5, <3>1
  <2>10. known' \subseteq Servers /\ locked' \subseteq Servers
    BY <2>1 DEF OffersOK, OfferTypes, Freed
  <2> QED
    BY <1>1, <1>3, <2>1, <2>5, <2>7, <2>8, <2>9, <2>10, MainOffers
<1> QED
  BY <1>4, <1>5

LEMMA CreatedOffers ==
    ASSUME IInv, IInv', OffersOK, NEW t \in tasks, NEW ok \in BOOLEAN, Created(t, ok) PROVE OffersOK'
<1> DEFINE s == t.server
           st == NewServer(t, ok)
<1>1. /\ t.step = "creating" /\ t.kind # "toggle" /\ tasks' = tasks \ {t}
      /\ open' = IF ok THEN open \cup {t.client} ELSE open
      /\ clientOf' = [clientOf EXCEPT ![s] = IF ok THEN t.client ELSE None]
      /\ known' = known \cup {s} /\ Fire(<<Event(s, st)>>)
      /\ locked' = Freed(t.names, tasks \ {t}, t.call, locked)
      /\ UNCHANGED <<file, window, spare, calls, actions>>
  BY DEF Created, FreedAfter
<1>2. s \in Servers /\ t.client = Own(t) /\ t.client \in Clients'
  BY <1>1, TaskFacts DEF IInv, MainInv, NotYetMade, Clients
<1>3. st \in States' /\ st.tools \in {None, IF ok THEN t.client ELSE None}
  BY <1>2 DEF NewServer, Shown, States
<1> HIDE DEF s, st
<1>4. /\ clientOf'[s] = IF ok THEN t.client ELSE None
      /\ \A x \in Servers : x # s => clientOf'[x] = clientOf[x]
  BY <1>1, <1>2 DEF IInv, MainInv, MainTypes
<1>5. SpareInv'
  <2>1. spare \subseteq open'
    BY <1>1 DEF OffersOK, SpareInv
  <2>2. \A x \in Servers : clientOf'[x] \in {clientOf[x], None, Own(t)}
    BY <1>2, <1>4
  <2> QED
    BY <1>1, <2>1, <2>2, SpareSettles
<1>6. Reaches(st.tools, s, clientOf', spare', open')
  <2>1. t.client \notin spare'
    BY <1>1, <1>2 DEF OffersOK, SpareInv
  <2> QED
    BY <1>3, <1>4, <2>1 DEF Reaches
<1>7. \A x \in Servers : \A c : x # s /\ Right(c, x) => Reaches(c, x, clientOf', spare', open')
  BY <1>1, <1>4 DEF Right, Reaches
<1>8. /\ known' \subseteq Servers /\ locked' \subseteq Servers /\ MainTypes
      /\ UNCHANGED <<file, window, actions>> /\ calls' \in {calls, calls + 1}
  BY <1>1, <1>2 DEF OffersOK, OfferTypes, IInv, MainInv, Freed
<1> QED
  BY <1>1, <1>2, <1>3, <1>5, <1>6, <1>7, <1>8, OneEventOffers

LEMMA ToggledOnOffers ==
    ASSUME IInv, IInv', OffersOK, NEW t \in tasks, NEW ok \in BOOLEAN, ToggledOn(t, ok) PROVE OffersOK'
<1> DEFINE s == t.server
           st == NewServer(t, ok)
<1>1. /\ t.kind = "toggle" /\ tasks' = tasks \ {t}
      /\ UNCHANGED <<file, window, clientOf, known, locked, calls, actions>>
  BY DEF ToggledOn
<1>2. t.step = "creating" /\ s \in Servers /\ t.client = Own(t) /\ t.client \in Clients'
  BY <1>1, TaskFacts DEF OffersOK, SpareInv, IInv, MainInv, NotYetMade, Clients
<1>3. /\ known' \subseteq Servers /\ locked' \subseteq Servers /\ MainTypes
      /\ UNCHANGED <<file, window, actions>> /\ calls' \in {calls, calls + 1}
  BY <1>1 DEF OffersOK, OfferTypes, IInv, MainInv
<1>4. CASE ~ok
  <2>1. UNCHANGED <<open, spare, toWindow>>
    BY <1>4 DEF ToggledOn
  <2>2. SpareInv'
    BY <1>1, <2>1 DEF OffersOK, SpareInv, Own
  <2>3. \A x \in Servers : \A c : Right(c, x) => Reaches(c, x, clientOf', spare', open')
    BY <1>1, <2>1 DEF Right
  <2> QED
    BY <1>3, <2>1, <2>2, <2>3, SilentOffers
<1>5. CASE ok
  <2>1. open' = open \cup {t.client} /\ spare' = spare \cup {t.client} /\ Fire(<<Event(s, st)>>)
    BY <1>5 DEF ToggledOn
  <2>2. st \in States' /\ st.tools = t.client
    BY <1>2, <1>5 DEF NewServer, Shown, States
  <2> HIDE DEF s, st
  <2>3. SpareInv'
    <3>1. spare' \subseteq open'
      BY <2>1 DEF OffersOK, SpareInv
    <3>2. ASSUME NEW x \in Servers PROVE clientOf'[x] \notin spare'
      <4>1. clientOf[t.server] # Own(t) /\ Own(t) # None /\ Own(t)[2] = t.server
        BY <1>2, TaskFacts DEF IInv, MainInv, NotYetMade, Creates
      <4>2. clientOf[x] # Own(t)
        BY <4>1 DEF IInv, MainInv, OwnServer
      <4> QED
        BY <1>1, <1>2, <2>1, <4>2 DEF OffersOK, SpareInv
    <3>3. ASSUME NEW u \in tasks'
          PROVE  /\ Own(u) \notin spare' /\ (u.step = "closing" => u.client \notin spare')
                 /\ u.kind = "toggle" => u.step = "creating"
      <4>1. u \in tasks /\ u # t
        BY <1>1
      <4>2. Own(u) # Own(t)
        <5>1. u.call # t.call \/ u.server # t.server
          BY <4>1 DEF IInv, MainInv, TasksOfCall
        <5> QED
          BY <5>1 DEF Own
      <4>3. u.step = "closing" => u.client # Own(t)
        BY <1>2, <4>1 DEF IInv, MainInv, NotYetMade, Creates
      <4> QED
        BY <1>2, <2>1, <4>1, <4>2, <4>3 DEF OffersOK, SpareInv
    <3> QED
      BY <3>1, <3>2, <3>3 DEF SpareInv, Own
  <2>4. Reaches(st.tools, s, clientOf', spare', open')
    BY <2>1, <2>2 DEF Reaches
  <2>5. \A x \in Servers : \A c : x # s /\ Right(c, x) => Reaches(c, x, clientOf', spare', open')
    BY <1>1, <2>1 DEF Right, Reaches
  <2> QED
    BY <1>2, <1>3, <2>1, <2>2, <2>3, <2>4, <2>5, OneEventOffers
<1> QED
  BY <1>4, <1>5

-----------------------------------------------------------------------------
LEMMA UnchangedOffers == ASSUME OffersOK, UNCHANGED vars PROVE OffersOK'
<1>1. UNCHANGED <<main, toWindow, shown, readable, reading, actions>>
  BY DEF vars, file, window
<1> QED
  BY <1>1, ForgetTools DEF OffersOK, OfferTypes

LEMMA EditConfigOffers == ASSUME IInv, OffersOK, EditConfig PROVE OffersOK'
<1>1. UNCHANGED <<main, toWindow, shown>> /\ readable' \in BOOLEAN
  BY DEF EditConfig
<1>2. reading' \in [Windows -> Nat] /\ actions' \in 0..MaxActions
  BY McpAssumption DEF EditConfig, Acts, OffersOK, OfferTypes
<1> QED
  BY <1>1, <1>2, ForgetTools DEF OffersOK, OfferTypes

LEMMA NextOffers == IInv /\ OffersOK /\ [Next]_vars => OffersOK'
<1> SUFFICES ASSUME IInv, OffersOK, [Next]_vars PROVE OffersOK'
  OBVIOUS
<1>1. IInv'
  BY NextInv
<1>2. ASSUME NEW w \in Windows, Process(w) PROVE OffersOK'
  BY <1>1, <1>2, WindowOffers, DeliverOffers, ReceiveRefreshOffers, ReceiveToggleOnOffers, ReceiveToggleOffOffers
     DEF Process
<1>3. ASSUME NEW w \in Windows, Reload(w) \/ \E s \in Servers : Toggle(w, s) PROVE OffersOK'
  BY <1>3, WindowOffers, ReloadOffers
<1>4. ASSUME NEW t \in tasks, Settles(t) PROVE OffersOK'
  BY <1>1, <1>4, ClosedOffers, CreatedOffers, ToggledOnOffers DEF Settles
<1> QED
  BY <1>2, <1>3, <1>4, UnchangedOffers, EditConfigOffers DEF Next

\* Once the events on their way to a window have arrived, the tools it offers for a server
\* are those of the client that tool calls reach, or of a connected one that a switch
\* made, for every set of windows and servers and whatever refreshes, switches, closings
\* and reloads overlap (MCPChannel and MCPService._setMCPServerState).
THEOREM OfferedToolsReachTheirClient == Spec => []OfferedIsStored
<1>1. ASSUME IInv, OffersOK PROVE OfferedIsStored
  <2>1. TypeOK
    <3>1. \A t \in tasks : /\ t.call \in 1..calls /\ t.server \in Servers /\ t.client \in Clients
                           /\ t.step = "creating" => t.client = <<t.call, t.server>>
      BY <1>1 DEF IInv, MainInv, MainTypes, Tasks, NotYetMade, Own
    <3> QED
      BY <1>1, <3>1 DEF TypeOK, IInv, WindowTypes, Settings, MainInv, MainTypes, OffersOK, OfferTypes, SpareInv
  <2> QED
    BY <1>1, <2>1 DEF OfferedIsStored, OffersOK, BeliefsOK, Believes, Right, Reaches
<1> QED
  BY <1>1, InitInv, NextInv, InitOffers, NextOffers, PTL DEF Spec
=============================================================================
