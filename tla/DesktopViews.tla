---------------------------- MODULE DesktopViews ----------------------------
(***************************************************************************)
(* The servers, views, tabs and popout windows of the desktop application  *)
(* (workspace_desktop/src: common/servers/serverManager.ts,                *)
(* common/views/viewManager.ts, app/tabs/tabManager.ts,                    *)
(* app/windows/popoutManager.ts, and the parts of webContentsManager.ts,   *)
(* navigationManager.ts, popoutMenu.ts and serverHub.ts that call them).   *)
(*                                                                         *)
(* The managers run in one thread and call each other through synchronous  *)
(* events, so that an operation is a function from the state of all        *)
(* managers (desk) to the next one, composed of the handlers in the order  *)
(* in which the events reach them. Only the lists that the renderer sends  *)
(* after a drag take time: they are made from the tabs or servers that it  *)
(* displays and applied later.                                             *)
(*                                                                         *)
(* A view has web contents, and a view of type "window" a popout window,   *)
(* as long as it exists. Ids are uuids: 0 is undefined, and the ids grow   *)
(* so that their order is the insertion order of the maps.                 *)
(***************************************************************************)
EXTENDS Lists, FiniteSets, SequencesExt, FiniteSetsExt

CONSTANTS
    Predefined, \* the servers of the administrator
    Local,      \* the servers of the configuration file
    ViewLimit,  \* Config.viewLimit
    MaxServers, MaxViews,   \* bounds: ids
    MaxMishaps  \* bound: lists sent and views that fail to load

Server == 1..MaxServers
View == 1..MaxViews

ASSUME DesktopViewsAssumption ==
    /\ MaxServers \in Nat /\ MaxViews \in Nat /\ ViewLimit \in Nat /\ MaxMishaps \in Nat
    /\ Predefined \subseteq Server /\ Local \subseteq Server /\ Predefined \cap Local = {}
    /\ Predefined \cup Local \subseteq View
    /\ Predefined \cup Local = 1..Cardinality(Predefined \cup Local)

VARIABLES
    desk,       \* the state of the managers
    drag,       \* the list on its way from the renderer
    mishaps,
    moved       \* history: a list was applied that had become outdated

viewsVars == <<desk, drag, mishaps, moved>>

NoView == [server |-> 0, type |-> "none", parent |-> 0, path |-> FALSE]
NoDrag == [kind |-> "none", server |-> 0, list |-> <<>>]

---------------------------------------------------------------------------
\* The keys in K that are in S, in the order of their insertion.
Ascending(K, S) == Among([k \in K |-> k], S)

---------------------------------------------------------------------------
(* ViewManager and TabManager *)

Live(d) == {v \in View : d.view[v].type # "none"}
TabViews(d, s) == {v \in View : d.view[v].type = "tab" /\ d.view[v].server = s}
IsActiveTab(d, v) == d.current # 0 /\ d.active[d.current] = v

\* setActiveTab: a view that failed to load is not displayed.
SetActiveTab(d, v) ==
    [d EXCEPT !.active[d.view[v].server] = v, !.visible = IF v \in d.errored THEN 0 ELSE v]

\* updateCurrentServer and handleServerCurrentChanged
UpdateCurrentServer(d, s) ==
    LET e == [d EXCEPT !.current = s]
    IN IF d.current # s /\ s # 0 /\ d.active[s] \in Live(d) THEN SetActiveTab(e, d.active[s]) ELSE e

SwitchToTab(d, v) ==
    IF IsActiveTab(d, v) \/ v \notin Live(d) \/ d.view[v].type # "tab" THEN d
    ELSE IF d.view[v].server = d.current THEN SetActiveTab(d, v)
    ELSE UpdateCurrentServer([d EXCEPT !.active[d.view[v].server] = v], d.view[v].server)

\* switchToNextTabIfNecessary and unregisterTab: the tab before, or else the one after.
LeaveTab(d, v, s) ==
    LET tabs == d.tabs[s]
        at == SelectInSeq(tabs, LAMBDA w : w = v)
        next == IF at > 1 THEN tabs[at - 1] ELSE IF at < Len(tabs) THEN tabs[at + 1] ELSE tabs[1]
        e == IF IsActiveTab(d, v) /\ tabs # <<>> THEN SwitchToTab(d, next) ELSE d
    IN [e EXCEPT !.tabs[s] = Among(@, View \ {v})]

SetNewPrimaryViewIfNeeded(d, v) ==
    LET s == d.view[v].server
        others == TabViews(d, s) \ {v}
    IN IF d.primary[s] = v /\ others # {} THEN [d EXCEPT !.primary[s] = Min(others)] ELSE d

\* Mutant of RemoveView: the popouts keep their parent.
RemoveViewAlone(d, v) ==
    LET s == d.view[v].server IN
    IF v \notin Live(d) THEN d
    ELSE LeaveTab([SetNewPrimaryViewIfNeeded(d, v) EXCEPT !.view[v] = NoView, !.errored = @ \ {v}], v, s)

\* The popouts of a view that goes become those of the primary view.
RemoveView(d, v) ==
    LET s == d.view[v].server
        e == SetNewPrimaryViewIfNeeded(d, v)
    IN IF v \notin Live(d) THEN d
       ELSE LeaveTab([e EXCEPT
                !.view = [w \in View |->
                    CASE w = v -> NoView
                      [] w # v /\ d.view[w].parent = v -> [d.view[w] EXCEPT !.parent = e.primary[d.view[w].server]]
                      [] OTHER -> d.view[w]],
                !.errored = @ \ {v}], v, s)

\* One after the other.
RemoveViews(d, vs) ==
    LET gone[k \in 0..Len(vs)] == IF k = 0 THEN d ELSE RemoveView(gone[k - 1], vs[k])
    IN gone[Len(vs)]

CreateView(d, s, type, path, parent) ==
    LET v == d.nextView
        e == [d EXCEPT !.nextView = v + 1,
                       !.view[v] = [server |-> s, type |-> type, parent |-> parent, path |-> path]]
        f == [e EXCEPT !.primary[s] = IF @ = 0 THEN v ELSE @, !.tabs[s] = Append(@, v)]
    IN IF Cardinality(Live(d)) >= Max({ViewLimit, Cardinality(d.servers)}) THEN d
       ELSE IF type = "window" THEN e
       ELSE IF d.tabs[s] # <<>> THEN f
       ELSE IF s = d.current THEN SetActiveTab(f, v) ELSE [f EXCEPT !.active[s] = v]

\* Mutant of UpdateViewType: the next tab is not switched to.
UpdateViewTypeStays(d, v, type) ==
    LET s == d.view[v].server
        e == SetNewPrimaryViewIfNeeded(d, v)
    IN IF type = "window" THEN [e EXCEPT !.view[v].type = type, !.tabs[s] = Among(@, View \ {v})]
       ELSE SwitchToTab([e EXCEPT !.view[v].type = type, !.tabs[s] = Append(@, v)], v)

\* A tab becomes a window, or a window a tab, which is switched to.
UpdateViewType(d, v, type) ==
    LET s == d.view[v].server
        e == SetNewPrimaryViewIfNeeded(d, v)
    IN IF type = "window" THEN [LeaveTab(e, v, s) EXCEPT !.view[v].type = type]
       ELSE SwitchToTab([e EXCEPT !.view[v].type = type, !.tabs[s] = Append(@, v)], v)

---------------------------------------------------------------------------
(* ServerManager *)

AddServer(d) ==
    LET s == d.nextServer
    IN CreateView([d EXCEPT !.nextServer = s + 1, !.servers = @ \cup {s}, !.order = Append(@, s),
                            !.current = s], s, "tab", FALSE, 0)

\* The place of the server is looked up after it is gone: the next one is always the
\* first of the order.
RemoveServer(d, s) ==
    LET order == Among(d.order, Server \ {s})
        e == [d EXCEPT !.order = order, !.servers = @ \ {s}, !.loggedIn = @ \ {s}]
        f == IF d.current = s THEN UpdateCurrentServer(e, IF order = <<>> THEN 0 ELSE order[1])
             ELSE e
    IN RemoveViews(f, Ascending(View, {v \in Live(f) : f.view[v].server = s}))

\* The order is repaired by the id of the server that was removed, which is not in it.
ReloadServer(d, s) == AddServer(RemoveServer(d, s))

\* setLoggedIn, and handleServerLoggedInChanged of the tabs and then of the popouts
SetLoggedIn(d, s, loggedIn) ==
    LET p == d.primary[s]
        e == IF d.current = s THEN SwitchToTab(d, p) ELSE [d EXCEPT !.active[s] = p]
        f == IF p \in Live(d) THEN RemoveViews(e, Among(e.tabs[s], View \ {p})) ELSE d
        g == RemoveViews(f, Ascending(View, {v \in Live(f) : f.view[v].server = s
                                                           /\ f.view[v].type = "window"}))
    IN IF loggedIn THEN [d EXCEPT !.loggedIn = @ \cup {s}] ELSE [g EXCEPT !.loggedIn = @ \ {s}]

---------------------------------------------------------------------------
(* The application starts with a tab for every server (init). *)

StartServers == Predefined \cup Local
ViewsInit ==
    /\ \E current \in StartServers \cup {0} :
        /\ current = 0 => StartServers = {}
        /\ desk = [servers |-> StartServers, order |-> Ascending(Server, Local), current |-> current,
                   loggedIn |-> {}, errored |-> {}, visible |-> current,
                   view |-> [v \in View |->
                        IF v \in StartServers THEN [NoView EXCEPT !.server = v, !.type = "tab"] ELSE NoView],
                   primary |-> [s \in Server |-> IF s \in StartServers THEN s ELSE 0],
                   active |-> [s \in Server |-> IF s \in StartServers THEN s ELSE 0],
                   tabs |-> [s \in Server |-> IF s \in StartServers THEN <<s>> ELSE <<>>],
                   nextServer |-> Cardinality(StartServers) + 1,
                   nextView |-> Cardinality(StartServers) + 1]
    /\ drag = NoDrag /\ mishaps = 0 /\ moved = FALSE

---------------------------------------------------------------------------
(* Operations: of the user, and of the pages *)

\* Nothing is promised, or explored, after an outdated list.
Becomes(d) == ~moved /\ desk' = d /\ UNCHANGED <<drag, mishaps, moved>>
MayOpen == desk.nextView \in View

\* handleAddServer and the modal
ServerIsAdded == desk.nextServer \in Server /\ MayOpen /\ Becomes(AddServer(desk))
\* A predefined server has no button to remove it.
ServerIsRemoved(s) == s \in desk.servers \ Predefined /\ Becomes(RemoveServer(desk, s))
\* clearDataForServer
ServerIsReloaded(s) ==
    /\ desk.nextServer \in Server /\ MayOpen
    /\ s \in ToSet(desk.order) \cap desk.servers /\ Becomes(ReloadServer(desk, s))
ServerIsChosen(s) == s \in desk.servers /\ s # desk.current /\ Becomes(UpdateCurrentServer(desk, s))

LoginChanges(v, loggedIn) ==
    v \in Live(desk) /\ Becomes(SetLoggedIn(desk, desk.view[v].server, loggedIn))

TabIsOpened(s) ==
    /\ MayOpen /\ s \in desk.servers
    /\ \E switch \in BOOLEAN :
        LET d == CreateView(desk, s, "tab", FALSE, 0)
        IN Becomes(IF switch THEN SwitchToTab(d, desk.nextView) ELSE d)
TabIsChosen(v) == v \in Live(desk) /\ Becomes(SwitchToTab(desk, v))

\* handleOpenPopout shows the window that has the path already.
PopoutIsOpened(v, path) ==
    /\ MayOpen /\ v \in Live(desk)
    /\ ~ \E w \in Live(desk) : path /\ desk.view[w].path
            /\ desk.view[w].type = "window" /\ desk.view[w].server = desk.view[v].server
    /\ Becomes(CreateView(desk, desk.view[v].server, "window", path, IF path THEN v ELSE 0))

\* The tab bar shows the tabs of the current server, and does not offer to move or to close
\* the last one.
IsOffered(v) ==
    /\ v \in Live(desk)
    /\ desk.view[v].type = "tab" =>
        desk.view[v].server = desk.current /\ Len(desk.tabs[desk.current]) > 1
ViewIsMoved(v) ==
    /\ IsOffered(v)
    /\ Becomes(UpdateViewType(desk, v, IF desk.view[v].type = "tab" THEN "window" ELSE "tab"))
ViewIsClosed(v) == IsOffered(v) /\ Becomes(RemoveView(desk, v))

\* handleBrowserHistoryPush: a link in a popout is followed in its parent.
LinkIsFollowed(v) ==
    /\ v \in Live(desk) /\ desk.view[v].parent # 0
    /\ desk.view[v].server \in desk.loggedIn \/ desk.primary[desk.view[v].server] = v
    /\ Becomes(SwitchToTab(desk, desk.view[v].parent))

\* failLoading, and reload with onReloadView
LoadFails(v) ==
    /\ v \in Live(desk) \ desk.errored /\ mishaps < MaxMishaps /\ mishaps' = mishaps + 1
    /\ UNCHANGED <<drag, moved>>
    /\ desk' = [desk EXCEPT !.errored = @ \cup {v},
                            !.visible = IF @ = v /\ IsActiveTab(desk, v) THEN 0 ELSE @]
Reload(v) ==
    /\ v \in Live(desk)
    /\ LET d == [desk EXCEPT !.errored = @ \ {v}]
       IN Becomes(IF IsActiveTab(d, v) /\ d.visible # v THEN SetActiveTab(d, v) ELSE d)

---------------------------------------------------------------------------
(* Drags: the renderer moves one element of the list that it displays. *)

Swapped(q, i) == [q EXCEPT ![i] = q[i + 1], ![i + 1] = q[i]]

Drag(kind, s, q) ==
    /\ drag = NoDrag /\ mishaps < MaxMishaps /\ mishaps' = mishaps + 1
    /\ \E i \in 1..Len(q) - 1 : drag' = [kind |-> kind, server |-> s, list |-> Swapped(q, i)]
    /\ UNCHANGED <<desk, moved>>
TabIsDragged == desk.current # 0 /\ Drag("tabs", desk.current, desk.tabs[desk.current])
ServerIsDragged == Drag("servers", 0, desk.order)

\* updateTabOrder takes the list as it is; updateServerOrder leaves out what is no server.
ListArrives ==
    /\ drag # NoDrag /\ drag' = NoDrag /\ UNCHANGED mishaps
    /\ LET tabs == drag.kind = "tabs"
           old == IF tabs THEN desk.tabs[drag.server] ELSE desk.order
       IN /\ moved' = (moved \/ ToSet(old) # ToSet(drag.list))
          /\ desk' = IF tabs THEN [desk EXCEPT !.tabs[drag.server] = drag.list]
                     ELSE [desk EXCEPT !.order = Among(drag.list, desk.servers \ Predefined)]

---------------------------------------------------------------------------
ViewsNext ==
    \/ ServerIsAdded
    \/ \E s \in Server :
        ServerIsRemoved(s) \/ ServerIsReloaded(s) \/ ServerIsChosen(s) \/ TabIsOpened(s)
    \/ \E v \in View :
        \/ \E b \in BOOLEAN : LoginChanges(v, b) \/ PopoutIsOpened(v, b)
        \/ TabIsChosen(v) \/ ViewIsMoved(v) \/ ViewIsClosed(v) \/ LinkIsFollowed(v)
        \/ LoadFails(v) \/ Reload(v)
    \/ TabIsDragged \/ ServerIsDragged \/ ListArrives

ViewsSpec == ViewsInit /\ [][ViewsNext]_viewsVars

---------------------------------------------------------------------------
(* Properties *)

\* The managers' maps have their types (the fields of the four managers).
ViewsTypeOK ==
    /\ desk.servers \subseteq Server /\ desk.loggedIn \subseteq Server
    /\ desk.current \in Server \cup {0} /\ desk.visible \in View \cup {0}
    /\ desk.errored \subseteq View /\ ToSet(desk.order) \subseteq Server
    /\ desk.view \in [View -> [server : Server \cup {0}, type : {"none", "tab", "window"},
                               parent : View \cup {0}, path : BOOLEAN]]
    /\ desk.primary \in [Server -> View \cup {0}] /\ desk.active \in [Server -> View \cup {0}]
    /\ \A s \in Server : ToSet(desk.tabs[s]) \subseteq View
    /\ drag.kind \in {"none", "tabs", "servers"} /\ moved \in BOOLEAN

\* What the main window displays is the active tab of the current server, unless it failed
\* to load, whatever was opened, moved, closed, logged out or removed before
\* (setActiveTab, failLoading, onReloadView, switchToNextTabIfNecessary).
ShownIsActive ==
    ~moved /\ desk.current # 0 /\ TabViews(desk, desk.current) # {} =>
        LET a == desk.active[desk.current]
        IN /\ a \in TabViews(desk, desk.current)
           /\ desk.visible = IF a \in desk.errored THEN 0 ELSE a

\* The managers refer to views that exist, and to all of them, after any operations: the tab
\* bar of a server lists each of its tabs once (setupTab, unregisterTab); a server that has
\* tabs has a primary view among them, the one that stays at a logout (setNewPrimaryView-
\* IfNeeded); the parent of a popout exists, as its messages go there (removeView).
ReferencesLive ==
    ~moved =>
        /\ \A s \in desk.servers :
            /\ IsInjective(desk.tabs[s]) /\ ToSet(desk.tabs[s]) = TabViews(desk, s)
            /\ TabViews(desk, s) # {} => desk.primary[s] \in TabViews(desk, s)
        /\ \A v \in Live(desk) : desk.view[v].parent \in Live(desk) \cup {0}

---------------------------------------------------------------------------
(* The inductive invariant *)

ViewRecord == [server : Server \cup {0}, type : {"none", "tab", "window"},
               parent : View \cup {0}, path : BOOLEAN]
Desk ==
    [servers : SUBSET Server, order : Seq(Server), current : Server \cup {0},
     loggedIn : SUBSET Server, errored : SUBSET View, visible : View \cup {0},
     view : [View -> ViewRecord], primary : [Server -> View \cup {0}],
     active : [Server -> View \cup {0}], tabs : [Server -> Seq(View)],
     nextServer : 1..(MaxServers + 1), nextView : 1..(MaxViews + 1)]

\* Servers and views are numbered as they are made; a server that was not made has nothing.
Counted(d) ==
    /\ \A s \in d.servers : s < d.nextServer
    /\ \A v \in Live(d) : v < d.nextView /\ d.view[v].server # 0
    /\ \A v \in View \ Live(d) : d.view[v].parent = 0
    /\ \A s \in Server : s >= d.nextServer =>
        d.tabs[s] = <<>> /\ d.primary[s] = 0 /\ d.active[s] = 0

\* The tab bar of the server has its tabs once. One of them is active and one primary, or
\* the server has no view at all. The parent of a view is a view of the same server.
ServerSound(d, s) ==
    /\ IsInjective(d.tabs[s]) /\ ToSet(d.tabs[s]) = TabViews(d, s)
    /\ IF TabViews(d, s) = {}
       THEN /\ d.primary[s] = 0 /\ d.active[s] = 0
            /\ \A v \in Live(d) : d.view[v].server # s
       ELSE d.primary[s] \in TabViews(d, s) /\ d.active[s] \in TabViews(d, s)
    /\ \A v \in Live(d) : d.view[v].server = s /\ d.view[v].parent # 0 =>
        d.view[v].parent \in Live(d) /\ d.view[d.view[v].parent].server = s

Shown(d) ==
    d.current # 0 /\ TabViews(d, d.current) # {} =>
        d.visible = IF d.active[d.current] \in d.errored THEN 0 ELSE d.active[d.current]

\* All of this for the servers that there are; the views of another one, x, are being removed.
KeptBut(d, x) ==
    /\ d \in Desk /\ Counted(d)
    /\ ToSet(d.order) \subseteq d.servers /\ x \notin d.servers /\ x < d.nextServer
    /\ \A s \in d.servers : ServerSound(d, s)
    /\ \A v \in Live(d) : d.view[v].server \in d.servers \cup {x}

SoundBut(d, x) == KeptBut(d, x) /\ d.current \in d.servers \cup {0} /\ Shown(d)

Sound(d) == SoundBut(d, 0)

DragKey ==
    /\ drag = NoDrag \/ drag.kind \in {"tabs", "servers"}
    /\ drag.kind = "tabs" =>
        drag.server \in Server /\ drag.list \in Seq(View) /\ (~moved => IsInjective(drag.list))
    /\ drag.kind = "servers" => drag.list \in Seq(Server)

ViewsIInv ==
    /\ desk \in Desk /\ moved \in BOOLEAN /\ DragKey
    /\ ~moved => Sound(desk)
=============================================================================
