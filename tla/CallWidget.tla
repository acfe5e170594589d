------------------------------ MODULE CallWidget ------------------------------
(***************************************************************************)
(* The window of a call in the desktop application, and the remote control *)
(* of the shared screen (workspace_desktop/src/app/callsWidgetWindow.ts).  *)
(*                                                                         *)
(* A handler runs to its first await in one step. What waits for a window  *)
(* to be closed, for the user's answer or for the mouse goes on in another *)
(* one. The web application and the user are external.                     *)
(***************************************************************************)
EXTENDS Lists, FiniteSets, SequencesExt

CONSTANTS
    Views,      \* the views of the servers, which ask to join calls
    Calls,
    None,
    MaxWins,    \* bound: windows made
    MaxJoins,   \* bound: joins that wait at a time
    MaxEvents   \* bound: events of remote control

ASSUME WidgetAssumption ==
    /\ None \notin Views \cup Calls
    /\ MaxWins \in Nat /\ MaxJoins \in Nat /\ MaxEvents \in Nat

Win == 1..MaxWins
Join == [view : Views, call : Calls, on : 0..MaxWins]     \* waits for window on to be closed

VARIABLES
    wd,         \* the window: this.win, this.mainView, this.options.callID and the like
    gone,       \* views that have been destroyed
    rc,         \* remote control: the flags, the queue and its processors
    approved,   \* history: windows in whose call the user has allowed remote control
    late,       \* history: an answer came after the call that it was about
    reset,      \* history: the queue was reset while events were being performed
    done        \* history: the event performed last

widgetVars == <<wd, gone, rc, approved, late, reset, done>>
widgetHistory == <<approved, late, reset, done>>

\* shows is the call of each window that exists; joins wait for one of them to be closed.
WidgetInit ==
    /\ wd = [shows |-> [w \in Win |-> None], made |-> 0, closing |-> {}, win |-> 0,
             view |-> None, call |-> None, joins |-> <<>>]
    /\ gone = {}
    /\ rc = [allowed |-> FALSE, asked |-> {}, queue |-> <<>>, processing |-> FALSE,
             runs |-> {}, sent |-> 0]
    /\ approved = {} /\ late = FALSE /\ reset = FALSE
    /\ done = [n |-> 0, ok |-> TRUE, ordered |-> TRUE]

---------------------------------------------------------------------------
(* The window *)

Exists(w) == wd.shows[w] # None
Close(d) == [d EXCEPT !.closing = IF d.win = 0 THEN @ ELSE @ \cup {d.win}]

\* After the await, for each of these joins in turn, unless its view is gone: init makes a
\* window for the view and the call, which takes the place of the one that was.
OpenAll(d, js) ==
    LET open == Among(js, {j \in Join : j.view \notin gone})
        n == Len(open)
    IN IF n = 0 THEN d
       ELSE [d EXCEPT !.made = @ + n, !.win = d.made + n, !.view = open[n].view, !.call = open[n].call,
                      !.shows = [w \in Win |-> IF w \in (d.made + 1)..(d.made + n)
                                              THEN open[w - d.made].call ELSE @[w]]]
WindowsLeft(js) == wd.made + Len(js) <= MaxWins

\* handleCreateCallsWidgetWindow. A view that is gone is forgotten with its call; then
\* another view than that of the call is refused, and so is joining the call again.
JoinCall(v, c) ==
    /\ v \notin gone /\ Len(wd.joins) < MaxJoins
    /\ wd.win = 0 => WindowsLeft(<<c>>)
    /\ LET stale == wd.view # None /\ (wd.view \in gone \/ wd.win = 0)
           d == IF stale THEN [wd EXCEPT !.view = None, !.call = None] ELSE wd
           join == [view |-> v, call |-> c, on |-> wd.win]
       IN wd' = IF d.view \notin {None, v} \/ d.call = c THEN d
                ELSE IF d.win = 0 THEN OpenAll(d, <<join>>)
                ELSE [Close(d) EXCEPT !.joins = Append(@, join)]
    /\ UNCHANGED <<gone, rc, widgetHistory>>

\* Mutant of Closed: the permission is kept.
ClosedAllowed(w) ==
    /\ Exists(w)
    /\ LET next == Among(wd.joins, {j \in Join : j.on = w})
           d == [wd EXCEPT !.shows[w] = None, !.closing = @ \ {w}, !.win = 0, !.view = None,
                           !.call = None, !.joins = Among(@, {j \in Join : j.on # w})]
       IN WindowsLeft(next) /\ wd' = OpenAll(d, next)
    /\ rc' = [rc EXCEPT !.queue = <<>>, !.processing = FALSE]
    /\ reset' = (reset \/ rc.runs # {})
    /\ UNCHANGED <<gone, approved, late, done>>

\* onClosed is run for any window, and then what has waited for this one goes on.
Closed(w) ==
    /\ Exists(w)
    /\ LET next == Among(wd.joins, {j \in Join : j.on = w})
           d == [wd EXCEPT !.shows[w] = None, !.closing = @ \ {w}, !.win = 0, !.view = None,
                           !.call = None, !.joins = Among(@, {j \in Join : j.on # w})]
       IN WindowsLeft(next) /\ wd' = OpenAll(d, next)
    /\ rc' = [rc EXCEPT !.allowed = FALSE, !.queue = <<>>, !.processing = FALSE]
    /\ reset' = (reset \/ rc.runs # {})
    /\ UNCHANGED <<gone, approved, late, done>>

CallsLeave ==
    /\ wd.win # 0 /\ wd.win \notin wd.closing /\ wd' = Close(wd)
    /\ UNCHANGED <<gone, rc, widgetHistory>>

\* handleViewRemoved: the primary view of the server takes over, if there is another one.
ViewRemoved(v) ==
    /\ v \notin gone /\ gone' = gone \cup {v}
    /\ \/ v = wd.view /\ wd' = Close(wd)
       \/ v = wd.view /\ \E u \in Views \ gone' : wd' = [wd EXCEPT !.view = u]
       \/ v # wd.view /\ UNCHANGED wd
    /\ UNCHANGED <<rc, widgetHistory>>

---------------------------------------------------------------------------
(* Remote control *)

ControlStep == UNCHANGED <<wd, gone>>

\* handleRemoteControlRequestPermission; no more is asked once it has been allowed.
AskControl ==
    /\ ControlStep /\ wd.win # 0 /\ wd.view # None /\ ~rc.allowed /\ wd.win \notin rc.asked
    /\ rc' = [rc EXCEPT !.asked = @ \cup {wd.win}]
    /\ UNCHANGED widgetHistory

AnswerControl(w, yes) ==
    /\ ControlStep /\ w \in rc.asked
    /\ rc' = [rc EXCEPT !.asked = @ \ {w}, !.allowed = @ \/ yes]
    /\ approved' = IF yes THEN approved \cup {w} ELSE approved
    /\ late' = (late \/ (yes /\ w # wd.win))
    /\ UNCHANGED <<reset, done>>

Terminate ==
    /\ ControlStep /\ rc.allowed
    /\ rc' = [rc EXCEPT !.allowed = FALSE, !.queue = <<>>]
    /\ UNCHANGED widgetHistory

\* The first part of handleShareScreen; where the screen is does not matter here.
HandleShareScreen ==
    /\ ControlStep /\ wd.win # 0 /\ (rc.queue # <<>> \/ rc.processing)
    /\ rc' = [rc EXCEPT !.queue = <<>>, !.processing = FALSE]
    /\ reset' = (reset \/ rc.runs # {})
    /\ UNCHANGED <<approved, late, done>>

\* A processor takes events until it has to wait: for the mouse to be moved first.
\* Events that are not allowed any more are dropped with the rest.
Turn(r) ==
    IF r.queue = <<>> THEN [r EXCEPT !.processing = FALSE]
    ELSE IF ~r.allowed THEN [r EXCEPT !.queue = <<>>, !.processing = FALSE]
    ELSE [r EXCEPT !.queue = Tail(@), !.processing = TRUE, !.runs = @ \cup {Head(r.queue)}]

\* Mutant of SendEvent: it does not matter whether events are being performed.
SendEventAtOnce(press) ==
    /\ ControlStep /\ rc.sent < MaxEvents /\ wd.win # 0 /\ wd.view # None /\ rc.allowed
    /\ rc' = Turn([rc EXCEPT !.sent = @ + 1,
                             !.queue = Append(@, [n |-> rc.sent + 1, press |-> press, at |-> "move"])])
    /\ UNCHANGED widgetHistory

\* handleSendRemoteControlEvent: the last move of the queue gives way to the new one.
SendEvent(press) ==
    /\ ControlStep /\ rc.sent < MaxEvents /\ wd.win # 0 /\ wd.view # None /\ rc.allowed
    /\ LET e == [n |-> rc.sent + 1, press |-> press, at |-> "move"]
           q == rc.queue
           coalesced == ~press /\ q # <<>> /\ ~Last(q).press
           r == [rc EXCEPT !.sent = @ + 1,
                           !.queue = IF coalesced THEN Append(Front(q), e) ELSE Append(q, e)]
       IN rc' = IF rc.processing THEN r ELSE Turn(r)
    /\ UNCHANGED widgetHistory

Perform(e) ==
    done' = [n |-> e.n, ok |-> wd.win # 0 /\ wd.win \in approved,
             ordered |-> done.ordered /\ done.n < e.n]

\* executeRemoteControlEvent has moved the mouse: a button is pressed if it still may be.
MouseMoved(e) ==
    /\ ControlStep /\ e \in rc.runs /\ e.at = "move"
    /\ LET press == e.press /\ rc.allowed
       IN /\ rc' = [rc EXCEPT !.runs = (@ \ {e}) \cup {[e EXCEPT !.at = IF press THEN "press" ELSE "end"]}]
          /\ IF press THEN Perform(e) ELSE UNCHANGED done
    /\ UNCHANGED <<approved, late, reset>>

\* The button has been pressed, or nothing is left to do: the next event.
EventEnds(e) ==
    /\ ControlStep /\ e \in rc.runs /\ e.at # "move"
    /\ rc' = Turn([rc EXCEPT !.runs = @ \ {e}])
    /\ UNCHANGED widgetHistory

---------------------------------------------------------------------------
Event == [n : 1..MaxEvents, press : BOOLEAN, at : {"move", "press", "end"}]

Processor == \E e \in Event : MouseMoved(e) \/ EventEnds(e)

WidgetNext ==
    \/ \E v \in Views : ViewRemoved(v) \/ \E c \in Calls : JoinCall(v, c)
    \/ \E w \in Win : \/ Closed(w)
                      \/ \E yes \in BOOLEAN : AnswerControl(w, yes)
    \/ CallsLeave \/ AskControl \/ Terminate \/ HandleShareScreen
    \/ \E press \in BOOLEAN : SendEvent(press)
    \/ Processor

WidgetSpec == WidgetInit /\ [][WidgetNext]_widgetVars

---------------------------------------------------------------------------
(* Properties *)

WidgetTypeOK ==
    /\ wd.shows \in [Win -> Calls \cup {None}] /\ wd.made \in 0..MaxWins
    /\ wd.closing \subseteq Win /\ wd.win \in 0..MaxWins
    /\ wd.view \in Views \cup {None} /\ wd.call \in Calls \cup {None}
    /\ gone \subseteq Views
    /\ rc.allowed \in BOOLEAN /\ rc.asked \subseteq Win /\ rc.processing \in BOOLEAN
    /\ rc.runs \subseteq Event /\ rc.sent \in 0..MaxEvents /\ approved \subseteq Win

\* A button is pressed only in a call in which the user has allowed remote control,
\* whatever comes between the question, the answer and the events: a new call, the end of
\* the session, the closing of the window. The exception is an answer that comes late: the
\* handler sets the flag without looking whether the call is still the one it asked for.
ControlApproved == late \/ done.ok

\* Events are performed one at a time and in the order in which they were sent. The
\* exception is a reset of the queue (a new share, a closed window) in the middle of an
\* event, which lets a second processor start beside the first.
EventsInOrder == reset \/ (done.ordered /\ Cardinality(rc.runs) <= 1)
=============================================================================
