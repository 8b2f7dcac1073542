--------------------------- MODULE WindowManager ---------------------------
(* The window server of the desktop target: WindowManager, its menu bar, the *)
(* one popup, window frames and the requests of clients that reach them.     *)
(* The server is one thread that handles one event at a time, so a handler   *)
(* is an operator from state to state and an action applies one.  Windows    *)
(* are their ids; pointers are ids, 0 is nullptr, and an id that is not live *)
(* is a pointer to a deleted window.  Geometry is left out: a mouse event    *)
(* says what is under the cursor, and any visible window may be.             *)
EXTENDS Integers, Sequences, FiniteSets, SequencesExt

CONSTANTS MaxWindows, MaxMenus

ASSUME BoundsAssumption == MaxWindows \in Nat /\ MaxMenus \in Nat

Types  == {"Standard", "Homescreen", "AppList"}
WinIds == 1 .. MaxWindows
Null   == 0
Menus  == 0 .. MaxMenus - 1

VARIABLE wm
\* windows: m_windows, front first     win[w]: [type, visible, frame, menus, mask]
\* frame: the frame is drawn active    menus: size of menubar_content
\* bar: whose menubar_content is shown popup: [visible, owner, menu], menu -1 when
\*                                     a client asked for it
\* told[w]: the windows that the listener w was told of and not told removed
\* left, right: the buttons            ub: how a deleted window was used
\* hiding: the windows that "minimize others" has still to hide

Live(s) == Range(s.windows)
live == Live(wm)
type(s, w) == s.win[w].type
Blank == [type |-> "Standard", visible |-> TRUE, frame |-> FALSE, menus |-> 1, mask |-> FALSE]
Requested == -1

-----------------------------------------------------------------------------
\* Menu bar and popup
Closed  == [visible |-> FALSE, owner |-> Null, menu |-> 0]
hide(s) == [s EXCEPT !.popup = Closed]
show(s, w, menu) == [s EXCEPT !.popup = [visible |-> TRUE, owner |-> w, menu |-> menu]]
set_menubar_content(s, w) == hide([s EXCEPT !.bar = w])

\* Mutant: the menu bar is left as it is.
on_window_became_invisibleKeepsBar(s, w) == s

on_window_became_invisible(s, w) ==
    IF type(s, w) = "Standard" /\ s.active = w THEN set_menubar_content(s, Null) ELSE s

-----------------------------------------------------------------------------
\* The active window
on_active_window_will_change(s) ==
    IF s.active # Null /\ type(s, s.active) = "AppList"
    THEN on_window_became_invisible([s EXCEPT !.win[s.active].visible = FALSE], s.active)
    ELSE s

ToFront(s, w) == <<w>> \o RemoveFirst(s.windows, w)
ToBack(s, w)  == Append(RemoveFirst(s.windows, w), w)

\* m_windows.erase(std::find(...)) of a window that is gone is undefined.
do_bring_to_front(s, w) ==
    IF w \in Live(s) THEN [s EXCEPT !.windows = ToFront(s, w)]
    ELSE [s EXCEPT !.ub = IF w = s.dock THEN "dock" ELSE "window"]
bring_system_windows_to_front(s) == IF s.dock # Null THEN do_bring_to_front(s, s.dock) ELSE s

top_window_in_view(s) == SelectInSeq(s.windows, LAMBDA w : type(s, w) = "Standard")

bring_to_front(s, w) ==
    LET top  == top_window_in_view(s)
        prev == IF top = 0 THEN Null ELSE s.windows[top]
        t    == bring_system_windows_to_front(do_bring_to_front(s, w))
        u    == [t EXCEPT !.win = [v \in WinIds |->
                     IF v = w THEN [t.win[v] EXCEPT !.visible = TRUE, !.frame = TRUE]
                     ELSE IF v = prev THEN [t.win[v] EXCEPT !.frame = FALSE] ELSE t.win[v]]]
    IN set_menubar_content(u, IF type(u, w) = "Standard" THEN w ELSE Null)

set_active_window(s, w) ==
    LET t == on_active_window_will_change(s)
    IN IF w = Null THEN [t EXCEPT !.active = Null]
                   ELSE [bring_to_front(t, w) EXCEPT !.active = w]

\* Mutant: the hovered window is forgotten about.
remove_attention_from_windowHovered(s, w) ==
    LET t == [s EXCEPT !.movable = IF @ = w THEN Null ELSE @]
    IN IF t.active = w THEN set_active_window(t, Null) ELSE t

remove_attention_from_window(s, w) ==
    LET t == [s EXCEPT !.movable = IF @ = w THEN Null ELSE @]
        u == IF t.active = w THEN set_active_window(t, Null) ELSE t
    IN [u EXCEPT !.hovered = IF @ = w THEN Null ELSE @]

-----------------------------------------------------------------------------
\* Windows come and go.  A notification about a window that is not in the list
\* is not sent.
notify(s, w, created) ==
    IF w \notin Live(s) THEN s ELSE
    [s EXCEPT !.told = [v \in WinIds |->
        IF v \in Live(s) /\ s.win[v].mask
        THEN IF created THEN s.told[v] \cup {w} ELSE s.told[v] \ {w}
        ELSE s.told[v]]]

Minimized(s, w) ==
    LET t == [s EXCEPT !.win[w].visible = FALSE, !.windows = ToBack(s, w)]
    IN remove_attention_from_window(on_window_became_invisible(t, w), w)
minimize_window(s, w) == Minimized(s, w)

\* "Minimize others" of the menu of keep hides the windows one by one, front
\* first; HideNext is one turn of the loop.
minimize_windows(s, keep) ==
    [s EXCEPT !.hiding = {w \in Live(s) : w # keep /\ type(s, w) = "Standard"}]

setup_dock(s, w) == [s EXCEPT !.win[w].mask = TRUE, !.dock = w]
setup_applist(s, w) == minimize_window(s, w)

add_window(s, w, ty) ==
    LET t == [s EXCEPT !.windows = Append(@, w), !.win[w] = [Blank EXCEPT !.type = ty]]
        u == set_active_window(t, w)
        v == CASE ty = "Homescreen" -> setup_dock(u, w)
               [] ty = "AppList"    -> setup_applist(u, w)
               [] OTHER             -> u
    IN notify(v, w, TRUE)

\* Mutant: the listeners are told when the window is out of the list.
remove_windowTellsLate(s, w) ==
    LET t == [s EXCEPT !.windows = RemoveFirst(@, w)]
        u == notify(t, w, FALSE)
        v == remove_attention_from_window(on_window_became_invisible(u, w), w)
    IN [v EXCEPT !.win[w] = Blank, !.told[w] = {}]

remove_window(s, w) ==
    LET t == notify(s, w, FALSE)
        u == [t EXCEPT !.windows = RemoveFirst(@, w)]
        v == remove_attention_from_window(on_window_became_invisible(u, w), w)
    IN [v EXCEPT !.win[w] = Blank, !.told[w] = {}]

-----------------------------------------------------------------------------
\* Requests of clients (ServerDecoder.cpp)

\* The two system windows are made once, by the applications that launch_server
\* starts.
CreateWindow(w, ty) ==
    /\ w = wm.next /\ w \in WinIds
    /\ ty # "Standard" => \A v \in live : type(wm, v) # ty
    /\ wm' = add_window([wm EXCEPT !.next = w + 1], w, ty)

\* By the owner or, as a punishment of the wrong window, by anyone else.
DestroyWindow(w) == w \in live /\ wm' = remove_window(wm, w)

MenuBarCreateMenu(w) ==
    /\ w \in live /\ wm.win[w].menus < MaxMenus
    /\ wm' = [wm EXCEPT !.win[w].menus = @ + 1]

PopupShowMenu(w) == w \in live /\ wm' = show(wm, w, Requested)

AskBringToFront(w, target) ==
    /\ {w, target} \subseteq live /\ type(wm, w) = "Homescreen"
    /\ wm' = set_active_window(wm, target)

\* One turn of the loop of minimize_windows; the server does nothing else until
\* the loop ends.
HideNext ==
    \E i \in DOMAIN wm.windows :
        /\ wm.windows[i] \in wm.hiding
        /\ \A j \in 1 .. i - 1 : wm.windows[j] \notin wm.hiding
        /\ wm' = [Minimized(wm, wm.windows[i]) EXCEPT !.hiding = @ \ {wm.windows[i]}]

-----------------------------------------------------------------------------
\* receive_mouse_event: the cursor is over the popup, over an item of the menu
\* bar, elsewhere on the bar, over a window's content or frame, or over nothing.
Items   == {"none", "minimize others", "minimize", "other"}
Buttons == {"none", "close", "maximize", "minimize"}
Places ==
    [at : {"popup"}, item : Items] \cup [at : {"panel"}, menu : Menus] \cup
    [at : {"bar", "nothing"}] \cup [at : {"content"}, w : WinIds] \cup
    [at : {"frame"}, w : WinIds, button : Buttons]

Under(p) ==
    CASE p.at = "popup" -> /\ wm.popup.visible
                           /\ p.item \in {"minimize", "minimize others"} => wm.popup.menu = 0
      [] p.at = "panel" -> wm.bar # Null /\ p.menu < wm.win[wm.bar].menus
      [] p.at = "content" -> p.w \in live /\ wm.win[p.w].visible
      [] p.at = "frame" -> /\ p.w \in live /\ wm.win[p.w].visible
                           /\ p.button # "none" => type(wm, p.w) = "Standard"
      [] OTHER -> TRUE

\* A click on an item runs its callback, which uses the window it was made for,
\* and hides the popup, which no turn of a loop of the callback looks at.
PopupClick(s, item) ==
    LET w == s.popup.owner
        called == CASE item = "minimize" -> minimize_window(s, w)
                    [] item = "minimize others" -> minimize_windows(s, w)
                    [] OTHER -> s
        gone == IF s.popup.menu = Requested THEN "popup" ELSE "window"
    IN hide(IF w \in Live(s) THEN called ELSE [s EXCEPT !.ub = gone])

\* A press moves the focus to the window under the cursor.
Focus(s, w) ==
    IF ~(s.left \/ s.right) \/ w = s.active THEN s
    ELSE IF w # Null THEN set_active_window(s, w)
    ELSE set_active_window(set_menubar_content(
             [s EXCEPT !.win[s.active].frame = FALSE], Null), Null)

\* The rest of the handler for the window under the cursor: a press on the
\* frame is a tap and starts a move, even of a window that the tap minimized.
Hover(s, p, pressed) ==
    LET seen == p.at = "content" /\ ~(type(s, p.w) = "Standard" /\ s.active # p.w)
        tap  == p.at = "frame" /\ pressed
        t == IF tap /\ p.button = "minimize" THEN minimize_window(s, p.w) ELSE s
        u == IF tap THEN [t EXCEPT !.movable = p.w] ELSE t
    IN [u EXCEPT !.hovered = IF seen THEN p.w ELSE Null]

receive_mouse_event(left, right, p) ==
    LET s       == [wm EXCEPT !.left = left, !.right = right]
        changed == left # wm.left \/ right # wm.right
        c       == IF left THEN hide(s) ELSE s
        w       == IF p.at \in {"content", "frame"} THEN p.w ELSE Null
    IN /\ Under(p)
       /\ wm' = IF s.movable # Null THEN [s EXCEPT !.movable = IF left THEN @ ELSE Null] ELSE
                 CASE p.at = "popup"   -> IF changed /\ left /\ p.item # "none"
                                          THEN PopupClick(s, p.item) ELSE s
                   [] p.at = "panel"   -> IF changed /\ left THEN show(c, c.bar, p.menu) ELSE c
                   [] p.at = "bar"     -> c
                   [] p.at = "nothing" -> Focus(c, Null)
                   [] OTHER            -> Hover(Focus(c, w), p, left /\ ~wm.left)

WMInit ==
    wm = [windows |-> <<>>, win |-> [w \in WinIds |-> Blank],
          active |-> Null, hovered |-> Null, movable |-> Null, bar |-> Null,
          popup |-> Closed,
          dock |-> Null, told |-> [w \in WinIds |-> {}],
          next |-> 1, left |-> FALSE, right |-> FALSE, ub |-> "no", hiding |-> {}]

Request ==
    \/ \E w \in WinIds : \/ \E ty \in Types : CreateWindow(w, ty)
                         \/ DestroyWindow(w) \/ MenuBarCreateMenu(w) \/ PopupShowMenu(w)
                         \/ \E target \in WinIds : AskBringToFront(w, target)
    \/ \E left, right \in BOOLEAN, p \in Places : receive_mouse_event(left, right, p)

\* After undefined behaviour nothing is said.
WMNext ==
    /\ wm.ub = "no"
    /\ IF wm.hiding = {} THEN Request ELSE HideNext

Spec == WMInit /\ [][WMNext]_wm

-----------------------------------------------------------------------------
\* remove_window leaves no pointer behind: the list holds a window once, and
\* the active, hovered, moved and menu windows, and the owner of a popup opened
\* from the menu bar, are in it.  A deleted window is only ever used through a
\* dock that was destroyed or a popup that its client asked for.
NoDanglingWindow ==
    /\ IsInjective(wm.windows)
    /\ {wm.active, wm.hovered, wm.movable, wm.bar} \subseteq live \cup {Null}
    /\ wm.popup.visible /\ wm.popup.menu # Requested => wm.popup.owner \in live
    /\ wm.ub # "window"

\* The window that gets the keys is the one on top, below the dock alone, and
\* it can be seen.
ActiveInFront ==
    wm.ub = "no" /\ wm.active # Null =>
        /\ wm.win[wm.active].visible
        /\ \E i \in {1, 2} :
              /\ i \in DOMAIN wm.windows /\ wm.windows[i] = wm.active
              /\ i = 2 => wm.windows[1] = wm.dock

\* The menu bar shows the menus of the active window when it is a standard one
\* and of no window otherwise, a popup of the bar belongs to that window, and
\* the application list is only seen while it is active.
BarFollowsActive ==
    wm.ub = "no" =>
    /\ wm.bar = IF wm.active # Null /\ type(wm, wm.active) = "Standard" THEN wm.active ELSE Null
    /\ wm.popup.visible /\ wm.popup.menu # Requested => wm.popup.owner = wm.bar
    /\ \A w \in live : type(wm, w) = "AppList" /\ wm.win[w].visible => wm.active = w

\* No two windows look active: bring_to_front finds the one to fade by its
\* place in the list.
OneActiveFrame ==
    wm.ub = "no" =>
    \A w \in live :
        type(wm, w) = "Standard" /\ wm.win[w].visible /\ wm.win[w].frame => w = wm.active

\* Focus, window list, frames and menu bar agree after every sequence of
\* requests of the clients and clicks of the user.
FocusConsistent == ActiveInFront /\ BarFollowsActive /\ OneActiveFrame

\* The dock has been told exactly of the windows made since it came that are
\* still there.
DockKnows ==
    \A d \in live : wm.win[d].mask => wm.told[d] = {w \in live : w >= d}
=============================================================================
