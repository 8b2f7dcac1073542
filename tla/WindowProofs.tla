---------------------------- MODULE WindowProofs ----------------------------
(* The window server's list, focus, frames, menu bar, popup and dock agree   *)
(* after every sequence of requests and clicks, for any number of windows    *)
(* and menus.  Handlers are operators on the state, so the invariant is one  *)
(* too, and each handler has a lemma that says it keeps it.                  *)
EXTENDS WindowManager, SequenceTheorems, TLAPS

Refs == WinIds \cup {Null}
Uses == {"no", "dock", "popup", "window"}

Looks  == [type : Types, visible : BOOLEAN, frame : BOOLEAN, menus : Nat, mask : BOOLEAN]
Popups == [visible : BOOLEAN, owner : Refs, menu : Int]

States ==
    [windows : Seq(WinIds), win : [WinIds -> Looks], active : Refs, hovered : Refs,
     movable : Refs, bar : Refs, popup : Popups, dock : Refs,
     told : [WinIds -> SUBSET WinIds], next : Nat, left : BOOLEAN, right : BOOLEAN,
     ub : Uses, hiding : SUBSET WinIds]

\* Every pointer that the server follows without asking is to a window of the
\* list, ids are given out once, and only a dock is the dock.
Pointers(s) ==
    /\ {s.active, s.hovered, s.movable, s.bar} \subseteq Live(s) \cup {Null}
    /\ s.hiding \subseteq Live(s)
    /\ s.dock < s.next /\ \A w \in Live(s) : w < s.next
    /\ s.dock \in Live(s) => type(s, s.dock) = "Homescreen"
    /\ s.ub # "window"

\* The menu bar is that of the active window, a popup of the bar is too, and the
\* application list is hidden unless it is active.
Bars(s) ==
    /\ s.bar = IF s.active # Null /\ type(s, s.active) = "Standard" THEN s.active ELSE Null
    /\ s.popup.visible /\ s.popup.menu # Requested => s.bar # Null /\ s.popup.owner = s.bar
    /\ \A w \in Live(s) : type(s, w) = "AppList" /\ s.win[w].visible => s.active = w

\* The active window is the first, or the second behind the dock.
OnTop(s) ==
    s.active # Null =>
        /\ s.win[s.active].visible
        /\ \E i \in {1, 2} : /\ i \in DOMAIN s.windows /\ s.windows[i] = s.active
                             /\ i = 2 => s.windows[1] = s.dock

\* Only the active window looks active.
Frames(s) ==
    \A w \in Live(s) :
        type(s, w) = "Standard" /\ s.win[w].visible /\ s.win[w].frame => w = s.active

\* A listener knows the windows of the list that are not older than itself, those
\* in but left aside, and what is no listener of the list has been told nothing.
ToldBut(s, but) ==
    /\ \A d \in WinIds : d \notin Live(s) \/ ~s.win[d].mask => s.told[d] = {}
    /\ \A d \in Live(s) : s.win[d].mask => s.told[d] = {w \in Live(s) \ but : w >= d}

Sound(s) ==
    /\ s \in States
    /\ IsInjective(s.windows)
    /\ Pointers(s)
    /\ Bars(s)
    /\ s.ub = "no" => OnTop(s) /\ Frames(s)

WindowInv == Sound(wm) /\ ToldBut(wm, {})

-----------------------------------------------------------------------------
(* Lists.                                                                    *)

\* What erasing a window leaves of a list that holds it once.
Shifted(q, r, i) ==
    /\ Len(r) = Len(q) - 1
    /\ \A j \in 1 .. Len(q) - 1 : r[j] = IF j < i THEN q[j] ELSE q[j + 1]

LEMMA ErasePlace ==
    ASSUME NEW q \in Seq(WinIds), IsInjective(q), NEW i \in DOMAIN q
    PROVE  RemoveFirst(q, q[i]) \in Seq(WinIds) /\ Shifted(q, RemoveFirst(q, q[i]), i)
<1> DEFINE I == {j \in 1 .. Len(q) : q[j] = q[i]}
<1>1. I = {i} /\ i \in 1 .. Len(q) /\ i \in Nat /\ Len(q) \in Nat
  BY DEF IsInjective
<1>2. Min(I) = i
  <2>1. \A x : x \in I /\ (\A y \in I : x <= y) <=> x = i
    BY <1>1
  <2> HIDE DEF I
  <2> QED  BY <2>1 DEF Min
<1>3. RemoveFirst(q, q[i]) = SubSeq(q, 1, i - 1) \o SubSeq(q, i + 1, Len(q))
  BY <1>1, <1>2 DEF RemoveFirst, RemoveAt, SelectInSeq
<1>4. PICK a : a = SubSeq(q, 1, i - 1)
  OBVIOUS
<1>5. PICK b : b = SubSeq(q, i + 1, Len(q))
  OBVIOUS
<1>6. a \in Seq(WinIds) /\ Len(a) = i - 1 /\ \A j \in 1 .. i - 1 : a[j] = q[j]
  BY <1>1, <1>4
<1>7. /\ b \in Seq(WinIds) /\ Len(b) = Len(q) - i
      /\ \A j \in 1 .. Len(q) - i : b[j] = q[i + j]
  BY <1>1, <1>5
<1>8. a \o b \in Seq(WinIds) /\ Len(a \o b) = Len(q) - 1
  BY <1>1, <1>6, <1>7
<1> HIDE DEF I
<1>9. PICK n \in Nat : n = Len(q) /\ i \in 1 .. n
  BY <1>1
<1>10. \A j \in 1 .. Len(q) - 1 : (a \o b)[j] = IF j < i THEN q[j] ELSE q[j + 1]
  <2> SUFFICES ASSUME NEW j \in 1 .. Len(q) - 1
               PROVE  (a \o b)[j] = IF j < i THEN q[j] ELSE q[j + 1]
    OBVIOUS
  <2>1. CASE j < i
    BY <1>1, <1>6, <1>7, <2>1
  <2>2. CASE j >= i
    <3>1. PICK m : m = j - (i - 1)
      OBVIOUS
    <3>2. m \in 1 .. Len(q) - i /\ i + m = j + 1 /\ j = i - 1 + m
      <4>1. j \in 1 .. n - 1 /\ j >= i
        BY <1>9, <2>2
      <4>2. m \in 1 .. n - i /\ i + m = j + 1 /\ j = i - 1 + m
        BY <1>9, <3>1, <4>1
      <4> QED  BY <1>9, <4>2
    <3>3. (a \o b)[j] = b[m]
      <4>1. Len(a) = i - 1 /\ Len(b) = n - i
        BY <1>6, <1>7, <1>9
      <4>2. j \in 1 .. n - 1 /\ j > i - 1 /\ m = j - (i - 1)
        BY <1>9, <2>2, <3>1
      <4>3. j \in 1 .. Len(a) + Len(b) /\ ~(j <= Len(a)) /\ m = j - Len(a)
        BY <1>9, <4>1, <4>2
      <4> QED  BY <1>6, <1>7, <4>3, ConcatProperties
    <3>4. b[m] = q[i + m]
      BY <1>7, <3>2
    <3> QED  BY <2>2, <3>2, <3>3, <3>4
  <2>3. j < i \/ j >= i
    BY <1>1
  <2> QED  BY <2>1, <2>2, <2>3
<1> QED  BY <1>3, <1>4, <1>5, <1>8, <1>10 DEF Shifted

LEMMA Erased ==
    ASSUME NEW q \in Seq(WinIds), IsInjective(q), NEW w \in Range(q)
    PROVE  /\ RemoveFirst(q, w) \in Seq(WinIds) /\ IsInjective(RemoveFirst(q, w))
           /\ Range(RemoveFirst(q, w)) = Range(q) \ {w}
           /\ Len(q) >= 1
           /\ \E i \in DOMAIN q : q[i] = w /\ Shifted(q, RemoveFirst(q, w), i)
<1>1. PICK i \in DOMAIN q : q[i] = w
  BY DEF Range
<1>2. PICK r : r = RemoveFirst(q, w)
  OBVIOUS
<1>3. r \in Seq(WinIds) /\ Shifted(q, r, i)
  BY <1>1, <1>2, ErasePlace
<1>4. /\ i \in 1 .. Len(q) /\ Len(q) \in Nat /\ i \in Nat
      /\ DOMAIN q = 1 .. Len(q) /\ DOMAIN r = 1 .. Len(q) - 1
      /\ \A j \in 1 .. Len(q) - 1 : r[j] = IF j < i THEN q[j] ELSE q[j + 1]
  BY <1>1, <1>3 DEF Shifted
<1>5. IsInjective(r)
  <2> SUFFICES ASSUME NEW x \in 1 .. Len(q) - 1, NEW y \in 1 .. Len(q) - 1, r[x] = r[y]
               PROVE  x = y
    BY <1>4 DEF IsInjective
  <2>1. \A a, b \in 1 .. Len(q) : q[a] = q[b] => a = b
    BY <1>4 DEF IsInjective
  <2>2. PICK a \in 1 .. Len(q) : a = (IF x < i THEN x ELSE x + 1) /\ r[x] = q[a]
    BY <1>4
  <2>3. PICK b \in 1 .. Len(q) : b = (IF y < i THEN y ELSE y + 1) /\ r[y] = q[b]
    BY <1>4
  <2>4. a = b
    BY <2>1, <2>2, <2>3
  <2> QED  BY <1>4, <2>2, <2>3, <2>4
<1>6. Range(r) \subseteq Range(q) \ {w}
  <2> SUFFICES ASSUME NEW j \in 1 .. Len(q) - 1
               PROVE  r[j] \in Range(q) /\ r[j] # w
    BY <1>4 DEF Range
  <2>1. CASE j < i
    BY <1>1, <1>4, <2>1 DEF Range, IsInjective
  <2>2. CASE ~(j < i)
    BY <1>1, <1>4, <2>2 DEF Range, IsInjective
  <2> QED  BY <2>1, <2>2
<1>7. Range(q) \ {w} \subseteq Range(r)
  <2> SUFFICES ASSUME NEW j \in 1 .. Len(q), q[j] # w PROVE q[j] \in Range(r)
    BY <1>4 DEF Range
  <2>1. CASE j < i
    BY <1>1, <1>4, <2>1 DEF Range
  <2>2. CASE j > i
    <3>1. j - 1 \in 1 .. Len(q) - 1 /\ r[j - 1] = q[j]
      BY <1>1, <1>4, <2>2
    <3> QED  BY <3>1, <1>4 DEF Range
  <2> QED  BY <1>1, <1>4, <2>1, <2>2
<1> QED  BY <1>1, <1>2, <1>3, <1>4, <1>5, <1>6, <1>7

\* Moving a window of the list to its front or to its back.
LEMMA Moved ==
    ASSUME NEW s, s.windows \in Seq(WinIds), IsInjective(s.windows), NEW w \in Live(s)
    PROVE  /\ ToFront(s, w) \in Seq(WinIds) /\ IsInjective(ToFront(s, w))
           /\ Range(ToFront(s, w)) = Live(s) /\ 1 \in DOMAIN ToFront(s, w)
           /\ ToFront(s, w)[1] = w
           /\ ToBack(s, w) \in Seq(WinIds) /\ IsInjective(ToBack(s, w))
           /\ Range(ToBack(s, w)) = Live(s)
<1>1. PICK q : q = s.windows
  OBVIOUS
<1>2. PICK r : r = RemoveFirst(q, w)
  OBVIOUS
<1>3. /\ q \in Seq(WinIds) /\ r \in Seq(WinIds) /\ IsInjective(r)
      /\ Range(r) = Live(s) \ {w} /\ w \in WinIds
  <2>1. w \in Range(q)
    BY <1>1 DEF Live
  <2>2. w \in WinIds
    BY <1>1, <2>1 DEF Range
  <2> QED  BY <1>1, <1>2, <2>1, <2>2, Erased DEF Live
<1>4. ToFront(s, w) = <<w>> \o r /\ ToBack(s, w) = Append(r, w)
  BY <1>1, <1>2 DEF ToFront, ToBack
<1>5. PICK n : n = Len(r)
  OBVIOUS
<1>6. n \in Nat /\ DOMAIN r = 1 .. n /\ \A j \in 1 .. n : r[j] # w
  BY <1>3, <1>5 DEF Range
<1>7. PICK f : f = <<w>> \o r
  OBVIOUS
<1>8. /\ f \in Seq(WinIds) /\ DOMAIN f = 1 .. n + 1 /\ f[1] = w
      /\ \A j \in 2 .. n + 1 : f[j] = r[j - 1]
  BY <1>3, <1>5, <1>6, <1>7
<1>9. IsInjective(f)
  <2> SUFFICES ASSUME NEW x \in 1 .. n + 1, NEW y \in 1 .. n + 1, f[x] = f[y]
               PROVE  x = y
    BY <1>8 DEF IsInjective
  <2>1. \A a, c \in 1 .. n : r[a] = r[c] => a = c
    BY <1>3, <1>6 DEF IsInjective
  <2>2. CASE x = 1 \/ y = 1
    <3>1. \A z \in 1 .. n + 1 : z # 1 => f[z] # w
      BY <1>6, <1>8
    <3> QED  BY <1>8, <2>2, <3>1
  <2>3. CASE x # 1 /\ y # 1
    <3>1. x - 1 \in 1 .. n /\ y - 1 \in 1 .. n /\ r[x - 1] = r[y - 1]
      BY <1>6, <1>8, <2>3
    <3>2. x - 1 = y - 1
      BY <2>1, <3>1
    <3> QED  BY <1>6, <3>2
  <2> QED  BY <2>2, <2>3
<1>10. Range(f) = Live(s)
  <2>1. \A j \in 1 .. n : j + 1 \in 2 .. n + 1 /\ f[j + 1] = r[j]
    BY <1>6, <1>8
  <2>2. \A x \in 1 .. n + 1 : f[x] = w \/ f[x] \in Range(r)
    <3> SUFFICES ASSUME NEW x \in 2 .. n + 1 PROVE f[x] \in Range(r)
      BY <1>6, <1>8
    <3>1. x - 1 \in DOMAIN r /\ f[x] = r[x - 1]
      BY <1>6, <1>8
    <3> QED  BY <3>1 DEF Range
  <2>3. w \in Range(f) /\ \A j \in 1 .. n : r[j] \in Range(f)
    <3>1. 1 \in DOMAIN f /\ f[1] = w /\ \A j \in 1 .. n : j + 1 \in DOMAIN f
      BY <1>6, <1>8
    <3> QED  BY <2>1, <3>1 DEF Range
  <2>4. Range(f) \subseteq Range(r) \cup {w}
    BY <1>8, <2>2 DEF Range
  <2>5. Range(r) \cup {w} \subseteq Range(f)
    BY <1>6, <2>3 DEF Range
  <2>6. Range(f) = Range(r) \cup {w} /\ w \in Live(s)
    BY <2>4, <2>5
  <2> QED  BY <1>3, <2>6
<1>11. PICK b : b = Append(r, w)
  OBVIOUS
<1>12. /\ b \in Seq(WinIds) /\ DOMAIN b = 1 .. n + 1 /\ b[n + 1] = w
       /\ \A j \in 1 .. n : b[j] = r[j]
  BY <1>3, <1>5, <1>6, <1>11
<1>13. IsInjective(b)
  BY <1>3, <1>6, <1>12 DEF IsInjective
<1>14. Range(b) = Live(s)
  <2>1. \A x : x \in Range(b) <=> x = w \/ x \in Range(r)
    BY <1>6, <1>12 DEF Range
  <2> QED  BY <1>3, <2>1
<1> QED  BY <1>4, <1>6, <1>7, <1>8, <1>9, <1>10, <1>11, <1>12, <1>13, <1>14

-----------------------------------------------------------------------------
(* What the small operations change.                                         *)

\* Nothing that the list, the dock or the listeners depend on.
SameList(s, t) ==
    /\ t.windows = s.windows /\ t.dock = s.dock /\ t.told = s.told
    /\ t.next = s.next /\ t.ub = s.ub /\ t.hiding = s.hiding

\* Windows of the same types, listeners and frames, those of H hidden.
Hides(s, t, H) ==
    \A v \in WinIds : /\ t.win[v].type = s.win[v].type /\ t.win[v].mask = s.win[v].mask
                      /\ t.win[v].frame = s.win[v].frame
                      /\ t.win[v].visible <=> s.win[v].visible /\ v \notin H

LEMMA ClosedIs == Closed \in Popups /\ Closed.visible = FALSE
BY DEF Closed, Popups, Refs

LEMMA HideFields ==
    ASSUME NEW s \in States
    PROVE  /\ hide(s) \in States /\ hide(s).popup = Closed /\ SameList(s, hide(s))
           /\ hide(s).win = s.win /\ hide(s).active = s.active /\ hide(s).bar = s.bar
           /\ hide(s).hovered = s.hovered /\ hide(s).movable = s.movable
<1>1. hide(s) \in States
  BY ClosedIs DEF hide, States
<1> QED  BY <1>1 DEF hide, States, SameList

LEMMA BarFields ==
    ASSUME NEW s \in States, NEW w \in Refs, NEW t, t = set_menubar_content(s, w)
    PROVE  /\ t \in States /\ t.popup = Closed /\ t.bar = w /\ SameList(s, t)
           /\ t.win = s.win /\ t.active = s.active
           /\ t.hovered = s.hovered /\ t.movable = s.movable
<1>1. t \in States
  BY ClosedIs DEF set_menubar_content, hide, States
<1> QED  BY <1>1 DEF set_menubar_content, hide, States, SameList

LEMMA HiddenFields ==
    ASSUME NEW s \in States, NEW w \in WinIds, NEW t, t = [s EXCEPT !.win[w].visible = FALSE]
    PROVE  /\ t \in States /\ SameList(s, t) /\ Hides(s, t, {w})
           /\ t.popup = s.popup /\ t.bar = s.bar /\ t.active = s.active
           /\ t.hovered = s.hovered /\ t.movable = s.movable
<1>1. PICK look : look = [s.win[w] EXCEPT !.visible = FALSE]
  OBVIOUS
<1>2. s.win \in [WinIds -> Looks]
  BY DEF States
<1>3. /\ look \in Looks /\ look.type = s.win[w].type /\ look.mask = s.win[w].mask
      /\ look.frame = s.win[w].frame /\ look.visible = FALSE
  <2>1. s.win[w] \in Looks
    BY <1>2
  <2> QED  BY <1>1, <2>1 DEF Looks
<1>4. t = [s EXCEPT !.win = [s.win EXCEPT ![w] = look]]
  BY <1>1
<1>5. PICK n : n = [s.win EXCEPT ![w] = look]
  OBVIOUS
<1>6. n \in [WinIds -> Looks] /\ n[w] = look /\ \A v \in WinIds \ {w} : n[v] = s.win[v]
  BY <1>2, <1>3, <1>5
<1>7. t \in States /\ t.win = n
  BY <1>4, <1>5, <1>6 DEF States
<1>8. Hides(s, t, {w})
  BY <1>3, <1>6, <1>7 DEF Hides
<1> QED  BY <1>4, <1>7, <1>8 DEF States, SameList

\* The application list is hidden when it loses the focus.
LEMMA WillChangeFields ==
    ASSUME NEW s \in States, s.active \in Refs, NEW t, t = on_active_window_will_change(s),
           NEW H, H = IF s.active # Null /\ type(s, s.active) = "AppList" THEN {s.active} ELSE {}
    PROVE  /\ t \in States /\ SameList(s, t) /\ Hides(s, t, H)
           /\ t.popup = s.popup /\ t.bar = s.bar /\ t.active = s.active
           /\ t.hovered = s.hovered /\ t.movable = s.movable
<1>1. CASE s.active # Null /\ type(s, s.active) = "AppList"
  <2>1. PICK w \in WinIds : w = s.active
    BY <1>1 DEF Refs
  <2>2. PICK r : r = [s EXCEPT !.win[w].visible = FALSE]
    OBVIOUS
  <2>3. /\ r \in States /\ SameList(s, r) /\ Hides(s, r, {w})
        /\ r.popup = s.popup /\ r.bar = s.bar /\ r.active = s.active
        /\ r.hovered = s.hovered /\ r.movable = s.movable
    BY <2>2, HiddenFields
  <2>4. type(r, s.active) # "Standard"
    BY <1>1, <2>1, <2>3 DEF Hides, type
  <2>5. t = r
    BY <1>1, <2>1, <2>2, <2>4 DEF on_active_window_will_change, on_window_became_invisible
  <2> QED  BY <1>1, <2>1, <2>3, <2>5
<1>2. CASE ~(s.active # Null /\ type(s, s.active) = "AppList")
  <2>1. t = s /\ H = {}
    BY <1>2 DEF on_active_window_will_change
  <2> QED  BY <2>1 DEF SameList, Hides
<1> QED  BY <1>1, <1>2

\* The focus leaves every window.
LEMMA UnfocusFields ==
    ASSUME NEW s \in States, NEW t, t = set_active_window(s, Null),
           NEW H, H = IF s.active # Null /\ type(s, s.active) = "AppList" THEN {s.active} ELSE {}
    PROVE  /\ t \in States /\ SameList(s, t) /\ Hides(s, t, H)
           /\ t.popup = s.popup /\ t.bar = s.bar /\ t.active = Null
           /\ t.hovered = s.hovered /\ t.movable = s.movable
<1>1. PICK r : r = on_active_window_will_change(s)
  OBVIOUS
<1>2. s.active \in Refs /\ Null \in Refs
  BY DEF States, Refs
<1>3. /\ r \in States /\ SameList(s, r) /\ Hides(s, r, H)
      /\ r.popup = s.popup /\ r.bar = s.bar /\ r.active = s.active
      /\ r.hovered = s.hovered /\ r.movable = s.movable
  BY <1>1, <1>2, WillChangeFields
<1>4. t = [r EXCEPT !.active = Null]
  BY <1>1 DEF set_active_window
<1>5. t \in States /\ t.win = r.win
  BY <1>2, <1>3, <1>4 DEF States
<1>6. SameList(s, t)
  BY <1>3, <1>4 DEF SameList, States
<1>7. Hides(s, t, H)
  BY <1>3, <1>5 DEF Hides
<1> QED  BY <1>3, <1>4, <1>5, <1>6, <1>7 DEF States

\* on_window_became_invisible and remove_attention_from_window, as minimizing and
\* removing a window call them.
Dropped(s, w) == remove_attention_from_window(on_window_became_invisible(s, w), w)

LEMMA DroppedFields ==
    ASSUME NEW s \in States, NEW w \in WinIds, NEW t, t = Dropped(s, w)
    PROVE  /\ t \in States /\ SameList(s, t)
           /\ Hides(s, t, {}) \/ Hides(s, t, {w})
           /\ t.active = IF s.active = w THEN Null ELSE s.active
           /\ t.movable = IF s.movable = w THEN Null ELSE s.movable
           /\ t.hovered = IF s.hovered = w THEN Null ELSE s.hovered
           /\ IF type(s, w) = "Standard" /\ s.active = w
              THEN t.bar = Null /\ t.popup = Closed
              ELSE t.bar = s.bar /\ t.popup = s.popup
<1> DEFINE lost == type(s, w) = "Standard" /\ s.active = w
<1>1. PICK a : a = on_window_became_invisible(s, w)
  OBVIOUS
<1>2. Null \in Refs /\ w \in Refs /\ w # Null
  BY DEF Refs, WinIds, Null
<1>3. /\ a \in States /\ SameList(s, a) /\ a.win = s.win /\ a.active = s.active
      /\ a.hovered = s.hovered /\ a.movable = s.movable
      /\ IF lost THEN a.bar = Null /\ a.popup = Closed ELSE a.bar = s.bar /\ a.popup = s.popup
  <2>1. CASE lost
    <3>1. a = set_menubar_content(s, Null)
      BY <1>1, <2>1 DEF on_window_became_invisible
    <3> QED  BY <1>2, <2>1, <3>1, BarFields
  <2>2. CASE ~lost
    <3>1. a = s
      BY <1>1, <2>2 DEF on_window_became_invisible
    <3> QED  BY <2>2, <3>1 DEF SameList
  <2> QED  BY <2>1, <2>2
<1> HIDE DEF lost
<1>4. PICK b : b = [a EXCEPT !.movable = IF @ = w THEN Null ELSE @]
  OBVIOUS
<1>5. /\ b \in States /\ SameList(s, b) /\ b.win = s.win /\ b.active = s.active
      /\ b.hovered = s.hovered /\ b.movable = (IF s.movable = w THEN Null ELSE s.movable)
      /\ b.bar = a.bar /\ b.popup = a.popup
  <2>1. b \in States
    BY <1>2, <1>3, <1>4 DEF States
  <2> QED  BY <2>1, <1>3, <1>4 DEF States, SameList
<1>6. PICK c : c = IF b.active = w THEN set_active_window(b, Null) ELSE b
  OBVIOUS
<1>7. /\ c \in States /\ SameList(s, c) /\ (Hides(s, c, {}) \/ Hides(s, c, {w}))
      /\ c.active = (IF s.active = w THEN Null ELSE s.active)
      /\ c.hovered = s.hovered /\ c.movable = b.movable /\ c.bar = b.bar /\ c.popup = b.popup
  <2>1. CASE b.active = w
    <3>1. PICK H : H = IF b.active # Null /\ type(b, b.active) = "AppList" THEN {b.active} ELSE {}
      OBVIOUS
    <3>2. /\ c \in States /\ SameList(b, c) /\ Hides(b, c, H) /\ H \in {{}, {w}}
          /\ c.popup = b.popup /\ c.bar = b.bar /\ c.active = Null
          /\ c.hovered = b.hovered /\ c.movable = b.movable
      BY <1>5, <1>6, <2>1, <3>1, UnfocusFields
    <3>3. Hides(s, c, {}) \/ Hides(s, c, {w})
      BY <1>5, <3>2 DEF Hides
    <3>4. SameList(s, c)
      BY <1>5, <3>2 DEF SameList
    <3> QED  BY <1>5, <2>1, <3>2, <3>3, <3>4
  <2>2. CASE b.active # w
    <3>1. c = b /\ Hides(s, c, {})
      BY <1>5, <1>6, <2>2 DEF Hides
    <3> QED  BY <1>5, <2>2, <3>1
  <2> QED  BY <2>1, <2>2
<1>8. t = [c EXCEPT !.hovered = IF @ = w THEN Null ELSE @]
  BY <1>1, <1>4, <1>6 DEF Dropped, remove_attention_from_window
<1>9. t \in States /\ t.win = c.win
  BY <1>2, <1>7, <1>8 DEF States
<1>10. Hides(s, t, {}) \/ Hides(s, t, {w})
  BY <1>7, <1>9 DEF Hides
<1>11. SameList(s, t)
  BY <1>7, <1>8 DEF SameList, States
<1>12. /\ t.active = c.active /\ t.movable = c.movable /\ t.bar = c.bar /\ t.popup = c.popup
       /\ t.hovered = IF c.hovered = w THEN Null ELSE c.hovered
  BY <1>7, <1>8 DEF States
<1> QED  BY <1>3, <1>5, <1>7, <1>9, <1>10, <1>11, <1>12 DEF lost

-----------------------------------------------------------------------------
(* Minimizing and removing a window.                                         *)

\* The same windows and listeners, told the same.
Kin(s, t) ==
    /\ Live(t) = Live(s) /\ t.dock = s.dock /\ t.told = s.told
    /\ t.next = s.next /\ t.hiding = s.hiding
    /\ \A v \in WinIds : t.win[v].type = s.win[v].type /\ t.win[v].mask = s.win[v].mask

LEMMA KinTold ==
    ASSUME NEW s \in States, NEW t, NEW but, Kin(s, t), ToldBut(s, but)
    PROVE  ToldBut(t, but)
<1>1. Live(s) \subseteq WinIds
  BY DEF Live, Range, States
<1> QED  BY <1>1 DEF Kin, ToldBut

LEMMA LiveIds ==
    ASSUME NEW s \in States
    PROVE  /\ Live(s) \subseteq WinIds /\ Null \notin WinIds /\ s.windows \in Seq(WinIds)
           /\ {s.active, s.hovered, s.movable, s.bar, s.dock} \subseteq WinIds \cup {Null}
<1>1. s.windows \in Seq(WinIds)
  BY DEF States
<1>2. Live(s) \subseteq WinIds
  BY <1>1 DEF Live, Range
<1> QED  BY <1>1, <1>2 DEF States, Refs, WinIds, Null

\* The active window is still on top when another goes to the back.
LEMMA TopStays ==
    ASSUME NEW s \in States, IsInjective(s.windows), NEW w \in Live(s), OnTop(s),
           s.active # w, s.active # Null,
           NEW r, r = RemoveFirst(s.windows, w)
    PROVE  \E i \in {1, 2} : /\ i \in DOMAIN r /\ r[i] = s.active
                             /\ i = 2 => r[1] = s.dock
<1>1. PICK q : q = s.windows
  OBVIOUS
<1>2. q \in Seq(WinIds) /\ IsInjective(q) /\ w \in Range(q)
  BY <1>1, LiveIds DEF Live
<1>3. PICK j \in DOMAIN q : q[j] = w /\ Shifted(q, r, j) /\ r \in Seq(WinIds)
  BY <1>1, <1>2, Erased
<1>4. PICK i \in {1, 2} : i \in DOMAIN q /\ q[i] = s.active /\ (i = 2 => q[1] = s.dock)
  BY <1>1 DEF OnTop
<1>5. PICK n \in Nat : n = Len(q)
  BY <1>2
<1>6. /\ i \in 1 .. n /\ j \in 1 .. n /\ i # j /\ DOMAIN r = 1 .. n - 1
      /\ \A x \in 1 .. n - 1 : r[x] = IF x < j THEN q[x] ELSE q[x + 1]
  BY <1>2, <1>3, <1>4, <1>5 DEF Shifted
<1>7. CASE i < j
  <2>1. i \in DOMAIN r /\ r[i] = s.active
    BY <1>4, <1>5, <1>6, <1>7
  <2>2. i = 2 => r[1] = s.dock
    BY <1>4, <1>5, <1>6, <1>7
  <2> QED  BY <2>1, <2>2
<1>8. CASE j < i
  <2>1. i = 2 /\ j = 1 /\ 1 \in 1 .. n - 1
    BY <1>4, <1>5, <1>6, <1>8
  <2>2. 1 \in DOMAIN r /\ r[1] = s.active
    BY <1>4, <1>6, <2>1
  <2> QED  BY <2>2
<1> QED  BY <1>5, <1>6, <1>7, <1>8

LEMMA MinimizedSound ==
    ASSUME NEW s, Sound(s), NEW w \in Live(s), NEW t, t = Minimized(s, w)
    PROVE  Sound(t) /\ Kin(s, t) /\ t.ub = s.ub
<1>1. /\ s \in States /\ IsInjective(s.windows) /\ Pointers(s) /\ Bars(s) /\ w \in WinIds
      /\ Live(s) \subseteq WinIds /\ Null \notin WinIds
  BY LiveIds DEF Sound
<1>2. PICK h : h = [s EXCEPT !.win[w].visible = FALSE]
  OBVIOUS
<1>3. /\ h \in States /\ SameList(s, h) /\ Hides(s, h, {w})
      /\ h.popup = s.popup /\ h.bar = s.bar /\ h.active = s.active
      /\ h.hovered = s.hovered /\ h.movable = s.movable
  BY <1>1, <1>2, HiddenFields
<1>4. PICK b : b = ToBack(s, w)
  OBVIOUS
<1>5. b \in Seq(WinIds) /\ IsInjective(b) /\ Range(b) = Live(s)
  BY <1>1, <1>4, LiveIds, Moved
<1>6. PICK m : m = [h EXCEPT !.windows = b]
  OBVIOUS
<1>7. m \in States /\ m.windows = b
  BY <1>3, <1>5, <1>6 DEF States
<1>8. /\ m.win = h.win /\ m.dock = s.dock /\ m.told = s.told /\ m.next = s.next
      /\ m.ub = s.ub /\ m.hiding = s.hiding /\ m.popup = s.popup /\ m.bar = s.bar
      /\ m.active = s.active /\ m.hovered = s.hovered /\ m.movable = s.movable
  BY <1>3, <1>6 DEF States, SameList
<1>9. t = Dropped(m, w)
  <2>1. m = [s EXCEPT !.win[w].visible = FALSE, !.windows = ToBack(s, w)]
    BY <1>2, <1>4, <1>6
  <2> QED  BY <2>1 DEF Minimized, Dropped
<1>10. type(m, w) = type(s, w)
  BY <1>1, <1>3, <1>8 DEF Hides, type
<1>11. /\ t \in States /\ SameList(m, t)
       /\ Hides(m, t, {}) \/ Hides(m, t, {w})
       /\ t.active = IF m.active = w THEN Null ELSE m.active
       /\ t.movable = IF m.movable = w THEN Null ELSE m.movable
       /\ t.hovered = IF m.hovered = w THEN Null ELSE m.hovered
       /\ IF type(m, w) = "Standard" /\ m.active = w
          THEN t.bar = Null /\ t.popup = Closed
          ELSE t.bar = m.bar /\ t.popup = m.popup
  <2>1. m \in States /\ w \in WinIds
    BY <1>1, <1>7
  <2> QED  BY <1>9, <2>1, DroppedFields
<1>12. Hides(s, t, {w})
  BY <1>3, <1>8, <1>11 DEF Hides
<1>13. /\ t.windows = b /\ Live(t) = Live(s) /\ t.dock = s.dock /\ t.told = s.told
       /\ t.next = s.next /\ t.ub = s.ub /\ t.hiding = s.hiding
  BY <1>5, <1>7, <1>8, <1>11 DEF SameList, Live
<1>14. Kin(s, t)
  BY <1>12, <1>13 DEF Kin, Hides
<1>15. /\ t.active = (IF s.active = w THEN Null ELSE s.active)
       /\ t.movable = (IF s.movable = w THEN Null ELSE s.movable)
       /\ t.hovered = (IF s.hovered = w THEN Null ELSE s.hovered)
       /\ IF type(s, w) = "Standard" /\ s.active = w
          THEN t.bar = Null /\ t.popup = Closed
          ELSE t.bar = s.bar /\ t.popup = s.popup
  BY <1>8, <1>10, <1>11
<1>16. Bars(t)
  <2>1. t.bar = IF t.active # Null /\ type(t, t.active) = "Standard" THEN t.active ELSE Null
    BY <1>1, <1>12, <1>15 DEF Bars, Hides, type, Pointers
  <2>2. t.popup.visible /\ t.popup.menu # Requested => t.bar # Null /\ t.popup.owner = t.bar
    BY <1>1, <1>15, ClosedIs DEF Bars
  <2>3. \A v \in Live(t) : type(t, v) = "AppList" /\ t.win[v].visible => t.active = v
    BY <1>1, <1>12, <1>13, <1>15 DEF Bars, Hides, type
  <2> QED  BY <2>1, <2>2, <2>3 DEF Bars
<1>17. Pointers(t)
  <2>1. {t.active, t.hovered, t.movable, t.bar} \subseteq Live(t) \cup {Null}
    BY <1>1, <1>13, <1>15 DEF Pointers
  <2>2. t.dock \in Live(t) => type(t, t.dock) = "Homescreen"
    BY <1>1, <1>12, <1>13 DEF Pointers, Hides, type
  <2> QED  BY <1>1, <1>13, <2>1, <2>2 DEF Pointers
<1>18. ASSUME t.ub = "no" PROVE OnTop(t) /\ Frames(t)
  <2>1. OnTop(s) /\ Frames(s)
    BY <1>13, <1>18 DEF Sound
  <2>2. Frames(t)
    BY <1>1, <1>12, <1>13, <1>15, <2>1 DEF Frames, Hides, type
  <2>3. CASE t.active # Null
    <3>1. s.active # w /\ s.active # Null /\ t.active = s.active
      BY <1>15, <2>3
    <3>2. PICK r : r = RemoveFirst(s.windows, w)
      OBVIOUS
    <3>3. PICK i \in {1, 2} : i \in DOMAIN r /\ r[i] = s.active /\ (i = 2 => r[1] = s.dock)
      BY <1>1, <2>1, <3>1, <3>2, TopStays
    <3>4. r \in Seq(WinIds)
      BY <1>1, <3>2, LiveIds, Erased DEF Live
    <3>5. b = Append(r, w) /\ i \in DOMAIN b /\ b[i] = r[i] /\ (i = 2 => b[1] = r[1])
      <4>1. b = Append(r, w)
        BY <1>4, <3>2 DEF ToBack
      <4>2. \A x \in 1 .. Len(r) : x \in DOMAIN b /\ b[x] = r[x]
        BY <1>1, <3>4, <4>1
      <4>3. i \in 1 .. Len(r) /\ (i = 2 => 1 \in 1 .. Len(r))
        BY <3>3, <3>4
      <4> QED  BY <4>1, <4>2, <4>3
    <3>6. t.win[t.active].visible
      BY <1>1, <1>12, <2>1, <3>1 DEF Hides, OnTop, Pointers
    <3> QED  BY <1>13, <2>2, <3>1, <3>3, <3>5, <3>6 DEF OnTop
  <2> QED  BY <2>2, <2>3 DEF OnTop
<1>19. IsInjective(t.windows)
  BY <1>5, <1>13
<1> QED  BY <1>11, <1>13, <1>14, <1>16, <1>17, <1>18, <1>19 DEF Sound

\* What the listeners of the list know after a telling.
Tells(s, t, w, created) ==
    \A v \in WinIds : t.told[v] =
        IF v \in Live(s) /\ s.win[v].mask
        THEN IF created THEN s.told[v] \cup {w} ELSE s.told[v] \ {w} ELSE s.told[v]

LEMMA NotifyFields ==
    ASSUME NEW s \in States, NEW w \in Live(s), NEW created \in BOOLEAN,
           NEW t, t = notify(s, w, created)
    PROVE  /\ t \in States /\ Tells(s, t, w, created)
           /\ t.windows = s.windows /\ t.win = s.win /\ t.dock = s.dock /\ t.next = s.next
           /\ t.ub = s.ub /\ t.hiding = s.hiding /\ t.active = s.active /\ t.bar = s.bar
           /\ t.popup = s.popup /\ t.hovered = s.hovered /\ t.movable = s.movable
<1>1. PICK n : n = [v \in WinIds |->
                      IF v \in Live(s) /\ s.win[v].mask
                      THEN IF created THEN s.told[v] \cup {w} ELSE s.told[v] \ {w}
                      ELSE s.told[v]]
  OBVIOUS
<1>2. w \in WinIds /\ s.told \in [WinIds -> SUBSET WinIds]
  BY LiveIds DEF States
<1>3. n \in [WinIds -> SUBSET WinIds]
  BY <1>1, <1>2
<1>4. t = [s EXCEPT !.told = n]
  BY <1>1 DEF notify
<1>5. t \in States /\ t.told = n
  BY <1>3, <1>4 DEF States
<1>6. /\ t.windows = s.windows /\ t.win = s.win /\ t.dock = s.dock /\ t.next = s.next
      /\ t.ub = s.ub /\ t.hiding = s.hiding /\ t.active = s.active /\ t.bar = s.bar
      /\ t.popup = s.popup /\ t.hovered = s.hovered /\ t.movable = s.movable
  BY <1>4 DEF States
<1> QED  BY <1>1, <1>5, <1>6 DEF Tells

\* A telling leaves everything but what was told.
LEMMA NotifySound ==
    ASSUME NEW s, Sound(s), NEW w \in Live(s), NEW created \in BOOLEAN
    PROVE  Sound(notify(s, w, created))
<1>1. s \in States
  BY DEF Sound
<1>2. PICK t : t = notify(s, w, created)
  OBVIOUS
<1>3. /\ t \in States
      /\ t.windows = s.windows /\ t.win = s.win /\ t.dock = s.dock /\ t.next = s.next
      /\ t.ub = s.ub /\ t.hiding = s.hiding /\ t.active = s.active /\ t.bar = s.bar
      /\ t.popup = s.popup /\ t.hovered = s.hovered /\ t.movable = s.movable
  BY <1>1, <1>2, NotifyFields
<1>4. Live(t) = Live(s)
  BY <1>3 DEF Live
<1>5. Pointers(t) /\ Bars(t)
  BY <1>3, <1>4 DEF Sound, Pointers, Bars, type
<1>6. t.ub = "no" => OnTop(t) /\ Frames(t)
  BY <1>3, <1>4 DEF Sound, OnTop, Frames, type
<1> QED  BY <1>2, <1>3, <1>5, <1>6 DEF Sound

LEMMA BlankIs == Blank \in Looks /\ Blank.frame = FALSE /\ Blank.mask = FALSE
BY DEF Blank, Looks, Types

LEMMA RemovedSound ==
    ASSUME NEW s, Sound(s), ToldBut(s, {}), s.hiding = {}, s.ub = "no", NEW w \in Live(s),
           NEW z, z = remove_window(s, w)
    PROVE  Sound(z) /\ ToldBut(z, {})
<1>1. /\ s \in States /\ IsInjective(s.windows) /\ Pointers(s) /\ Bars(s) /\ w \in WinIds
      /\ Live(s) \subseteq WinIds /\ Null \notin WinIds /\ OnTop(s) /\ Frames(s)
      /\ s.windows \in Seq(WinIds)
  BY LiveIds DEF Sound
<1>2. PICK t : t = notify(s, w, FALSE)
  OBVIOUS
<1>3. /\ t \in States /\ Tells(s, t, w, FALSE)
      /\ t.windows = s.windows /\ t.win = s.win /\ t.dock = s.dock /\ t.next = s.next
      /\ t.ub = s.ub /\ t.hiding = s.hiding /\ t.active = s.active /\ t.bar = s.bar
      /\ t.popup = s.popup /\ t.hovered = s.hovered /\ t.movable = s.movable
  <2>1. s \in States
    BY <1>1
  <2>2. \A c \in BOOLEAN : t = notify(s, w, c) =>
          /\ t \in States /\ Tells(s, t, w, c)
          /\ t.windows = s.windows /\ t.win = s.win /\ t.dock = s.dock /\ t.next = s.next
          /\ t.ub = s.ub /\ t.hiding = s.hiding /\ t.active = s.active /\ t.bar = s.bar
          /\ t.popup = s.popup /\ t.hovered = s.hovered /\ t.movable = s.movable
    BY <2>1, NotifyFields
  <2> QED  BY <1>2, <2>2
<1>4. PICK r : r = RemoveFirst(s.windows, w)
  OBVIOUS
<1>5. r \in Seq(WinIds) /\ IsInjective(r) /\ Range(r) = Live(s) \ {w}
  BY <1>1, <1>4, Erased DEF Live
<1>6. PICK u : u = [t EXCEPT !.windows = r]
  OBVIOUS
<1>7. /\ u \in States /\ u.windows = r
      /\ u.told = t.told /\ u.win = s.win /\ u.dock = s.dock /\ u.next = s.next
      /\ u.ub = s.ub /\ u.hiding = s.hiding /\ u.active = s.active /\ u.bar = s.bar
      /\ u.popup = s.popup /\ u.hovered = s.hovered /\ u.movable = s.movable
  <2>1. u \in States
    BY <1>3, <1>5, <1>6 DEF States
  <2> QED  BY <1>3, <1>6, <2>1 DEF States
<1>8. PICK v : v = Dropped(u, w)
  OBVIOUS
<1>9. /\ v \in States /\ SameList(u, v)
      /\ Hides(u, v, {}) \/ Hides(u, v, {w})
      /\ v.active = IF u.active = w THEN Null ELSE u.active
      /\ v.movable = IF u.movable = w THEN Null ELSE u.movable
      /\ v.hovered = IF u.hovered = w THEN Null ELSE u.hovered
      /\ IF type(u, w) = "Standard" /\ u.active = w
         THEN v.bar = Null /\ v.popup = Closed
         ELSE v.bar = u.bar /\ v.popup = u.popup
  <2>1. u \in States /\ w \in WinIds
    BY <1>1, <1>7
  <2> QED  BY <1>8, <2>1, DroppedFields
<1>10. z = [v EXCEPT !.win[w] = Blank, !.told[w] = {}]
  <2>1. u = [notify(s, w, FALSE) EXCEPT !.windows = RemoveFirst(@, w)]
    BY <1>2, <1>3, <1>4, <1>6
  <2> QED  BY <1>8, <2>1 DEF remove_window, Dropped
<1>11. PICK look : look = [v.win EXCEPT ![w] = Blank]
  OBVIOUS
<1>12. PICK told : told = [v.told EXCEPT ![w] = {}]
  OBVIOUS
<1>13. v.win \in [WinIds -> Looks] /\ v.told \in [WinIds -> SUBSET WinIds]
  BY <1>9 DEF States
<1>14. /\ look \in [WinIds -> Looks] /\ look[w] = Blank
       /\ \A x \in WinIds \ {w} : look[x] = v.win[x]
  BY <1>1, <1>11, <1>13, BlankIs
<1>15. /\ told \in [WinIds -> SUBSET WinIds] /\ told[w] = {}
       /\ \A x \in WinIds \ {w} : told[x] = v.told[x]
  BY <1>1, <1>12, <1>13
<1>16. z = [v EXCEPT !.win = look, !.told = told]
  BY <1>10, <1>11, <1>12
<1>17. z \in States /\ z.win = look /\ z.told = told
  BY <1>9, <1>14, <1>15, <1>16 DEF States
<1>18. /\ z.windows = r /\ z.dock = s.dock /\ z.next = s.next /\ z.ub = s.ub
       /\ z.hiding = {} /\ Live(z) = Live(s) \ {w}
       /\ z.active = v.active /\ z.movable = v.movable /\ z.hovered = v.hovered
       /\ z.bar = v.bar /\ z.popup = v.popup
  <2>1. /\ z.windows = v.windows /\ z.dock = v.dock /\ z.next = v.next /\ z.ub = v.ub
        /\ z.hiding = v.hiding
        /\ z.active = v.active /\ z.movable = v.movable /\ z.hovered = v.hovered
        /\ z.bar = v.bar /\ z.popup = v.popup
    BY <1>9, <1>16 DEF States
  <2> QED  BY <1>5, <1>7, <1>9, <2>1 DEF SameList, Live
<1>19. /\ z.active = (IF s.active = w THEN Null ELSE s.active)
       /\ z.movable = (IF s.movable = w THEN Null ELSE s.movable)
       /\ z.hovered = (IF s.hovered = w THEN Null ELSE s.hovered)
       /\ IF type(s, w) = "Standard" /\ s.active = w
          THEN z.bar = Null /\ z.popup = Closed
          ELSE z.bar = s.bar /\ z.popup = s.popup
  BY <1>7, <1>9, <1>18 DEF type
<1>20. \A x \in Live(z) : /\ z.win[x].type = s.win[x].type /\ z.win[x].mask = s.win[x].mask
                          /\ z.win[x].frame = s.win[x].frame
                          /\ z.win[x].visible = s.win[x].visible
  <2> SUFFICES ASSUME NEW x \in Live(z)
               PROVE  /\ z.win[x].type = s.win[x].type /\ z.win[x].mask = s.win[x].mask
                      /\ z.win[x].frame = s.win[x].frame
                      /\ z.win[x].visible = s.win[x].visible
    OBVIOUS
  <2>1. x \in WinIds \ {w}
    BY <1>1, <1>18
  <2>2. z.win[x] = v.win[x] /\ v.win[x] \in Looks /\ s.win[x] \in Looks
    BY <1>1, <1>13, <1>14, <1>17, <2>1 DEF States
  <2> QED  BY <1>7, <1>9, <2>1, <2>2 DEF Hides, Looks
<1>21. Bars(z)
  <2>1. z.bar = IF z.active # Null /\ type(z, z.active) = "Standard" THEN z.active ELSE Null
    BY <1>1, <1>18, <1>19, <1>20 DEF Bars, type, Pointers
  <2>2. z.popup.visible /\ z.popup.menu # Requested => z.bar # Null /\ z.popup.owner = z.bar
    BY <1>1, <1>19, ClosedIs DEF Bars
  <2>3. \A x \in Live(z) : type(z, x) = "AppList" /\ z.win[x].visible => z.active = x
    BY <1>1, <1>18, <1>19, <1>20 DEF Bars, type
  <2> QED  BY <2>1, <2>2, <2>3 DEF Bars
<1>22. Pointers(z)
  <2>1. s.bar = w => type(s, w) = "Standard" /\ s.active = w
    BY <1>1 DEF Bars
  <2>2. {z.active, z.hovered, z.movable, z.bar} \subseteq Live(z) \cup {Null}
    BY <1>1, <1>18, <1>19, <2>1 DEF Pointers
  <2>3. z.dock \in Live(z) => type(z, z.dock) = "Homescreen"
    BY <1>1, <1>18, <1>20 DEF Pointers, type
  <2> QED  BY <1>1, <1>18, <2>2, <2>3 DEF Pointers
<1>23. Frames(z)
  BY <1>1, <1>18, <1>19, <1>20 DEF Frames, type
<1>24. OnTop(z)
  <2> SUFFICES ASSUME z.active # Null PROVE OnTop(z)
    BY DEF OnTop
  <2>1. s.active # w /\ s.active # Null /\ z.active = s.active
    BY <1>19
  <2>2. PICK i \in {1, 2} : i \in DOMAIN r /\ r[i] = s.active /\ (i = 2 => r[1] = s.dock)
    BY <1>1, <1>4, <2>1, TopStays
  <2>3. z.win[z.active].visible
    BY <1>1, <1>18, <1>20, <2>1 DEF OnTop, Pointers
  <2> QED  BY <1>18, <2>1, <2>2, <2>3 DEF OnTop
<1>25. ToldBut(z, {})
  <2>1. \A x \in WinIds \ {w} : z.told[x] = t.told[x]
    BY <1>7, <1>9, <1>15, <1>17 DEF SameList
  <2>2. ASSUME NEW d \in WinIds, d \notin Live(z) \/ ~z.win[d].mask PROVE z.told[d] = {}
    <3>1. CASE d = w
      BY <1>15, <1>17, <3>1
    <3>2. CASE d # w
      <4>1. d \notin Live(s) \/ ~s.win[d].mask
        BY <1>7, <1>9, <1>14, <1>17, <1>18, <2>2, <3>2 DEF Hides
      <4> QED  BY <1>3, <2>1, <3>2, <4>1 DEF ToldBut, Tells
    <3> QED  BY <3>1, <3>2
  <2>3. ASSUME NEW d \in Live(z), z.win[d].mask PROVE z.told[d] = {x \in Live(z) \ {} : x >= d}
    <3>1. d \in Live(s) /\ d # w /\ d \in WinIds /\ s.win[d].mask
      BY <1>1, <1>18, <1>20, <2>3
    <3>2. z.told[d] = s.told[d] \ {w}
      BY <1>3, <2>1, <3>1 DEF Tells
    <3>3. s.told[d] = {x \in Live(s) \ {} : x >= d}
      BY <3>1 DEF ToldBut
    <3> QED  BY <1>18, <3>2, <3>3
  <2> QED  BY <2>2, <2>3 DEF ToldBut
<1> QED  BY <1>5, <1>17, <1>18, <1>21, <1>22, <1>23, <1>24, <1>25 DEF Sound

-----------------------------------------------------------------------------
(* Moving the focus.                                                         *)

\* The frame that bring_to_front fades is that of a standard window which is
\* first, or second behind one that is not.
LEMMA TopIs ==
    ASSUME NEW s \in States, NEW i \in {1, 2}, i \in DOMAIN s.windows,
           type(s, s.windows[i]) = "Standard",
           i = 2 => type(s, s.windows[1]) # "Standard"
    PROVE  top_window_in_view(s) = i
<1>1. PICK I : I = {j \in 1 .. Len(s.windows) : type(s, s.windows[j]) = "Standard"}
  OBVIOUS
<1>2. s.windows \in Seq(WinIds)
  BY DEF States
<1>3. I \subseteq Nat \ {0} /\ i \in I /\ (i = 2 => 1 \notin I)
  BY <1>1, <1>2
<1>4. \A x : x \in I /\ (\A y \in I : x <= y) <=> x = i
  <2>1. \A y \in I : i <= y
    BY <1>3
  <2>2. ASSUME NEW x \in I, \A y \in I : x <= y PROVE x = i
    <3>1. x <= i /\ i <= x /\ x \in Nat /\ i \in Nat
      BY <1>3, <2>1, <2>2
    <3> QED  BY <3>1
  <2> QED  BY <1>3, <2>1, <2>2
<1>5. Min(I) = i
  BY <1>4 DEF Min
<1>6. I # {}
  BY <1>3
<1>7. top_window_in_view(s) = IF I # {} THEN Min(I) ELSE 0
  BY <1>1 DEF top_window_in_view, SelectInSeq
<1> QED  BY <1>5, <1>6, <1>7

\* s with a new list, and a use of a dock that is gone.
Relisted(s, t) ==
    /\ t.win = s.win /\ t.dock = s.dock /\ t.told = s.told /\ t.next = s.next
    /\ t.hiding = s.hiding /\ t.active = s.active /\ t.bar = s.bar /\ t.popup = s.popup
    /\ t.hovered = s.hovered /\ t.movable = s.movable

LEMMA FrontFields ==
    ASSUME NEW s \in States, IsInjective(s.windows), NEW w \in Live(s),
           NEW t, t = bring_system_windows_to_front(do_bring_to_front(s, w))
    PROVE  /\ t \in States /\ IsInjective(t.windows) /\ Live(t) = Live(s) /\ Relisted(s, t)
           /\ t.ub = IF s.dock \in Live(s) \cup {Null} THEN s.ub ELSE "dock"
           /\ \E i \in {1, 2} : /\ i \in DOMAIN t.windows /\ t.windows[i] = w
                                /\ i = 2 => t.windows[1] = s.dock
<1>1. PICK f : f = ToFront(s, w)
  OBVIOUS
<1>2. /\ f \in Seq(WinIds) /\ IsInjective(f) /\ Range(f) = Live(s)
      /\ 1 \in DOMAIN f /\ f[1] = w /\ s.dock \in Refs
  <2>1. s.windows \in Seq(WinIds) /\ s.dock \in Refs
    BY DEF States
  <2> QED  BY <1>1, <2>1, Moved
<1>3. PICK b : b = do_bring_to_front(s, w)
  OBVIOUS
<1>4. b = [s EXCEPT !.windows = f]
  BY <1>1, <1>3 DEF do_bring_to_front
<1>5. b \in States /\ b.windows = f /\ Live(b) = Live(s) /\ b.ub = s.ub /\ Relisted(s, b)
  <2>1. b \in States /\ b.windows = f
    BY <1>2, <1>4 DEF States
  <2> QED  BY <1>2, <1>4, <2>1 DEF States, Live, Relisted
<1>6. CASE s.dock = Null
  <2>1. t = b
    BY <1>3, <1>5, <1>6 DEF bring_system_windows_to_front, Relisted
  <2> QED  BY <1>2, <1>5, <1>6, <2>1
<1>7. CASE s.dock # Null /\ s.dock \notin Live(s)
  <2>1. t = [b EXCEPT !.ub = "dock"]
    BY <1>3, <1>5, <1>7 DEF bring_system_windows_to_front, do_bring_to_front, Relisted
  <2>2. t \in States /\ t.windows = f /\ t.ub = "dock" /\ Relisted(s, t)
    <3>1. t \in States
      BY <1>5, <2>1 DEF States, Uses
    <3> QED  BY <1>5, <2>1, <3>1 DEF States, Relisted
  <2> QED  BY <1>2, <1>7, <2>2 DEF Live
<1>8. CASE s.dock # Null /\ s.dock \in Live(s)
  <2>1. PICK d : d = s.dock
    OBVIOUS
  <2>2. PICK g : g = ToFront(b, d)
    OBVIOUS
  <2>3. d \in Live(b) /\ b.dock = d
    BY <1>5, <1>8, <2>1 DEF Relisted
  <2>4. /\ g \in Seq(WinIds) /\ IsInjective(g) /\ Range(g) = Live(s) /\ g[1] = d
        /\ 1 \in DOMAIN g
    BY <1>2, <1>5, <2>2, <2>3, Moved
  <2>5. t = [b EXCEPT !.windows = g]
    BY <1>3, <1>8, <2>1, <2>2, <2>3 DEF bring_system_windows_to_front, do_bring_to_front
  <2>6. t \in States /\ t.windows = g /\ t.ub = s.ub /\ Relisted(s, t)
    <3>1. t \in States /\ t.windows = g
      BY <1>5, <2>4, <2>5 DEF States
    <3> QED  BY <1>5, <2>5, <3>1 DEF States, Relisted
  <2>7. \E i \in {1, 2} : i \in DOMAIN g /\ g[i] = w /\ (i = 2 => g[1] = d)
    <3>1. CASE d = w
      BY <2>4, <3>1
    <3>2. CASE d # w
      <4>1. PICK r : r = RemoveFirst(f, d)
        OBVIOUS
      <4>2. d \in Range(f)
        BY <1>2, <1>5, <2>3
      <4>3. PICK j \in DOMAIN f : f[j] = d /\ Shifted(f, r, j) /\ r \in Seq(WinIds)
        BY <1>2, <4>1, <4>2, Erased
      <4>4. 1 \in 1 .. Len(r) /\ r[1] = w
        BY <1>2, <3>2, <4>3 DEF Shifted
      <4>5. g = <<d>> \o r
        BY <1>5, <2>2, <4>1 DEF ToFront
      <4>6. d \in WinIds
        BY <2>3, <1>5, LiveIds
      <4>7. 2 \in DOMAIN g /\ g[2] = r[1]
        BY <4>3, <4>4, <4>5, <4>6
      <4> QED  BY <2>4, <4>4, <4>7
    <3> QED  BY <3>1, <3>2
  <2> QED  BY <1>8, <2>1, <2>4, <2>6, <2>7 DEF Live
<1> QED  BY <1>6, <1>7, <1>8

\* What moving the focus to w needs of a state; a window that add_window has just
\* put in the list meets it too.
Focusable(s, w) ==
    /\ s \in States /\ IsInjective(s.windows) /\ Pointers(s) /\ w \in Live(s)
    /\ \A v \in Live(s) : type(s, v) = "AppList" /\ s.win[v].visible => v \in {w, s.active}
    /\ s.ub = "no" => OnTop(s) /\ Frames(s)

LEMMA FocusedSound ==
    ASSUME NEW s, NEW w, Focusable(s, w), NEW t, t = set_active_window(s, w)
    PROVE  /\ Sound(t) /\ Kin(s, t) /\ t.active = w
           /\ s.dock \notin Live(s) \cup {Null} => t.ub = "dock"
<1>1. /\ s \in States /\ IsInjective(s.windows) /\ Pointers(s) /\ w \in Live(s) /\ w \in WinIds
      /\ Live(s) \subseteq WinIds /\ Null \notin WinIds /\ w # Null
  BY LiveIds DEF Focusable
<1>2. PICK H : H = IF s.active # Null /\ type(s, s.active) = "AppList" THEN {s.active} ELSE {}
  OBVIOUS
<1>3. PICK a : a = on_active_window_will_change(s)
  OBVIOUS
<1>4. /\ a \in States /\ SameList(s, a) /\ Hides(s, a, H)
      /\ a.popup = s.popup /\ a.bar = s.bar /\ a.active = s.active
      /\ a.hovered = s.hovered /\ a.movable = s.movable
  <2>1. s \in States /\ s.active \in Refs
    BY <1>1 DEF States
  <2> QED  BY <1>2, <1>3, <2>1, WillChangeFields
<1>5. PICK c : c = bring_system_windows_to_front(do_bring_to_front(a, w))
  OBVIOUS
<1>6. /\ c \in States /\ IsInjective(c.windows) /\ Live(c) = Live(a) /\ Relisted(a, c)
      /\ c.ub = IF a.dock \in Live(a) \cup {Null} THEN a.ub ELSE "dock"
      /\ \E i \in {1, 2} : /\ i \in DOMAIN c.windows /\ c.windows[i] = w
                           /\ i = 2 => c.windows[1] = a.dock
  <2>1. a \in States /\ IsInjective(a.windows) /\ w \in Live(a)
    BY <1>1, <1>4 DEF SameList, Live
  <2> QED  BY <1>5, <2>1, FrontFields
<1>7. PICK prev :
        prev = IF top_window_in_view(a) = 0 THEN Null ELSE a.windows[top_window_in_view(a)]
  OBVIOUS
<1>8. PICK look : look = [v \in WinIds |->
                     IF v = w THEN [c.win[v] EXCEPT !.visible = TRUE, !.frame = TRUE]
                     ELSE IF v = prev THEN [c.win[v] EXCEPT !.frame = FALSE] ELSE c.win[v]]
  OBVIOUS
<1>9. /\ look \in [WinIds -> Looks]
      /\ look[w].visible /\ look[w].frame
      /\ \A v \in WinIds : look[v].type = s.win[v].type /\ look[v].mask = s.win[v].mask
      /\ \A v \in WinIds \ {w} :
            /\ look[v].visible <=> s.win[v].visible /\ v \notin H
            /\ look[v].frame <=> s.win[v].frame /\ v # prev
  <2>1. ASSUME NEW v \in WinIds
        PROVE  /\ c.win[v] \in Looks /\ s.win[v] \in Looks
               /\ c.win[v].type = s.win[v].type /\ c.win[v].mask = s.win[v].mask
               /\ c.win[v].frame = s.win[v].frame
               /\ c.win[v].visible <=> s.win[v].visible /\ v \notin H
    <3>1. c.win[v] \in Looks /\ s.win[v] \in Looks
      BY <1>1, <1>6 DEF States
    <3>2. c.win = a.win
      BY <1>6 DEF Relisted
    <3> QED  BY <1>4, <3>1, <3>2 DEF Hides
  <2>2. ASSUME NEW v \in WinIds
        PROVE  /\ look[v] \in Looks /\ look[v].type = c.win[v].type
               /\ look[v].mask = c.win[v].mask
               /\ v = w => look[v].visible /\ look[v].frame
               /\ v # w => /\ look[v].visible <=> c.win[v].visible
                           /\ look[v].frame <=> c.win[v].frame /\ v # prev
    BY <1>8, <2>1 DEF Looks
  <2> QED  BY <1>1, <1>8, <2>1, <2>2
<1>10. PICK u : u = [c EXCEPT !.win = look]
  OBVIOUS
<1>11. /\ u \in States /\ u.win = look /\ u.windows = c.windows /\ u.ub = c.ub
       /\ u.dock = s.dock /\ u.told = s.told /\ u.next = s.next /\ u.hiding = s.hiding
       /\ u.hovered = s.hovered /\ u.movable = s.movable
  <2>1. u \in States /\ u.win = look
    BY <1>6, <1>9, <1>10 DEF States
  <2> QED  BY <1>4, <1>6, <1>10, <2>1 DEF States, SameList, Relisted
<1>12. PICK bar \in Refs : bar = IF type(u, w) = "Standard" THEN w ELSE Null
  BY <1>1 DEF Refs
<1>13. PICK m : m = set_menubar_content(u, bar)
  OBVIOUS
<1>14. /\ m \in States /\ m.popup = Closed /\ m.bar = bar /\ SameList(u, m)
       /\ m.win = u.win /\ m.active = u.active
       /\ m.hovered = u.hovered /\ m.movable = u.movable
  BY <1>11, <1>13, BarFields
<1>15. t = [m EXCEPT !.active = w]
  <2>1. bring_to_front(a, w) = m
    BY <1>5, <1>7, <1>8, <1>10, <1>12, <1>13 DEF bring_to_front
  <2> QED  BY <1>1, <1>3, <2>1 DEF set_active_window
<1>16. /\ t \in States /\ t.active = w /\ t.win = look /\ t.windows = c.windows /\ t.ub = c.ub
       /\ t.dock = s.dock /\ t.told = s.told /\ t.next = s.next /\ t.hiding = s.hiding
       /\ t.hovered = s.hovered /\ t.movable = s.movable /\ t.bar = bar /\ t.popup = Closed
  <2>1. t \in States
    BY <1>1, <1>14, <1>15 DEF States, Refs
  <2>2. /\ t.active = w /\ t.win = m.win /\ t.windows = m.windows /\ t.ub = m.ub
        /\ t.dock = m.dock /\ t.told = m.told /\ t.next = m.next /\ t.hiding = m.hiding
        /\ t.hovered = m.hovered /\ t.movable = m.movable /\ t.bar = m.bar
        /\ t.popup = m.popup
    BY <1>14, <1>15 DEF States
  <2> QED  BY <1>11, <1>14, <2>1, <2>2 DEF SameList
<1>17. Live(t) = Live(s)
  BY <1>4, <1>6, <1>16 DEF SameList, Live
<1>18. Kin(s, t)
  BY <1>9, <1>16, <1>17 DEF Kin
<1>19. Pointers(t)
  <2>1. {t.active, t.hovered, t.movable, t.bar} \subseteq Live(t) \cup {Null}
    BY <1>1, <1>12, <1>16, <1>17 DEF Pointers
  <2>2. t.dock \in Live(t) => type(t, t.dock) = "Homescreen"
    BY <1>1, <1>9, <1>16, <1>17 DEF Pointers, type
  <2>3. t.ub # "window"
    BY <1>1, <1>4, <1>6, <1>16 DEF Pointers, SameList
  <2> QED  BY <1>1, <1>16, <1>17, <2>1, <2>2, <2>3 DEF Pointers
<1>20. Bars(t)
  <2>1. t.bar = IF t.active # Null /\ type(t, t.active) = "Standard" THEN t.active ELSE Null
    BY <1>1, <1>11, <1>12, <1>16 DEF type
  <2>2. ~t.popup.visible
    BY <1>16, ClosedIs
  <2>3. ASSUME NEW v \in Live(t), type(t, v) = "AppList", t.win[v].visible PROVE t.active = v
    <3>1. v \in Live(s) /\ v \in WinIds /\ type(s, v) = "AppList"
      BY <1>1, <1>9, <1>16, <1>17, <2>3 DEF type
    <3>2. CASE v # w
      <4>1. s.win[v].visible /\ v \notin H
        BY <1>9, <1>16, <2>3, <3>1, <3>2
      <4>2. v = s.active
        BY <3>1, <3>2, <4>1 DEF Focusable
      <4> QED  BY <1>1, <1>2, <3>1, <4>1, <4>2
    <3> QED  BY <1>16, <3>2
  <2> QED  BY <2>1, <2>2, <2>3 DEF Bars
<1>21. ASSUME t.ub = "no" PROVE OnTop(t) /\ Frames(t)
  <2>1. s.ub = "no" /\ OnTop(s) /\ Frames(s)
    BY <1>4, <1>6, <1>16, <1>21 DEF SameList, Focusable
  <2>2. OnTop(t)
    BY <1>4, <1>6, <1>9, <1>16 DEF OnTop, SameList
  <2>3. ASSUME NEW v \in Live(t), type(t, v) = "Standard", t.win[v].visible, t.win[v].frame
        PROVE  v = t.active
    <3>1. v \in Live(s) /\ v \in WinIds /\ type(s, v) = "Standard"
      BY <1>1, <1>9, <1>16, <1>17, <2>3 DEF type
    <3>2. CASE v # w
      <4>1. s.win[v].visible /\ s.win[v].frame /\ v # prev
        BY <1>9, <1>16, <2>3, <3>1, <3>2
      <4>2. v = s.active /\ v # Null
        BY <1>1, <2>1, <3>1, <4>1 DEF Frames
      <4>3. PICK i \in {1, 2} : i \in DOMAIN s.windows /\ s.windows[i] = v
                                /\ (i = 2 => s.windows[1] = s.dock)
        BY <2>1, <4>2 DEF OnTop
      <4>4. a.windows = s.windows /\ \A x \in WinIds : type(a, x) = type(s, x)
        BY <1>4 DEF SameList, Hides, type
      <4>5. i = 2 => type(a, a.windows[1]) # "Standard"
        <5>1. i = 2 => s.dock \in Live(s)
          <6>1. s.windows \in Seq(WinIds)
            BY <1>1 DEF States
          <6>2. i = 2 => 1 \in DOMAIN s.windows
            BY <4>3, <6>1
          <6> QED  BY <4>3, <6>2 DEF Live, Range
        <5> QED  BY <1>1, <4>3, <4>4, <5>1 DEF Pointers
      <4>6. top_window_in_view(a) = i
        BY <1>4, <3>1, <4>3, <4>4, <4>5, TopIs
      <4> QED  BY <1>7, <4>1, <4>3, <4>4, <4>6
    <3> QED  BY <1>16, <3>2
  <2> QED  BY <2>2, <2>3 DEF Frames
<1>22. s.dock \notin Live(s) \cup {Null} => t.ub = "dock"
  BY <1>4, <1>6, <1>16 DEF SameList, Live
<1> QED  BY <1>6, <1>16, <1>18, <1>19, <1>20, <1>21, <1>22 DEF Sound

-----------------------------------------------------------------------------
(* A new window.                                                             *)

\* The id w is the newest.
Newest(s, w) == w < s.next /\ s.dock < w /\ \A v \in Live(s) : v < w

Pushed(s, w, ty) ==
    [s EXCEPT !.windows = Append(@, w), !.win[w] = [Blank EXCEPT !.type = ty]]

\* t is s with the window w of type ty in the list, of which nobody was told.
Joined(s, t, w, ty) ==
    /\ Live(t) = Live(s) \cup {w} /\ type(t, w) = ty /\ ~t.win[w].mask
    /\ t.dock = s.dock /\ ToldBut(t, {w})

LEMMA PushedFields ==
    ASSUME NEW s, Sound(s), ToldBut(s, {}), NEW w \in WinIds, NEW ty \in Types,
           Newest(s, w), NEW t, t = Pushed(s, w, ty)
    PROVE  Focusable(t, w) /\ Joined(s, t, w, ty)
<1>1. /\ s \in States /\ IsInjective(s.windows) /\ Pointers(s) /\ Bars(s)
      /\ Live(s) \subseteq WinIds /\ Null \notin WinIds /\ w # Null /\ w \notin Live(s)
      /\ s.windows \in Seq(WinIds)
  <2>1. w \notin Live(s)
    BY DEF WinIds, Newest
  <2> QED  BY <2>1, LiveIds DEF Sound
<1>2. PICK q : q = Append(s.windows, w)
  OBVIOUS
<1>3. PICK n \in Nat : n = Len(s.windows)
  BY <1>1
<1>4. /\ q \in Seq(WinIds) /\ DOMAIN q = 1 .. n + 1 /\ q[n + 1] = w
      /\ DOMAIN s.windows = 1 .. n /\ \A j \in 1 .. n : q[j] = s.windows[j]
  BY <1>1, <1>2, <1>3
<1>5. Range(q) = Live(s) \cup {w}
  <2>1. \A x \in 1 .. n + 1 : q[x] \in Live(s) \cup {w}
    BY <1>4 DEF Live, Range
  <2>2. w \in Range(q) /\ \A j \in 1 .. n : s.windows[j] \in Range(q)
    BY <1>4 DEF Range
  <2>3. Range(q) \subseteq Live(s) \cup {w}
    BY <1>4, <2>1 DEF Range
  <2>4. Live(s) \cup {w} \subseteq Range(q)
    BY <1>4, <2>2 DEF Live, Range
  <2> QED  BY <2>3, <2>4
<1>6. IsInjective(q)
  <2>1. \A j \in 1 .. n : s.windows[j] # w
    BY <1>1, <1>4 DEF Live, Range
  <2>2. \A x, y \in 1 .. n : s.windows[x] = s.windows[y] => x = y
    BY <1>1, <1>4 DEF IsInjective
  <2> QED  BY <1>4, <2>1, <2>2 DEF IsInjective
<1>7. PICK look : look = [Blank EXCEPT !.type = ty]
  OBVIOUS
<1>8. /\ look \in Looks /\ look.type = ty /\ look.frame = FALSE /\ look.mask = FALSE
  BY <1>7, BlankIs DEF Looks
<1>9. PICK l : l = [s.win EXCEPT ![w] = look]
  OBVIOUS
<1>10. s.win \in [WinIds -> Looks] /\ s.told \in [WinIds -> SUBSET WinIds]
  BY <1>1 DEF States
<1>11. l \in [WinIds -> Looks] /\ l[w] = look /\ \A v \in WinIds \ {w} : l[v] = s.win[v]
  BY <1>8, <1>9, <1>10
<1>12. t = [s EXCEPT !.windows = q, !.win = l]
  BY <1>2, <1>7, <1>9 DEF Pushed
<1>13. t \in States /\ t.windows = q /\ t.win = l
  BY <1>1, <1>4, <1>11, <1>12 DEF States
<1>14. /\ t.dock = s.dock /\ t.next = s.next /\ t.ub = s.ub /\ t.hiding = s.hiding
       /\ t.active = s.active /\ t.bar = s.bar /\ t.popup = s.popup /\ t.told = s.told
       /\ t.hovered = s.hovered /\ t.movable = s.movable
  BY <1>1, <1>12 DEF States
<1>15. Live(t) = Live(s) \cup {w}
  BY <1>5, <1>13 DEF Live
<1>16. type(t, w) = ty /\ \A v \in Live(s) : t.win[v] = s.win[v] /\ type(t, v) = type(s, v)
  BY <1>1, <1>8, <1>11, <1>13 DEF type
<1>17. Pointers(t)
  <2>1. t.dock \in Live(t) => type(t, t.dock) = "Homescreen"
    <3>1. s.dock # w
      BY DEF WinIds, Newest
    <3> QED  BY <1>1, <1>14, <1>15, <1>16, <3>1 DEF Pointers
  <2>2. {t.active, t.hovered, t.movable, t.bar} \subseteq Live(t) \cup {Null}
    BY <1>1, <1>14, <1>15 DEF Pointers
  <2> QED  BY <1>1, <1>14, <1>15, <2>1, <2>2 DEF Pointers, Newest
<1>18. \A v \in Live(t) : type(t, v) = "AppList" /\ t.win[v].visible => v \in {w, t.active}
  BY <1>1, <1>14, <1>15, <1>16 DEF Bars
<1>19. ASSUME t.ub = "no" PROVE OnTop(t) /\ Frames(t)
  <2>1. OnTop(s) /\ Frames(s)
    BY <1>14, <1>19 DEF Sound
  <2>2. Frames(t)
    BY <1>8, <1>11, <1>13, <1>14, <1>15, <1>16, <2>1 DEF Frames
  <2>3. CASE s.active # Null
    <3>1. PICK i \in {1, 2} : i \in 1 .. n /\ s.windows[i] = s.active
                              /\ (i = 2 => s.windows[1] = s.dock)
      BY <1>4, <2>1, <2>3 DEF OnTop
    <3>2. i \in DOMAIN q /\ q[i] = s.active /\ (i = 2 => q[1] = s.dock)
      BY <1>3, <1>4, <3>1
    <3>3. t.win[t.active].visible
      BY <1>1, <1>14, <1>16, <2>1, <2>3 DEF OnTop, Pointers
    <3> QED  BY <1>13, <1>14, <2>2, <3>2, <3>3 DEF OnTop
  <2> QED  BY <1>14, <2>2, <2>3 DEF OnTop
<1>20. ToldBut(t, {w})
  <2>1. ASSUME NEW d \in WinIds, d \notin Live(t) \/ ~t.win[d].mask PROVE t.told[d] = {}
    BY <1>14, <1>15, <1>16, <2>1, <1>1 DEF ToldBut
  <2>2. ASSUME NEW d \in Live(t), t.win[d].mask PROVE t.told[d] = {x \in Live(t) \ {w} : x >= d}
    <3>1. d # w
      BY <1>8, <1>11, <1>13, <2>2
    <3>2. d \in Live(s) /\ s.win[d].mask
      BY <1>15, <1>16, <2>2, <3>1
    <3>3. t.told[d] = {x \in Live(s) \ {} : x >= d}
      BY <1>14, <3>2 DEF ToldBut
    <3>4. Live(t) \ {w} = Live(s) \ {}
      BY <1>1, <1>15
    <3> QED  BY <3>3, <3>4
  <2> QED  BY <2>1, <2>2 DEF ToldBut
<1>21. ~t.win[w].mask
  BY <1>8, <1>11, <1>13
<1>22. Focusable(t, w)
  BY <1>6, <1>13, <1>15, <1>17, <1>18, <1>19 DEF Focusable
<1> QED  BY <1>14, <1>15, <1>16, <1>20, <1>21, <1>22 DEF Joined

LEMMA DockSound ==
    ASSUME NEW u, Sound(u), NEW w \in Live(u), type(u, w) = "Homescreen", u.active = w,
           u.ub = "no" => u.dock = Null, ToldBut(u, {w}), ~u.win[w].mask,
           \A x \in Live(u) : x <= w,
           NEW v, v = setup_dock(u, w)
    PROVE  Sound(v) /\ ToldBut(v, {w}) /\ Live(v) = Live(u)
<1>1. /\ u \in States /\ IsInjective(u.windows) /\ Pointers(u) /\ Bars(u) /\ w \in WinIds
      /\ Live(u) \subseteq WinIds /\ Null \notin WinIds /\ u.windows \in Seq(WinIds)
  BY LiveIds DEF Sound
<1>2. PICK look : look = [u.win[w] EXCEPT !.mask = TRUE]
  OBVIOUS
<1>3. PICK l : l = [u.win EXCEPT ![w] = look]
  OBVIOUS
<1>4. u.win \in [WinIds -> Looks]
  BY <1>1 DEF States
<1>5. /\ look \in Looks /\ look.type = u.win[w].type /\ look.visible = u.win[w].visible
      /\ look.frame = u.win[w].frame /\ look.mask = TRUE
  <2>1. u.win[w] \in Looks
    BY <1>1, <1>4
  <2> QED  BY <1>2, <2>1 DEF Looks
<1>6. l \in [WinIds -> Looks] /\ l[w] = look /\ \A x \in WinIds \ {w} : l[x] = u.win[x]
  BY <1>1, <1>3, <1>4, <1>5
<1>7. v = [u EXCEPT !.win = l, !.dock = w]
  BY <1>2, <1>3 DEF setup_dock
<1>8. v \in States /\ v.win = l /\ v.dock = w
  BY <1>1, <1>6, <1>7 DEF States, Refs
<1>9. /\ v.windows = u.windows /\ v.next = u.next /\ v.ub = u.ub /\ v.hiding = u.hiding
      /\ v.active = u.active /\ v.bar = u.bar /\ v.popup = u.popup /\ v.told = u.told
      /\ v.hovered = u.hovered /\ v.movable = u.movable /\ Live(v) = Live(u)
  BY <1>1, <1>7 DEF States, Live
<1>10. \A x \in WinIds : /\ v.win[x].type = u.win[x].type /\ v.win[x].visible = u.win[x].visible
                         /\ v.win[x].frame = u.win[x].frame
                         /\ x # w => v.win[x].mask = u.win[x].mask
  BY <1>5, <1>6, <1>8
<1>11. Pointers(v)
  <2>1. v.dock < v.next /\ type(v, v.dock) = "Homescreen"
    BY <1>1, <1>8, <1>9, <1>10 DEF Pointers, type
  <2> QED  BY <1>1, <1>9, <2>1 DEF Pointers
<1>12. Bars(v)
  BY <1>1, <1>9, <1>10 DEF Bars, type
<1>13. ASSUME v.ub = "no" PROVE OnTop(v) /\ Frames(v)
  <2>1. OnTop(u) /\ Frames(u) /\ u.dock = Null
    BY <1>9, <1>13 DEF Sound
  <2>2. Frames(v)
    BY <1>1, <1>9, <1>10, <2>1 DEF Frames, type
  <2>3. w # Null
    BY <1>1
  <2>4. PICK i \in {1, 2} : i \in DOMAIN u.windows /\ u.windows[i] = w
                            /\ (i = 2 => u.windows[1] = Null)
    BY <2>1, <2>3 DEF OnTop
  <2>5. i = 1
    BY <1>1, <2>4
  <2>6. v.win[w].visible
    BY <1>1, <1>10, <2>1, <2>3 DEF OnTop
  <2> QED  BY <1>9, <2>2, <2>4, <2>5, <2>6 DEF OnTop
<1>14. ToldBut(v, {w})
  <2>1. ASSUME NEW d \in WinIds, d \notin Live(v) \/ ~v.win[d].mask PROVE v.told[d] = {}
    <3>1. d # w
      BY <1>5, <1>6, <1>8, <1>9, <2>1
    <3> QED  BY <1>9, <1>10, <2>1, <3>1 DEF ToldBut
  <2>2. ASSUME NEW d \in Live(v), v.win[d].mask
        PROVE  v.told[d] = {x \in Live(v) \ {w} : x >= d}
    <3>1. CASE d = w
      <4>1. v.told[w] = {}
        BY <1>1, <1>9 DEF ToldBut
      <4>2. \A x \in Live(v) \ {w} : ~(x >= w)
        BY <1>1, <1>9 DEF WinIds
      <4> QED  BY <3>1, <4>1, <4>2
    <3>2. CASE d # w
      <4>1. d \in Live(u) /\ u.win[d].mask
        BY <1>1, <1>9, <1>10, <2>2, <3>2
      <4> QED  BY <1>9, <4>1 DEF ToldBut
    <3> QED  BY <3>1, <3>2
  <2> QED  BY <2>1, <2>2 DEF ToldBut
<1> QED  BY <1>1, <1>8, <1>9, <1>11, <1>12, <1>13, <1>14 DEF Sound

LEMMA AddedSound ==
    ASSUME NEW s, Sound(s), ToldBut(s, {}), NEW w \in WinIds, NEW ty \in Types,
           Newest(s, w),
           ty = "Homescreen" => \A v \in Live(s) : type(s, v) # ty,
           NEW z, z = add_window(s, w, ty)
    PROVE  Sound(z) /\ ToldBut(z, {})
<1>1. PICK t : t = Pushed(s, w, ty)
  OBVIOUS
<1>2. Focusable(t, w) /\ Joined(s, t, w, ty)
  BY <1>1, PushedFields
<1>3. PICK u : u = set_active_window(t, w)
  OBVIOUS
<1>4. /\ Sound(u) /\ Kin(t, u) /\ u.active = w
      /\ t.dock \notin Live(t) \cup {Null} => u.ub = "dock"
  BY <1>2, <1>3, FocusedSound
<1>5. ToldBut(u, {w}) /\ Live(u) = Live(s) \cup {w} /\ type(u, w) = ty /\ u.dock = s.dock
  <2>1. t \in States
    BY <1>2 DEF Focusable
  <2>2. ToldBut(u, {w})
    <3>1. ToldBut(t, {w})
      BY <1>2 DEF Joined
    <3> QED  BY <1>4, <2>1, <3>1, KinTold
  <2> QED  BY <1>2, <1>4, <2>2 DEF Kin, type, Joined
<1>6. \A x \in Live(u) : x <= w
  <2>1. Live(s) \subseteq WinIds
    BY LiveIds DEF Sound
  <2> QED  BY <1>5, <2>1 DEF WinIds, Newest
<1>7. PICK v : v = CASE ty = "Homescreen" -> setup_dock(u, w)
                     [] ty = "AppList"    -> setup_applist(u, w)
                     [] OTHER             -> u
  OBVIOUS
<1>8. Sound(v) /\ ToldBut(v, {w}) /\ Live(v) = Live(u)
  <2>1. CASE ty = "Homescreen"
    <3>1. v = setup_dock(u, w)
      BY <1>7, <2>1
    <3>2. u.ub = "no" => u.dock = Null
      <4>1. s.dock \notin Live(s)
        BY <2>1 DEF Sound, Pointers
      <4>2. s.dock # w
        BY DEF WinIds, Newest
      <4> QED  BY <1>2, <1>4, <1>5, <4>1, <4>2 DEF Joined
    <3>3. ~u.win[w].mask
      BY <1>2, <1>4 DEF Kin, Joined
    <3> QED  BY <1>4, <1>5, <1>6, <2>1, <3>1, <3>2, <3>3, DockSound
  <2>2. CASE ty = "AppList"
    <3>1. v = Minimized(u, w) /\ w \in Live(u) /\ u \in States
      BY <1>4, <1>5, <1>7, <2>2 DEF setup_applist, minimize_window, Sound
    <3>2. Sound(v) /\ Kin(u, v)
      BY <1>4, <3>1, MinimizedSound
    <3>3. ToldBut(v, {w})
      BY <1>5, <3>1, <3>2, KinTold
    <3> QED  BY <3>2, <3>3 DEF Kin
  <2>3. CASE ty # "Homescreen" /\ ty # "AppList"
    BY <1>4, <1>5, <1>7, <2>3
  <2> QED  BY <2>1, <2>2, <2>3
<1>9. z = notify(v, w, TRUE)
  BY <1>1, <1>3, <1>7 DEF add_window, Pushed
<1>10. w \in Live(v) /\ v \in States
  BY <1>5, <1>8 DEF Sound
<1>11. Sound(z)
  BY <1>8, <1>9, <1>10, NotifySound
<1>12. z.windows = v.windows /\ z.win = v.win /\ Tells(v, z, w, TRUE)
  <2>1. \A c \in BOOLEAN : z = notify(v, w, c) =>
          z.windows = v.windows /\ z.win = v.win /\ Tells(v, z, w, c)
    BY <1>10, NotifyFields
  <2> QED  BY <1>9, <2>1
<1>13. ToldBut(z, {})
  <2>1. Live(z) = Live(v) /\ Live(v) \subseteq WinIds
    BY <1>10, <1>12, LiveIds DEF Live
  <2>2. ASSUME NEW d \in WinIds, d \notin Live(z) \/ ~z.win[d].mask PROVE z.told[d] = {}
    BY <1>8, <1>12, <2>1, <2>2 DEF ToldBut, Tells
  <2>3. ASSUME NEW d \in Live(z), z.win[d].mask PROVE z.told[d] = {x \in Live(z) \ {} : x >= d}
    <3>1. d \in Live(v) /\ v.win[d].mask /\ d \in WinIds
      BY <1>12, <2>1, <2>3
    <3>2. z.told[d] = v.told[d] \cup {w}
      BY <1>12, <3>1 DEF Tells
    <3>3. v.told[d] = {x \in Live(v) \ {w} : x >= d}
      BY <1>8, <3>1 DEF ToldBut
    <3>4. w >= d
      BY <1>6, <1>8, <3>1 DEF WinIds
    <3> QED  BY <1>10, <2>1, <3>2, <3>3, <3>4
  <2> QED  BY <2>2, <2>3 DEF ToldBut
<1> QED  BY <1>11, <1>13

-----------------------------------------------------------------------------
(* Steps that leave the windows alone.                                       *)

\* The same windows, focus and menu bar.
Still(s, t) ==
    /\ t.windows = s.windows /\ t.dock = s.dock /\ t.told = s.told
    /\ t.active = s.active /\ t.bar = s.bar
    /\ \A v \in WinIds : /\ t.win[v].type = s.win[v].type /\ t.win[v].mask = s.win[v].mask
                         /\ t.win[v].visible = s.win[v].visible
                         /\ t.win[v].frame = s.win[v].frame

PopupKept(s, t) ==
    \/ t.popup = s.popup \/ ~t.popup.visible \/ t.popup.menu = Requested
    \/ t.popup.owner = s.bar /\ s.bar # Null

LEMMA StillSound ==
    ASSUME NEW s, Sound(s), NEW t \in States, Still(s, t), PopupKept(s, t),
           t.ub = s.ub \/ t.ub = "popup", s.next <= t.next,
           {t.hovered, t.movable} \subseteq Live(s) \cup {Null}, t.hiding \subseteq Live(s)
    PROVE  Sound(t) /\ Live(t) = Live(s) /\ \A but : ToldBut(s, but) => ToldBut(t, but)
<1>1. /\ s \in States /\ IsInjective(s.windows) /\ Pointers(s) /\ Bars(s)
      /\ Live(s) \subseteq WinIds /\ Null \notin WinIds
  BY LiveIds DEF Sound
<1>2. Live(t) = Live(s)
  BY DEF Live, Still
<1>3. Pointers(t)
  <2>1. {t.active, t.hovered, t.movable, t.bar} \subseteq Live(t) \cup {Null}
    BY <1>1, <1>2 DEF Pointers, Still
  <2>2. t.dock \in Live(t) => type(t, t.dock) = "Homescreen"
    BY <1>1, <1>2 DEF Pointers, Still, type
  <2>3. t.dock < t.next /\ \A w \in Live(t) : w < t.next
    <3>1. s.dock \in Int /\ s.next \in Int /\ t.next \in Int
      BY <1>1 DEF States, Refs, WinIds, Null
    <3>2. Live(s) \subseteq Int
      BY <1>1 DEF WinIds
    <3> QED  BY <1>1, <1>2, <3>1, <3>2 DEF Pointers, Still
  <2>4. t.ub # "window"
    BY <1>1 DEF Pointers
  <2> QED  BY <1>2, <2>1, <2>2, <2>3, <2>4 DEF Pointers
<1>4. Bars(t)
  <2>1. t.bar = IF t.active # Null /\ type(t, t.active) = "Standard" THEN t.active ELSE Null
    BY <1>1 DEF Bars, Still, type, Pointers
  <2>2. t.popup.visible /\ t.popup.menu # Requested => t.bar # Null /\ t.popup.owner = t.bar
    BY <1>1 DEF Bars, Still, PopupKept
  <2>3. \A w \in Live(t) : type(t, w) = "AppList" /\ t.win[w].visible => t.active = w
    BY <1>1, <1>2 DEF Bars, Still, type
  <2> QED  BY <2>1, <2>2, <2>3 DEF Bars
<1>5. ASSUME t.ub = "no" PROVE OnTop(t) /\ Frames(t)
  <2>1. OnTop(s) /\ Frames(s)
    BY <1>5 DEF Sound
  <2>2. Frames(t)
    BY <1>1, <1>2, <2>1 DEF Frames, Still, type
  <2>3. OnTop(t)
    BY <1>1, <2>1 DEF OnTop, Still, Pointers
  <2> QED  BY <2>2, <2>3
<1>6. ASSUME NEW but, ToldBut(s, but) PROVE ToldBut(t, but)
  BY <1>1, <1>2, <1>6 DEF ToldBut, Still
<1>7. IsInjective(t.windows)
  BY <1>1 DEF Still
<1> QED  BY <1>2, <1>3, <1>4, <1>5, <1>6, <1>7 DEF Sound

LEMMA HideSound ==
    ASSUME NEW s, Sound(s), NEW t, t = hide(s)
    PROVE  Sound(t) /\ Live(t) = Live(s) /\ \A but : ToldBut(s, but) => ToldBut(t, but)
<1>1. s \in States /\ Pointers(s)
  BY DEF Sound
<1>2. /\ t \in States /\ t.popup = Closed /\ SameList(s, t)
      /\ t.win = s.win /\ t.active = s.active /\ t.bar = s.bar
      /\ t.hovered = s.hovered /\ t.movable = s.movable
  BY <1>1, HideFields
<1>3. Still(s, t) /\ PopupKept(s, t)
  BY <1>2, ClosedIs DEF Still, SameList, PopupKept
<1>4. /\ t.ub = s.ub \/ t.ub = "popup"
      /\ s.next <= t.next
      /\ {t.hovered, t.movable} \subseteq Live(s) \cup {Null} /\ t.hiding \subseteq Live(s)
  <2>1. s.next \in Nat
    BY <1>1 DEF States
  <2> QED  BY <1>1, <1>2, <2>1 DEF SameList, Pointers
<1> QED  BY <1>2, <1>3, <1>4, StillSound

LEMMA ShowSound ==
    ASSUME NEW s, Sound(s), NEW w \in Live(s), NEW menu \in Int,
           menu = Requested \/ w = s.bar, NEW t, t = show(s, w, menu)
    PROVE  Sound(t) /\ Live(t) = Live(s) /\ \A but : ToldBut(s, but) => ToldBut(t, but)
<1>1. s \in States /\ Pointers(s) /\ w \in Refs /\ w # Null
  BY LiveIds DEF Sound, Refs
<1>2. PICK p : p = [visible |-> TRUE, owner |-> w, menu |-> menu]
  OBVIOUS
<1>3. p \in Popups /\ p.owner = w /\ p.menu = menu
  BY <1>1, <1>2 DEF Popups
<1>4. t = [s EXCEPT !.popup = p]
  BY <1>2 DEF show
<1>5. t \in States /\ t.popup = p
  BY <1>1, <1>3, <1>4 DEF States
<1>6. /\ SameList(s, t) /\ t.win = s.win /\ t.active = s.active /\ t.bar = s.bar
      /\ t.hovered = s.hovered /\ t.movable = s.movable
  BY <1>1, <1>4 DEF States, SameList
<1>7. Still(s, t) /\ PopupKept(s, t)
  BY <1>1, <1>3, <1>5, <1>6 DEF Still, SameList, PopupKept
<1>8. /\ t.ub = s.ub \/ t.ub = "popup"
      /\ s.next <= t.next
      /\ {t.hovered, t.movable} \subseteq Live(s) \cup {Null} /\ t.hiding \subseteq Live(s)
  <2>1. s.next \in Nat
    BY <1>1 DEF States
  <2> QED  BY <1>1, <1>6, <2>1 DEF SameList, Pointers
<1> QED  BY <1>5, <1>7, <1>8, StillSound

-----------------------------------------------------------------------------
(* The mouse.                                                                *)

\* What a handler owes: a sound state with the same windows, told the same.
Good(s, t) ==
    Sound(t) /\ Live(t) = Live(s) /\ \A but : ToldBut(s, but) => ToldBut(t, but)

LEMMA KinGood ==
    ASSUME NEW s \in States, NEW t, Sound(t), Kin(s, t)
    PROVE  Good(s, t)
BY KinTold DEF Good, Kin

LEMMA GoodGood ==
    ASSUME NEW s, NEW t, NEW u, Good(s, t), Good(t, u)
    PROVE  Good(s, u)
BY DEF Good

LEMMA ActivateGood ==
    ASSUME NEW s, Sound(s), NEW w \in Live(s), NEW t, t = set_active_window(s, w)
    PROVE  Good(s, t)
<1>1. Focusable(s, w) /\ s \in States
  BY DEF Focusable, Sound, Bars
<1>2. Sound(t) /\ Kin(s, t)
  BY <1>1, FocusedSound
<1> QED  BY <1>1, <1>2, KinGood

\* A press beside every window fades the frame of the active one and takes the
\* focus away.
LEMMA UnfocusedGood ==
    ASSUME NEW s, Sound(s), s.active # Null,
           NEW t, t = set_active_window(set_menubar_content(
                          [s EXCEPT !.win[s.active].frame = FALSE], Null), Null)
    PROVE  Good(s, t)
<1>1. /\ s \in States /\ IsInjective(s.windows) /\ Pointers(s) /\ Bars(s)
      /\ Live(s) \subseteq WinIds /\ Null \notin WinIds /\ s.active \in WinIds
      /\ s.active \in Live(s)
  BY LiveIds DEF Sound, Pointers
<1>2. PICK a : a = s.active
  OBVIOUS
<1>3. PICK look : look = [s.win[a] EXCEPT !.frame = FALSE]
  OBVIOUS
<1>4. PICK l : l = [s.win EXCEPT ![a] = look]
  OBVIOUS
<1>5. s.win \in [WinIds -> Looks] /\ s.win[a] \in Looks
  BY <1>1, <1>2 DEF States
<1>6. /\ look \in Looks /\ look.type = s.win[a].type /\ look.visible = s.win[a].visible
      /\ look.frame = FALSE /\ look.mask = s.win[a].mask
  BY <1>3, <1>5 DEF Looks
<1>7. l \in [WinIds -> Looks] /\ l[a] = look /\ \A x \in WinIds \ {a} : l[x] = s.win[x]
  BY <1>1, <1>2, <1>4, <1>5, <1>6
<1>8. PICK b : b = [s EXCEPT !.win = l]
  OBVIOUS
<1>9. b = [s EXCEPT !.win[s.active].frame = FALSE]
  BY <1>2, <1>3, <1>4, <1>8
<1>10. b \in States /\ b.win = l
  BY <1>1, <1>7, <1>8 DEF States
<1>11. /\ SameList(s, b) /\ b.active = a /\ b.hovered = s.hovered /\ b.movable = s.movable
  BY <1>1, <1>2, <1>8 DEF States, SameList
<1>12. PICK c : c = set_menubar_content(b, Null)
  OBVIOUS
<1>13. /\ c \in States /\ c.popup = Closed /\ c.bar = Null /\ SameList(b, c)
       /\ c.win = b.win /\ c.active = b.active
       /\ c.hovered = b.hovered /\ c.movable = b.movable
  <2>1. Null \in Refs
    BY DEF Refs
  <2> QED  BY <1>10, <1>12, <2>1, BarFields
<1>14. PICK H : H = IF c.active # Null /\ type(c, c.active) = "AppList" THEN {c.active} ELSE {}
  OBVIOUS
<1>15. t = set_active_window(c, Null)
  BY <1>9, <1>12
<1>16. /\ t \in States /\ SameList(c, t) /\ Hides(c, t, H)
       /\ t.popup = c.popup /\ t.bar = c.bar /\ t.active = Null
       /\ t.hovered = c.hovered /\ t.movable = c.movable
  BY <1>13, <1>14, <1>15, UnfocusFields
<1>17. /\ SameList(s, t) /\ Live(t) = Live(s) /\ t.popup = Closed /\ t.bar = Null
       /\ t.hovered = s.hovered /\ t.movable = s.movable
  BY <1>11, <1>13, <1>16 DEF SameList, Live
<1>18. \A v \in WinIds : /\ t.win[v].type = s.win[v].type /\ t.win[v].mask = s.win[v].mask
                         /\ t.win[v].frame <=> s.win[v].frame /\ v # a
                         /\ t.win[v].visible <=> s.win[v].visible /\ v \notin H
  <2> SUFFICES ASSUME NEW v \in WinIds
               PROVE  /\ t.win[v].type = s.win[v].type /\ t.win[v].mask = s.win[v].mask
                      /\ t.win[v].frame <=> s.win[v].frame /\ v # a
                      /\ t.win[v].visible <=> s.win[v].visible /\ v \notin H
    OBVIOUS
  <2>1. /\ t.win[v].type = l[v].type /\ t.win[v].mask = l[v].mask
        /\ t.win[v].frame = l[v].frame /\ (t.win[v].visible <=> l[v].visible /\ v \notin H)
    BY <1>10, <1>13, <1>16 DEF Hides
  <2>2. CASE v = a
    BY <1>6, <1>7, <2>1, <2>2
  <2>3. CASE v # a
    BY <1>7, <2>1, <2>3
  <2> QED  BY <2>2, <2>3
<1>19. type(s, a) = "AppList" => a \in H
  BY <1>1, <1>2, <1>6, <1>7, <1>10, <1>11, <1>13, <1>14 DEF type
<1>20. Bars(t)
  <2>1. ASSUME NEW v \in Live(t), type(t, v) = "AppList", t.win[v].visible PROVE FALSE
    <3>1. v \in Live(s) /\ v \in WinIds /\ type(s, v) = "AppList" /\ s.win[v].visible /\ v \notin H
      BY <1>1, <1>17, <1>18, <2>1 DEF type
    <3> QED  BY <1>1, <1>2, <1>19, <3>1 DEF Bars
  <2> QED  BY <1>16, <1>17, <2>1, ClosedIs DEF Bars
<1>21. Pointers(t)
  <2>1. t.dock \in Live(t) => type(t, t.dock) = "Homescreen"
    <3>1. /\ t.dock = s.dock /\ Live(t) = Live(s)
          /\ s.dock \in Live(s) => s.win[s.dock].type = "Homescreen" /\ s.dock \in WinIds
      BY <1>1, <1>17 DEF Pointers, SameList, type
    <3> QED  BY <1>18, <3>1 DEF type
  <2>2. {t.active, t.hovered, t.movable, t.bar} \subseteq Live(t) \cup {Null}
    BY <1>1, <1>16, <1>17 DEF Pointers
  <2> QED  BY <1>1, <1>17, <2>1, <2>2 DEF Pointers, SameList
<1>22. ASSUME t.ub = "no" PROVE OnTop(t) /\ Frames(t)
  <2>1. Frames(s)
    BY <1>17, <1>22 DEF Sound, SameList
  <2>2. ASSUME NEW v \in Live(t), type(t, v) = "Standard", t.win[v].visible, t.win[v].frame
        PROVE  FALSE
    <3>1. v \in Live(s) /\ v \in WinIds
      BY <1>1, <1>17, <2>2
    <3>2. type(s, v) = "Standard" /\ s.win[v].visible /\ s.win[v].frame /\ v # a
      BY <1>18, <2>2, <3>1 DEF type
    <3> QED  BY <1>2, <2>1, <3>1, <3>2 DEF Frames
  <2> QED  BY <1>16, <2>2 DEF OnTop, Frames
<1>23. Kin(s, t)
  BY <1>17, <1>18 DEF Kin, SameList
<1>24. Sound(t)
  BY <1>1, <1>16, <1>17, <1>20, <1>21, <1>22 DEF Sound, SameList
<1> QED  BY <1>1, <1>23, <1>24, KinGood

LEMMA FocusGood ==
    ASSUME NEW s, Sound(s), NEW w \in Live(s) \cup {Null}, NEW t, t = Focus(s, w)
    PROVE  Good(s, t)
<1>1. CASE ~(s.left \/ s.right) \/ w = s.active
  BY <1>1 DEF Focus, Good
<1>2. CASE ~(~(s.left \/ s.right) \/ w = s.active) /\ w = Null
  <2>1. /\ s.active # Null
        /\ t = set_active_window(set_menubar_content(
                   [s EXCEPT !.win[s.active].frame = FALSE], Null), Null)
    BY <1>2 DEF Focus
  <2> QED  BY <2>1, UnfocusedGood
<1>3. CASE ~(~(s.left \/ s.right) \/ w = s.active) /\ w # Null
  <2>1. t = set_active_window(s, w) /\ w \in Live(s)
    BY <1>3 DEF Focus
  <2> QED  BY <2>1, ActivateGood
<1> QED  BY <1>1, <1>2, <1>3

LEMMA MinimizeGood ==
    ASSUME NEW s, Sound(s), NEW w \in Live(s), NEW t, t = minimize_window(s, w)
    PROVE  Good(s, t)
<1>1. s \in States /\ t = Minimized(s, w)
  BY DEF Sound, minimize_window
<1>2. Sound(t) /\ Kin(s, t)
  BY <1>1, MinimizedSound
<1> QED  BY <1>1, <1>2, KinGood

\* The fields of the mouse, the loop and the ids.
LEMMA FieldsGood ==
    ASSUME NEW s, Sound(s), NEW t \in States,
           t.windows = s.windows, t.dock = s.dock, t.told = s.told, t.active = s.active,
           t.bar = s.bar, t.win = s.win, t.popup = s.popup,
           t.ub = s.ub \/ t.ub = "popup", s.next <= t.next,
           {t.hovered, t.movable} \subseteq Live(s) \cup {Null}, t.hiding \subseteq Live(s)
    PROVE  Good(s, t)
<1>1. Still(s, t) /\ PopupKept(s, t)
  BY DEF Still, PopupKept
<1>2. Sound(t) /\ Live(t) = Live(s) /\ \A but : ToldBut(s, but) => ToldBut(t, but)
  BY <1>1, StillSound
<1> QED  BY <1>2 DEF Good

\* The loop of "minimize others" starts.
LEMMA MinimizeOthersGood ==
    ASSUME NEW s, Sound(s), NEW keep, NEW t, t = minimize_windows(s, keep)
    PROVE  Good(s, t)
<1>1. s \in States /\ Pointers(s) /\ Live(s) \subseteq WinIds /\ s.next \in Nat
  BY LiveIds DEF Sound, States
<1>2. PICK h : h = {w \in Live(s) : w # keep /\ type(s, w) = "Standard"}
  OBVIOUS
<1>3. h \subseteq Live(s) /\ h \in SUBSET WinIds
  BY <1>1, <1>2
<1>4. t = [s EXCEPT !.hiding = h]
  BY <1>2 DEF minimize_windows
<1>5. t \in States /\ t.hiding = h
  BY <1>1, <1>3, <1>4 DEF States
<1>6. /\ t.windows = s.windows /\ t.dock = s.dock /\ t.told = s.told /\ t.active = s.active
      /\ t.bar = s.bar /\ t.win = s.win /\ t.popup = s.popup /\ t.ub = s.ub
      /\ t.next = s.next /\ t.hovered = s.hovered /\ t.movable = s.movable
  BY <1>1, <1>4 DEF States
<1>7. /\ t.ub = s.ub \/ t.ub = "popup"
      /\ s.next <= t.next
      /\ {t.hovered, t.movable} \subseteq Live(s) \cup {Null} /\ t.hiding \subseteq Live(s)
  BY <1>1, <1>3, <1>5, <1>6 DEF Pointers
<1> QED  BY <1>5, <1>6, <1>7, FieldsGood

LEMMA HideGood ==
    ASSUME NEW s, Sound(s), NEW t, t = hide(s)
    PROVE  Good(s, t)
BY HideSound DEF Good

LEMMA ShowGood ==
    ASSUME NEW s, Sound(s), NEW w \in Live(s), NEW menu \in Int,
           menu = Requested \/ w = s.bar, NEW t, t = show(s, w, menu)
    PROVE  Good(s, t)
BY ShowSound DEF Good

LEMMA PopupClickGood ==
    ASSUME NEW s, Sound(s), s.popup.visible, NEW item, NEW t, t = PopupClick(s, item)
    PROVE  Good(s, t)
<1>1. s \in States /\ Pointers(s) /\ Bars(s) /\ s.next \in Nat
  BY DEF Sound, States
<1>2. PICK w : w = s.popup.owner
  OBVIOUS
<1>3. PICK called : called = CASE item = "minimize" -> minimize_window(s, w)
                               [] item = "minimize others" -> minimize_windows(s, w)
                               [] OTHER -> s
  OBVIOUS
<1>4. PICK gone : gone = IF s.popup.menu = Requested THEN "popup" ELSE "window"
  OBVIOUS
<1>5. PICK u : u = IF w \in Live(s) THEN called ELSE [s EXCEPT !.ub = gone]
  OBVIOUS
<1>6. t = hide(u)
  BY <1>2, <1>3, <1>4, <1>5 DEF PopupClick
<1>7. Good(s, u)
  <2>1. CASE w \in Live(s)
    <3>1. u = called
      BY <1>5, <2>1
    <3>2. CASE item = "minimize"
      <4>1. u = minimize_window(s, w)
        BY <1>3, <3>1, <3>2
      <4> QED  BY <2>1, <4>1, MinimizeGood
    <3>3. CASE item = "minimize others"
      <4>1. u = minimize_windows(s, w)
        BY <1>3, <3>1, <3>3
      <4> QED  BY <4>1, MinimizeOthersGood
    <3>4. CASE item # "minimize" /\ item # "minimize others"
      <4>1. u = s
        BY <1>3, <3>1, <3>4
      <4> QED  BY <4>1 DEF Good
    <3> QED  BY <3>2, <3>3, <3>4
  <2>2. CASE w \notin Live(s)
    <3>1. s.popup.menu = Requested
      BY <1>1, <1>2, <2>2 DEF Bars, Pointers
    <3>2. u = [s EXCEPT !.ub = "popup"]
      BY <1>4, <1>5, <2>2, <3>1
    <3>3. u \in States /\ u.ub = "popup"
      BY <1>1, <3>2 DEF States, Uses
    <3>4. /\ u.windows = s.windows /\ u.dock = s.dock /\ u.told = s.told /\ u.active = s.active
          /\ u.bar = s.bar /\ u.win = s.win /\ u.popup = s.popup /\ u.hiding = s.hiding
          /\ u.next = s.next /\ u.hovered = s.hovered /\ u.movable = s.movable
      BY <1>1, <3>2 DEF States
    <3>5. /\ u.ub = s.ub \/ u.ub = "popup"
          /\ s.next <= u.next
          /\ {u.hovered, u.movable} \subseteq Live(s) \cup {Null} /\ u.hiding \subseteq Live(s)
      BY <1>1, <3>3, <3>4 DEF Pointers
    <3> QED  BY <3>3, <3>4, <3>5, FieldsGood
  <2> QED  BY <2>1, <2>2
<1>8. Good(u, t)
  <2>1. Sound(u)
    BY <1>7 DEF Good
  <2> QED  BY <1>6, <2>1, HideGood
<1> QED  BY <1>7, <1>8, GoodGood

LEMMA HoverGood ==
    ASSUME NEW s, Sound(s), NEW p, p.w \in Live(s), NEW pressed, NEW t, t = Hover(s, p, pressed)
    PROVE  Good(s, t)
<1>1. PICK w \in Live(s) : w = p.w
  OBVIOUS
<1>2. PICK tap : tap = (p.at = "frame" /\ pressed)
  OBVIOUS
<1>3. PICK seen : seen = (p.at = "content" /\ ~(type(s, p.w) = "Standard" /\ s.active # p.w))
  OBVIOUS
<1>4. PICK m : m = IF tap /\ p.button = "minimize" THEN minimize_window(s, w) ELSE s
  OBVIOUS
<1>5. Good(s, m)
  <2>1. CASE tap /\ p.button = "minimize"
    <3>1. m = minimize_window(s, w)
      BY <1>4, <2>1
    <3> QED  BY <3>1, MinimizeGood
  <2>2. CASE ~(tap /\ p.button = "minimize")
    BY <1>4, <2>2 DEF Good
  <2> QED  BY <2>1, <2>2
<1>6. Sound(m) /\ w \in Live(m)
  BY <1>5 DEF Good
<1>7. /\ m \in States /\ Pointers(m) /\ m.next \in Nat /\ w \in Refs /\ Null \in Refs
      /\ m.movable \in Refs
  BY <1>6, LiveIds DEF Sound, States, Refs
<1>8. PICK u : u = IF tap THEN [m EXCEPT !.movable = w] ELSE m
  OBVIOUS
<1>9. t = [u EXCEPT !.hovered = IF seen THEN w ELSE Null]
  BY <1>1, <1>2, <1>3, <1>4, <1>8 DEF Hover
<1>10. PICK h \in {w, Null} : h = IF seen THEN w ELSE Null
  OBVIOUS
<1>11. PICK mv \in {w, m.movable} : u = [m EXCEPT !.movable = mv]
  <2>1. m = [m EXCEPT !.movable = m.movable]
    BY <1>7 DEF States
  <2> QED  BY <1>8, <2>1
<1>12. u \in States /\ u.movable = mv
  BY <1>7, <1>11 DEF States
<1>13. t \in States /\ t.hovered = h /\ t.movable = mv
  BY <1>7, <1>9, <1>10, <1>12 DEF States
<1>14. /\ t.windows = m.windows /\ t.dock = m.dock /\ t.told = m.told /\ t.active = m.active
       /\ t.bar = m.bar /\ t.win = m.win /\ t.popup = m.popup /\ t.ub = m.ub
       /\ t.next = m.next /\ t.hiding = m.hiding
  BY <1>7, <1>9, <1>11 DEF States
<1>15. /\ t.ub = m.ub \/ t.ub = "popup"
       /\ m.next <= t.next
       /\ {t.hovered, t.movable} \subseteq Live(m) \cup {Null} /\ t.hiding \subseteq Live(m)
  BY <1>6, <1>7, <1>10, <1>11, <1>13, <1>14 DEF Pointers
<1>16. Good(m, t)
  BY <1>6, <1>13, <1>14, <1>15, FieldsGood
<1> QED  BY <1>5, <1>16, GoodGood

-----------------------------------------------------------------------------
(* The invariant.                                                            *)

\* The buttons of a mouse event.
LEMMA ButtonsGood ==
    ASSUME NEW s, Sound(s), NEW left \in BOOLEAN, NEW right \in BOOLEAN,
           NEW mv \in {s.movable, Null},
           NEW t, t = [s EXCEPT !.left = left, !.right = right, !.movable = mv]
    PROVE  Good(s, t)
<1>1. s \in States /\ Pointers(s) /\ s.next \in Nat /\ s.movable \in Refs /\ Null \in Refs
  BY DEF Sound, States, Refs
<1>2. t \in States /\ t.movable = mv
  BY <1>1 DEF States
<1>3. /\ t.windows = s.windows /\ t.dock = s.dock /\ t.told = s.told /\ t.active = s.active
      /\ t.bar = s.bar /\ t.win = s.win /\ t.popup = s.popup /\ t.ub = s.ub
      /\ t.next = s.next /\ t.hovered = s.hovered /\ t.hiding = s.hiding
  BY <1>1 DEF States
<1>4. /\ t.ub = s.ub \/ t.ub = "popup"
      /\ s.next <= t.next
      /\ {t.hovered, t.movable} \subseteq Live(s) \cup {Null} /\ t.hiding \subseteq Live(s)
  BY <1>1, <1>2, <1>3 DEF Pointers
<1> QED  BY <1>2, <1>3, <1>4, FieldsGood

LEMMA InitSound == WMInit => WindowInv
<1> SUFFICES ASSUME WMInit PROVE WindowInv
  OBVIOUS
<1>1. PICK s : s = wm
  OBVIOUS
<1>2. /\ s.windows = <<>> /\ s.win = [w \in WinIds |-> Blank] /\ s.active = Null
      /\ s.hovered = Null /\ s.movable = Null /\ s.bar = Null /\ s.popup = Closed
      /\ s.dock = Null /\ s.told = [w \in WinIds |-> {}] /\ s.next = 1
      /\ s.ub = "no" /\ s.hiding = {}
  BY <1>1 DEF WMInit
<1>3. s \in States
  <2>1. <<>> \in Seq(WinIds) /\ Null \in Refs /\ "no" \in Uses
    BY DEF Refs, Uses
  <2>2. [w \in WinIds |-> Blank] \in [WinIds -> Looks]
    BY BlankIs
  <2>3. [w \in WinIds |-> {}] \in [WinIds -> SUBSET WinIds]
    OBVIOUS
  <2> QED  BY <1>1, <2>1, <2>2, <2>3, ClosedIs DEF WMInit, States
<1>4. Live(s) = {} /\ IsInjective(s.windows)
  BY <1>2 DEF Live, Range, IsInjective
<1>5. Pointers(s) /\ Bars(s) /\ OnTop(s) /\ Frames(s) /\ ToldBut(s, {})
  BY <1>2, <1>4, ClosedIs DEF Pointers, Bars, OnTop, Frames, ToldBut, Null
<1> QED  BY <1>1, <1>3, <1>4, <1>5 DEF WindowInv, Sound

LEMMA GoodStep ==
    ASSUME WindowInv, NEW t, t = wm', NEW s, s = wm, Good(s, t)
    PROVE  WindowInv'
BY DEF WindowInv, Good

LEMMA CreateKeeps ==
    ASSUME WindowInv, wm.ub = "no", NEW w \in WinIds, NEW ty \in Types, CreateWindow(w, ty)
    PROVE  WindowInv'
<1>1. PICK s : s = wm
  OBVIOUS
<1>2. Sound(s) /\ ToldBut(s, {}) /\ w = s.next
  BY <1>1 DEF WindowInv, CreateWindow
<1>3. s \in States /\ Pointers(s) /\ s.next \in Nat
  BY <1>2 DEF Sound, States
<1>4. PICK u : u = [s EXCEPT !.next = w + 1]
  OBVIOUS
<1>5. u \in States /\ u.next = w + 1
  BY <1>2, <1>3, <1>4 DEF States
<1>6. /\ u.windows = s.windows /\ u.dock = s.dock /\ u.told = s.told /\ u.active = s.active
      /\ u.bar = s.bar /\ u.win = s.win /\ u.popup = s.popup /\ u.ub = s.ub
      /\ u.hovered = s.hovered /\ u.movable = s.movable /\ u.hiding = s.hiding
  BY <1>3, <1>4 DEF States
<1>7. /\ u.ub = s.ub \/ u.ub = "popup"
      /\ s.next <= u.next
      /\ {u.hovered, u.movable} \subseteq Live(s) \cup {Null} /\ u.hiding \subseteq Live(s)
  BY <1>2, <1>3, <1>5, <1>6 DEF Pointers
<1>8. Good(s, u)
  BY <1>2, <1>5, <1>6, <1>7, FieldsGood
<1>9. Sound(u) /\ ToldBut(u, {}) /\ Live(u) = Live(s)
  BY <1>2, <1>8 DEF Good
<1>10. Newest(u, w)
  BY <1>2, <1>3, <1>5, <1>6, <1>9 DEF Newest, Pointers
<1>11. ty = "Homescreen" => \A v \in Live(u) : type(u, v) # ty
  BY <1>1, <1>6, <1>9 DEF CreateWindow, live, type
<1>12. PICK z : z = add_window(u, w, ty)
  OBVIOUS
<1>13. Sound(z) /\ ToldBut(z, {})
  BY <1>9, <1>10, <1>11, <1>12, AddedSound
<1>14. wm' = z
  BY <1>1, <1>4, <1>12 DEF CreateWindow
<1> QED  BY <1>13, <1>14 DEF WindowInv

LEMMA MenuKeeps ==
    ASSUME WindowInv, NEW w \in WinIds, MenuBarCreateMenu(w)
    PROVE  WindowInv'
<1>1. PICK s : s = wm
  OBVIOUS
<1>2. PICK t : t = wm'
  OBVIOUS
<1>3. Sound(s) /\ s \in States /\ Pointers(s) /\ s.next \in Nat /\ s.win \in [WinIds -> Looks]
  BY <1>1 DEF WindowInv, Sound, States
<1>4. PICK look : look = [s.win[w] EXCEPT !.menus = @ + 1]
  OBVIOUS
<1>5. PICK l : l = [s.win EXCEPT ![w] = look]
  OBVIOUS
<1>6. /\ look \in Looks /\ look.type = s.win[w].type /\ look.mask = s.win[w].mask
      /\ look.visible = s.win[w].visible /\ look.frame = s.win[w].frame
  <2>1. s.win[w] \in Looks
    BY <1>3
  <2> QED  BY <1>4, <2>1 DEF Looks
<1>7. l \in [WinIds -> Looks] /\ l[w] = look /\ \A x \in WinIds \ {w} : l[x] = s.win[x]
  BY <1>3, <1>5, <1>6
<1>8. t = [s EXCEPT !.win = l]
  BY <1>1, <1>2, <1>4, <1>5 DEF MenuBarCreateMenu
<1>9. t \in States /\ t.win = l
  BY <1>3, <1>7, <1>8 DEF States
<1>10. /\ t.windows = s.windows /\ t.dock = s.dock /\ t.told = s.told /\ t.active = s.active
       /\ t.bar = s.bar /\ t.next = s.next /\ t.popup = s.popup /\ t.ub = s.ub
       /\ t.hovered = s.hovered /\ t.movable = s.movable /\ t.hiding = s.hiding
  BY <1>3, <1>8 DEF States
<1>11. Still(s, t) /\ PopupKept(s, t)
  BY <1>6, <1>7, <1>9, <1>10 DEF Still, PopupKept
<1>12. /\ t.ub = s.ub \/ t.ub = "popup"
       /\ s.next <= t.next
       /\ {t.hovered, t.movable} \subseteq Live(s) \cup {Null} /\ t.hiding \subseteq Live(s)
  BY <1>3, <1>10 DEF Pointers
<1>13. Sound(t) /\ Live(t) = Live(s) /\ \A but : ToldBut(s, but) => ToldBut(t, but)
  BY <1>3, <1>9, <1>11, <1>12, StillSound
<1>14. Good(s, t)
  BY <1>13 DEF Good
<1> QED  BY <1>1, <1>2, <1>14, GoodStep

LEMMA HideNextKeeps ==
    ASSUME WindowInv, HideNext
    PROVE  WindowInv'
<1>1. PICK s : s = wm
  OBVIOUS
<1>2. PICK t : t = wm'
  OBVIOUS
<1>3. PICK i \in DOMAIN s.windows :
        s.windows[i] \in s.hiding
        /\ t = [Minimized(s, s.windows[i]) EXCEPT !.hiding = @ \ {s.windows[i]}]
  BY <1>1, <1>2 DEF HideNext
<1>4. PICK w : w = s.windows[i]
  OBVIOUS
<1>5. Sound(s) /\ w \in Live(s) /\ s \in States
  BY <1>1, <1>3, <1>4 DEF WindowInv, Sound, Live, Range
<1>6. PICK m : m = Minimized(s, w)
  OBVIOUS
<1>7. Sound(m) /\ Kin(s, m)
  BY <1>5, <1>6, MinimizedSound
<1>8. Good(s, m)
  BY <1>5, <1>7, KinGood
<1>9. m \in States /\ Pointers(m) /\ m.next \in Nat /\ m.hiding \in SUBSET WinIds
  BY <1>7 DEF Sound, States
<1>10. PICK h : h = m.hiding \ {w}
  OBVIOUS
<1>11. t = [m EXCEPT !.hiding = h]
  BY <1>3, <1>4, <1>6, <1>10
<1>12. t \in States /\ t.hiding = h
  BY <1>9, <1>10, <1>11 DEF States
<1>13. /\ t.windows = m.windows /\ t.dock = m.dock /\ t.told = m.told /\ t.active = m.active
       /\ t.bar = m.bar /\ t.win = m.win /\ t.popup = m.popup /\ t.ub = m.ub
       /\ t.next = m.next /\ t.hovered = m.hovered /\ t.movable = m.movable
  BY <1>9, <1>11 DEF States
<1>14. /\ t.ub = m.ub \/ t.ub = "popup"
       /\ m.next <= t.next
       /\ {t.hovered, t.movable} \subseteq Live(m) \cup {Null} /\ t.hiding \subseteq Live(m)
  BY <1>9, <1>10, <1>12, <1>13 DEF Pointers
<1>15. Good(m, t)
  BY <1>7, <1>12, <1>13, <1>14, FieldsGood
<1>16. Good(s, t)
  BY <1>8, <1>15, GoodGood
<1> QED  BY <1>1, <1>2, <1>16, GoodStep

LEMMA MouseKeeps ==
    ASSUME WindowInv, NEW left \in BOOLEAN, NEW right \in BOOLEAN, NEW p \in Places,
           receive_mouse_event(left, right, p)
    PROVE  WindowInv'
<1>1. PICK o : o = wm
  OBVIOUS
<1>2. PICK t : t = wm'
  OBVIOUS
<1>3. PICK s : s = [o EXCEPT !.left = left, !.right = right]
  OBVIOUS
<1>4. PICK changed : changed = (left # o.left \/ right # o.right)
  OBVIOUS
<1>5. PICK c : c = IF left THEN hide(s) ELSE s
  OBVIOUS
<1>6. PICK w : w = IF p.at \in {"content", "frame"} THEN p.w ELSE Null
  OBVIOUS
<1>7. /\ Under(p)
      /\ t = IF s.movable # Null THEN [s EXCEPT !.movable = IF left THEN @ ELSE Null] ELSE
             CASE p.at = "popup"   -> IF changed /\ left /\ p.item # "none"
                                      THEN PopupClick(s, p.item) ELSE s
               [] p.at = "panel"   -> IF changed /\ left THEN show(c, c.bar, p.menu) ELSE c
               [] p.at = "bar"     -> c
               [] p.at = "nothing" -> Focus(c, Null)
               [] OTHER            -> Hover(Focus(c, w), p, left /\ ~o.left)
  BY <1>1, <1>2, <1>3, <1>4, <1>5, <1>6 DEF receive_mouse_event
<1>8. Sound(o) /\ o \in States /\ Pointers(o) /\ Bars(o)
  BY <1>1 DEF WindowInv, Sound
<1>9. Good(o, s) /\ s.movable = o.movable /\ s.popup = o.popup /\ s.bar = o.bar
  <2>1. PICK mv \in {o.movable, Null} : mv = o.movable
    OBVIOUS
  <2>2. s = [o EXCEPT !.left = left, !.right = right, !.movable = mv]
    BY <1>3, <1>8, <2>1 DEF States
  <2>3. Good(o, s)
    BY <1>8, <2>2, ButtonsGood
  <2> QED  BY <1>3, <1>8, <2>3 DEF States
<1>10. Sound(s) /\ Live(s) = Live(o)
  BY <1>9 DEF Good
<1>11. Good(o, c) /\ c.bar = o.bar
  <2>1. CASE left
    <3>1. c = hide(s) /\ s \in States
      BY <1>5, <1>10, <2>1 DEF Sound
    <3>2. Good(s, c)
      BY <1>10, <3>1, HideGood
    <3>3. c.bar = s.bar
      BY <3>1, HideFields
    <3> QED  BY <1>9, <3>2, <3>3, GoodGood
  <2>2. CASE ~left
    BY <1>5, <1>9, <2>2
  <2> QED  BY <2>1, <2>2
<1>12. Sound(c) /\ Live(c) = Live(o)
  BY <1>11 DEF Good
<1>13. CASE s.movable # Null
  <2>1. PICK mv \in {s.movable, Null} : mv = IF left THEN s.movable ELSE Null
    OBVIOUS
  <2>2. t = [o EXCEPT !.left = left, !.right = right, !.movable = mv] /\ mv \in {o.movable, Null}
    BY <1>3, <1>7, <1>8, <1>9, <1>13, <2>1 DEF States
  <2>3. Good(o, t)
    BY <1>8, <2>2, ButtonsGood
  <2> QED  BY <1>1, <1>2, <2>3, GoodStep
<1>14. CASE s.movable = Null /\ p.at = "popup"
  <2>1. t = IF changed /\ left /\ p.item # "none" THEN PopupClick(s, p.item) ELSE s
    BY <1>7, <1>14
  <2>2. s.popup.visible
    BY <1>1, <1>7, <1>9, <1>14 DEF Under
  <2>3. Good(s, t)
    <3>1. CASE changed /\ left /\ p.item # "none"
      <4>1. t = PopupClick(s, p.item)
        BY <2>1, <3>1
      <4> QED  BY <1>10, <2>2, <4>1, PopupClickGood
    <3>2. CASE ~(changed /\ left /\ p.item # "none")
      BY <1>10, <2>1, <3>2 DEF Good
    <3> QED  BY <3>1, <3>2
  <2>4. Good(o, t)
    BY <1>9, <2>3, GoodGood
  <2> QED  BY <1>1, <1>2, <2>4, GoodStep
<1>15. CASE s.movable = Null /\ p.at = "panel"
  <2>1. t = IF changed /\ left THEN show(c, c.bar, p.menu) ELSE c
    BY <1>7, <1>15
  <2>2. c.bar \in Live(c) /\ p.menu \in Int
    <3>1. o.bar # Null
      BY <1>1, <1>7, <1>15 DEF Under
    <3>2. p.menu \in Menus
      BY <1>15 DEF Places
    <3> QED  BY <1>8, <1>11, <1>12, <3>1, <3>2 DEF Pointers, Menus
  <2>3. Good(c, t)
    <3>1. CASE changed /\ left
      <4>1. t = show(c, c.bar, p.menu)
        BY <2>1, <3>1
      <4> QED  BY <1>12, <2>2, <4>1, ShowGood
    <3>2. CASE ~(changed /\ left)
      BY <1>12, <2>1, <3>2 DEF Good
    <3> QED  BY <3>1, <3>2
  <2>4. Good(o, t)
    BY <1>11, <2>3, GoodGood
  <2> QED  BY <1>1, <1>2, <2>4, GoodStep
<1>16. CASE s.movable = Null /\ p.at = "bar"
  <2>1. t = c
    BY <1>7, <1>16
  <2> QED  BY <1>1, <1>2, <1>11, <2>1, GoodStep
<1>17. CASE s.movable = Null /\ p.at = "nothing"
  <2>1. t = Focus(c, Null) /\ Null \in Live(c) \cup {Null}
    BY <1>7, <1>17
  <2>2. Good(c, t)
    BY <1>12, <2>1, FocusGood
  <2>3. Good(o, t)
    BY <1>11, <2>2, GoodGood
  <2> QED  BY <1>1, <1>2, <2>3, GoodStep
<1>18. CASE s.movable = Null /\ p.at \in {"content", "frame"}
  <2>1. PICK f : f = Focus(c, w)
    OBVIOUS
  <2>2. t = Hover(f, p, left /\ ~o.left)
    BY <1>7, <1>18, <2>1
  <2>3. w = p.w /\ p.w \in Live(c)
    BY <1>1, <1>6, <1>7, <1>12, <1>18 DEF Under, live
  <2>4. Good(c, f)
    BY <1>12, <2>1, <2>3, FocusGood
  <2>5. Sound(f) /\ p.w \in Live(f)
    BY <2>3, <2>4 DEF Good
  <2>6. Good(f, t)
    BY <2>2, <2>5, HoverGood
  <2>7. Good(o, t)
    BY <1>11, <2>4, <2>6, GoodGood
  <2> QED  BY <1>1, <1>2, <2>7, GoodStep
<1>19. p.at \in {"popup", "panel", "bar", "nothing", "content", "frame"}
  BY DEF Places
<1> QED  BY <1>13, <1>14, <1>15, <1>16, <1>17, <1>18, <1>19

LEMMA RequestKeeps ==
    ASSUME WindowInv, wm.ub = "no", wm.hiding = {}, Request
    PROVE  WindowInv'
<1>1. PICK s : s = wm
  OBVIOUS
<1>2. PICK t : t = wm'
  OBVIOUS
<1>3. Sound(s) /\ ToldBut(s, {}) /\ Live(s) = live
  BY <1>1 DEF WindowInv, live
<1>4. ASSUME NEW w \in WinIds, DestroyWindow(w) PROVE WindowInv'
  <2>1. t = remove_window(s, w) /\ w \in Live(s)
    BY <1>1, <1>2, <1>3, <1>4 DEF DestroyWindow
  <2>2. Sound(t) /\ ToldBut(t, {})
    BY <1>1, <1>3, <2>1, RemovedSound
  <2> QED  BY <1>2, <2>2 DEF WindowInv
<1>5. ASSUME NEW w \in WinIds, PopupShowMenu(w) PROVE WindowInv'
  <2>1. t = show(s, w, Requested) /\ w \in Live(s) /\ Requested \in Int
    BY <1>1, <1>2, <1>3, <1>5 DEF PopupShowMenu, Requested
  <2>2. Good(s, t)
    BY <1>3, <2>1, ShowGood
  <2> QED  BY <1>1, <1>2, <2>2, GoodStep
<1>6. ASSUME NEW w \in WinIds, NEW target \in WinIds, AskBringToFront(w, target)
      PROVE  WindowInv'
  <2>1. t = set_active_window(s, target) /\ target \in Live(s)
    BY <1>1, <1>2, <1>3, <1>6 DEF AskBringToFront
  <2>2. Good(s, t)
    BY <1>3, <2>1, ActivateGood
  <2> QED  BY <1>1, <1>2, <2>2, GoodStep
<1> QED  BY <1>4, <1>5, <1>6, CreateKeeps, MenuKeeps, MouseKeeps DEF Request

\* After every request of a client and every event of the mouse, the window list,
\* the pointers into it, the focus, the frames, the menu bar and what the
\* listeners were told are in step.
THEOREM WindowInvariant == Spec => []WindowInv
<1>1. WMInit => WindowInv
  BY InitSound
<1>2. WindowInv /\ [WMNext]_wm => WindowInv'
  <2> SUFFICES ASSUME WindowInv, [WMNext]_wm PROVE WindowInv'
    OBVIOUS
  <2>1. CASE WMNext
    BY <2>1, RequestKeeps, HideNextKeeps DEF WMNext
  <2>2. CASE UNCHANGED wm
    BY <2>2 DEF WindowInv
  <2> QED  BY <2>1, <2>2
<1> QED  BY <1>1, <1>2, PTL DEF Spec

\* WindowManager::remove_window leaves no pointer to the window behind, and no
\* handler uses a deleted one but through the dock or a client's popup.
THEOREM NoWindowDangles == Spec => []NoDanglingWindow
<1>1. WindowInv => NoDanglingWindow
  BY DEF WindowInv, Sound, Pointers, Bars, NoDanglingWindow, live
<1> QED  BY <1>1, WindowInvariant, PTL

\* The window that has the focus is on top and can be seen, the menu bar and its
\* popup are that window's, and no other window looks active.
THEOREM FocusIsConsistent == Spec => []FocusConsistent
<1>1. WindowInv => ActiveInFront
  BY DEF WindowInv, Sound, OnTop, ActiveInFront
<1>2. WindowInv => BarFollowsActive
  BY DEF WindowInv, Sound, Bars, BarFollowsActive, live
<1>3. WindowInv => OneActiveFrame
  BY DEF WindowInv, Sound, Frames, OneActiveFrame, live
<1> QED  BY <1>1, <1>2, <1>3, WindowInvariant, PTL DEF FocusConsistent

\* The dock has been told of exactly the windows made since it came that are
\* still there: remove_window tells it before the window leaves the list.
THEOREM DockIsTold == Spec => []DockKnows
<1>1. WindowInv => DockKnows
  <2> SUFFICES ASSUME WindowInv, NEW d \in live, wm.win[d].mask
               PROVE  wm.told[d] = {w \in live : w >= d}
    BY DEF DockKnows
  <2>1. wm.told[d] = {w \in Live(wm) \ {} : w >= d}
    BY DEF WindowInv, ToldBut, live
  <2> QED  BY <2>1 DEF live
<1> QED  BY <1>1, WindowInvariant, PTL
=============================================================================
