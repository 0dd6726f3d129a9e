------------------------------ MODULE Compositor ------------------------------
(***************************************************************************)
(* The window manager's state: src/compositor/src/main.rs.  One task calls *)
(* it, so every method is one step; what takes several is an animation,    *)
(* which other methods may start, replace or cut short between its ticks.  *)
(***************************************************************************)
EXTENDS FiniteSets, SequencesExt, Lists

CONSTANTS
    Screen,      \* a Rect
    Shapes,      \* rectangles windows are created with
    Spots,       \* where the pointer drags a window's corner to: [x, y]
    Zones,       \* snap zones that are asked for by name
    Desks,       \* number of desktops (4 in the code)
    MaxWid,      \* bound: windows created
    Handled      \* bound: the windows a user drags, snaps and focuses

VARIABLES
    windows,     \* in the order they were created
    nextWid, activeDesk, focused, tiling,
    strays       \* history: windows that are not where retile last put them

compVars == <<windows, nextWid, activeDesk, focused, tiling, strays>>

-----------------------------------------------------------------------------
(* Geometry. *)

Rect(x, y, w, h) == [x |-> x, y |-> y, w |-> w, h |-> h]

SnapRect(zone) ==
    LET x == Screen.x
        y == Screen.y
        hw == Screen.w \div 2
        hh == Screen.h \div 2
        tw == Screen.w \div 3
    IN  CASE zone = "Left"        -> Rect(x, y, hw, Screen.h)
          [] zone = "Right"       -> Rect(x + hw, y, hw, Screen.h)
          [] zone = "Top"         -> Rect(x, y, Screen.w, hh)
          [] zone = "Bottom"      -> Rect(x, y + hh, Screen.w, hh)
          [] zone = "TopLeft"     -> Rect(x, y, hw, hh)
          [] zone = "TopRight"    -> Rect(x + hw, y, hw, hh)
          [] zone = "BottomLeft"  -> Rect(x, y + hh, hw, hh)
          [] zone = "BottomRight" -> Rect(x + hw, y + hh, hw, hh)
          [] zone = "Center"      -> Rect(x + Screen.w \div 8, y + Screen.h \div 8,
                                          (Screen.w * 3) \div 4, (Screen.h * 3) \div 4)
          [] zone = "ThirdLeft"   -> Rect(x, y, tw, Screen.h)
          [] zone = "ThirdMid"    -> Rect(x + tw, y, tw, Screen.h)
          [] zone = "ThirdRight"  -> Rect(x + 2 * tw, y, tw, Screen.h)

(* detect_snap: near one edge, or near two that meet. *)
DetectSnap(px, py) ==
    LET h == (IF px < Screen.x + 24 THEN {"Left"} ELSE {})
                 \cup (IF px > Screen.x + Screen.w - 24 THEN {"Right"} ELSE {})
        v == (IF py < Screen.y + 24 THEN {"Top"} ELSE {})
                 \cup (IF py > Screen.y + Screen.h - 24 THEN {"Bottom"} ELSE {})
    IN  IF Cardinality(h) > 1 \/ Cardinality(v) > 1 \/ h \cup v = {} THEN "none"
        ELSE IF h = {} THEN CHOOSE e \in v : TRUE
        ELSE IF v = {} THEN CHOOSE e \in h : TRUE
        ELSE CASE h = {"Left"}  /\ v = {"Top"}    -> "TopLeft"
               [] h = {"Right"} /\ v = {"Top"}    -> "TopRight"
               [] h = {"Left"}  /\ v = {"Bottom"} -> "BottomLeft"
               [] OTHER                           -> "BottomRight"

(* bsp_rects: halve the longer side until one rectangle is left for each;  *)
(* the first half gives up half the gap of 4.                              *)
Areas == [x : Int, y : Int, w : Nat, h : Nat]
Wide(a) == a.w >= a.h
Mid(a)  == (IF Wide(a) THEN a.w ELSE a.h) \div 2
Cut(a)  == IF Mid(a) > 2 THEN Mid(a) - 2 ELSE 0
Former(a) == IF Wide(a) THEN [a EXCEPT !.w = Cut(a)] ELSE [a EXCEPT !.h = Cut(a)]
Latter(a) == IF Wide(a) THEN [a EXCEPT !.x = @ + Mid(a), !.w = @ - Mid(a)]
             ELSE [a EXCEPT !.y = @ + Mid(a), !.h = @ - Mid(a)]
BspRects(area, n) ==
    LET bsp[k \in 0 .. n] ==
            [a \in Areas |->
                CASE k = 0 -> <<>>
                  [] k = 1 -> <<a>>
                  [] OTHER -> bsp[k \div 2][Former(a)] \o bsp[k - k \div 2][Latter(a)]]
    IN  bsp[n][area]

-----------------------------------------------------------------------------
(* Windows.  `to` holds the goal of an animation, and is empty at rest.    *)
(* A window keeps its old rectangle until its animation ends: no property  *)
(* looks at the positions in between.                                      *)

Window(id, r, d) ==
    [id |-> id, rect |-> r, desk |-> d, focused |-> FALSE, snap |-> "none", to |-> {r}]

(* Mutant of AnimateTo: an animation under way is not replaced. *)
AnimateTo_Once(w, r) == IF w.to # {} THEN w ELSE [w EXCEPT !.to = {r}]

AnimateTo(w, r) == [w EXCEPT !.to = {r}]

(* The tick that reaches the end of the window's animation. *)
Settle(w) == [w EXCEPT !.rect = CHOOSE r \in w.to : TRUE, !.to = {}]

Ids(ws) == {ws[i].id : i \in DOMAIN ws}
Change(ws, id, Op(_)) == [i \in DOMAIN ws |-> IF ws[i].id = id THEN Op(ws[i]) ELSE ws[i]]
Focused(ws, id) == [i \in DOMAIN ws |-> [ws[i] EXCEPT !.focused = ws[i].id = id]]

(* retile: every window of the active desktop goes to its slice of the     *)
(* screen, in order.                                                       *)
Retile(ws) ==
    LET on == {i \in DOMAIN ws : ws[i].desk = activeDesk}
        slices == BspRects(Screen, Cardinality(on))
        nth(i) == Cardinality({j \in on : j <= i})
    IN  [i \in DOMAIN ws |->
           IF i \in on THEN AnimateTo(ws[i], slices[nth(i)])
           ELSE ws[i]]

(* What create and close end with. *)
Arrange(ws, on) == IF on THEN Retile(ws) ELSE ws
Tidy(ids, ws, on) ==
    IF on THEN {i \in ids : \E k \in DOMAIN ws : ws[k].id = i /\ ws[k].desk # activeDesk}
    ELSE ids

Init ==
    /\ windows = <<>> /\ nextWid = 1 /\ activeDesk = 0
    /\ focused = 0 /\ tiling = FALSE /\ strays = {}

CreateWindow(r) ==
    /\ nextWid <= MaxWid
    /\ LET ws == Focused(Append(windows, Window(nextWid, r, activeDesk)), nextWid)
       IN  /\ windows' = Arrange(ws, tiling)
           /\ strays' = Tidy(strays \cup {nextWid}, ws, tiling)
    /\ nextWid' = nextWid + 1
    /\ focused' = nextWid
    /\ UNCHANGED <<activeDesk, tiling>>

(* `focused` goes on naming a window that was closed. *)
CloseWindow(id) ==
    /\ LET ws == Kept(windows, {i \in DOMAIN windows : windows[i].id # id})
       IN  /\ windows' = Arrange(ws, tiling)
           /\ strays' = Tidy(strays \ {id}, ws, tiling)
    /\ UNCHANGED <<nextWid, activeDesk, focused, tiling>>

(* focus does not ask whether there is such a window. *)
Focus(id) ==
    /\ windows' = Focused(windows, id)
    /\ focused' = id
    /\ UNCHANGED <<nextWid, activeDesk, tiling, strays>>

MoveWindow(id, spot) ==
    /\ windows' = Change(windows, id, LAMBDA w :
           [w EXCEPT !.rect = [@ EXCEPT !.x = spot.x, !.y = spot.y],
                     !.snap = DetectSnap(spot.x, spot.y)])
    /\ strays' = strays \cup {id}
    /\ UNCHANGED <<nextWid, activeDesk, focused, tiling>>

ReleaseWindow(id) ==
    /\ \E i \in DOMAIN windows : windows[i].id = id /\ windows[i].snap # "none"
    /\ windows' = Change(windows, id, LAMBDA w : AnimateTo(w, SnapRect(w.snap)))
    /\ strays' = strays \cup {id}
    /\ UNCHANGED <<nextWid, activeDesk, focused, tiling>>

Snap(id, zone) ==
    /\ windows' = Change(windows, id, LAMBDA w :
           [AnimateTo(w, SnapRect(zone)) EXCEPT !.snap = zone])
    /\ strays' = strays \cup {id}
    /\ UNCHANGED <<nextWid, activeDesk, focused, tiling>>

ToggleTiling ==
    /\ tiling' = ~tiling
    /\ windows' = Arrange(windows, tiling')
    /\ strays' = Tidy(strays, windows, tiling')
    /\ UNCHANGED <<nextWid, activeDesk, focused>>

(* No retile: windows of the other desktop stay as they were left. *)
SwitchDesktop(n) ==
    /\ n < Desks
    /\ activeDesk' = n
    /\ UNCHANGED <<windows, nextWid, focused, tiling, strays>>

(* A tick of the display: the animations that are through end; how long    *)
(* each has been running is left open.                                     *)
Tick ==
    /\ \E through \in SUBSET {i \in DOMAIN windows : windows[i].to # {}} :
         windows' = [i \in DOMAIN windows |->
                       IF i \in through THEN Settle(windows[i]) ELSE windows[i]]
    /\ UNCHANGED <<nextWid, activeDesk, focused, tiling, strays>>

Next ==
    \/ \E r \in Shapes : CreateWindow(r)
    \/ \E id \in Ids(windows) : CloseWindow(id)
    \/ \E id \in Ids(windows) \cap Handled :
         \/ \E s \in Spots : MoveWindow(id, s)
         \/ ReleaseWindow(id)
         \/ \E z \in Zones : Snap(id, z)
    \/ \E id \in Handled : Focus(id)
    \/ ToggleTiling
    \/ \E n \in 0..Desks : SwitchDesktop(n)
    \/ Tick

-----------------------------------------------------------------------------
Apart(r, s) == \/ r.x + r.w <= s.x \/ s.x + s.w <= r.x
               \/ r.y + r.h <= s.y \/ s.y + s.h <= r.y
Inside(r, s) == /\ s.x <= r.x /\ r.x + r.w <= s.x + s.w
                /\ s.y <= r.y /\ r.y + r.h <= s.y + s.h

(* Windows that retile placed and nobody moved since are, once at rest,    *)
(* inside the screen and apart from each other, whatever windows came and  *)
(* went and whatever animation was under way when they were placed.        *)
TilesApart ==
    \A i \in DOMAIN windows :
        (windows[i].id \notin strays /\ windows[i].to = {}) =>
            /\ Inside(windows[i].rect, Screen)
            /\ \A j \in DOMAIN windows :
                 (/\ i # j /\ windows[j].id \notin strays /\ windows[j].to = {}
                  /\ windows[i].desk = windows[j].desk) =>
                    Apart(windows[i].rect, windows[j].rect)

(* A window is drawn focused just when it is the one that gets the keys;   *)
(* after that one is closed, no window is.                                 *)
FocusAgrees ==
    \A i \in DOMAIN windows : windows[i].focused <=> windows[i].id = focused
=============================================================================
