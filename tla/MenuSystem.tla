----------------------------- MODULE MenuSystem -----------------------------
(***************************************************************************)
(* The menus of components/utils/util_menu_system.c.  A menu is a list of  *)
(* items, some of them disabled, shown a screen at a time; an item may     *)
(* run an application and open another menu.  The application holds the    *)
(* menu the user is in (here) and calls one function for each key.         *)
(*                                                                         *)
(* Positions count from 0, as in the code.  What the developer owes:       *)
(* at startup a menu stands on an enabled item and shows its screen        *)
(* (util_menu_system.h:129-130), and no menu opens one it was opened from,   *)
(* or menuTop would follow the parents in a circle.                        *)
(***************************************************************************)
EXTENDS Integers, FiniteSets, Sequences

CONSTANTS Menus,        \* the menus of the application
          Root,         \* the menu shown at startup
          nMenuItems,   \* per menu, how many items it has
          Disabled,     \* per menu, the items with M_DISABLED
          pSubMenu,     \* per menu and item, the menu it opens, or NoMenu
          Startup,      \* per menu, nCurrentItem at startup
          Kind,         \* per menu, nSelectedItem at startup
          NoMenu,       \* the null pointer
          PerScreen     \* MENU_ITEMS_PER_SCREEN

VARIABLES here,         \* the menu the user is in
          at,           \* per menu, nCurrentItem and nScreen
          nSelectedItem,
          pParentMenu,
          path          \* the menus entered and not left, for the properties

vars == <<here, at, nSelectedItem, pParentMenu, path>>

Items(m) == 0 .. nMenuItems[m] - 1
Enabled(m) == Items(m) \ Disabled[m]

\* Not in src/: the display driver of util_menu_driver.h.
menuGetScreen(i) == i \div PerScreen

ASSUME MenuAssumption ==
  /\ Root \in Menus /\ NoMenu \notin Menus
  /\ PerScreen \in Nat \ {0}
  /\ nMenuItems \in [Menus -> 1 .. 127] /\ Kind \in [Menus -> Int]
  /\ \A m \in Menus : /\ Startup[m] \in Enabled(m)
                      /\ Kind[m] \in Enabled(m) \cup {-1, -2}
                      /\ pSubMenu[m] \in [Items(m) -> Menus \cup {NoMenu}]

ASSUME NoCircle ==
  \E depth \in [Menus -> 1 .. Cardinality(Menus)] :
    \A m \in Menus : \A i \in Items(m) :
      pSubMenu[m][i] # NoMenu => depth[pSubMenu[m][i]] > depth[m]

\* The screen of the last item: the last one menuDown goes to.
LastScreen(m) == menuGetScreen(nMenuItems[m] - 1)

IsMax(i, S) == i \in S /\ \A j \in S : j <= i
IsMin(i, S) == i \in S /\ \A j \in S : i <= j

-----------------------------------------------------------------------------
(* The position a key leads to.  menuUp and menuDown return 1 exactly when *)
(* it is not the position they were called at.                             *)

Above(m, p) == {i \in Enabled(m) : i < p.item}
Below(m, p) == {i \in Enabled(m) : i > p.item}

UpFrom(m, p) ==
  LET s == menuGetScreen(p.item)
      a == CHOOSE i \in Above(m, p) : IsMax(i, Above(m, p))
  IN IF Above(m, p) # {} /\ menuGetScreen(a) = p.screen /\ s = p.screen
       THEN [p EXCEPT !.item = a]
     ELSE IF Above(m, p) # {} /\ menuGetScreen(a) = p.screen - 1 /\ s >= p.screen
       THEN [item |-> a, screen |-> p.screen - 1]
     ELSE IF p.screen > 0 THEN [p EXCEPT !.screen = @ - 1]
     ELSE p

\* Mutant: the current item stays behind when the screen changes.
DownFrom_behind(m, p) ==
  LET s == menuGetScreen(p.item)
      a == CHOOSE i \in Below(m, p) : IsMin(i, Below(m, p))
  IN IF Below(m, p) # {} /\ menuGetScreen(a) = p.screen /\ s = p.screen
       THEN [p EXCEPT !.item = a]
     ELSE IF p.screen < LastScreen(m) THEN [p EXCEPT !.screen = @ + 1]
     ELSE p

DownFrom(m, p) ==
  LET s == menuGetScreen(p.item)
      a == CHOOSE i \in Below(m, p) : IsMin(i, Below(m, p))
  IN IF Below(m, p) # {} /\ menuGetScreen(a) = p.screen /\ s = p.screen
       THEN [p EXCEPT !.item = a]
     ELSE IF Below(m, p) # {} /\ menuGetScreen(a) = p.screen + 1 /\ s <= p.screen
       THEN [item |-> a, screen |-> p.screen + 1]
     ELSE IF p.screen < LastScreen(m) THEN [p EXCEPT !.screen = @ + 1]
     ELSE p

\* while (menuUp(pMenu)): the position where menuUp returns 0.
Positions(m) == [item : Items(m), screen : 0 .. LastScreen(m)]

menuPositionTop(m, p) ==
  LET top[q \in Positions(m)] == IF UpFrom(m, q) = q THEN q ELSE top[UpFrom(m, q)]
  IN top[p]

-----------------------------------------------------------------------------
Init ==
  /\ here = Root
  /\ at = [m \in Menus |-> [item |-> Startup[m], screen |-> menuGetScreen(Startup[m])]]
  /\ nSelectedItem = Kind
  /\ pParentMenu = [m \in Menus |-> NoMenu]
  /\ path = <<Root>>

menuUp ==
  /\ at' = [at EXCEPT ![here] = UpFrom(here, @)]
  /\ UNCHANGED <<here, nSelectedItem, pParentMenu, path>>

menuDown ==
  /\ at' = [at EXCEPT ![here] = DownFrom(here, @)]
  /\ UNCHANGED <<here, nSelectedItem, pParentMenu, path>>

Open(sub) ==
  /\ here' = sub
  /\ pParentMenu' = [pParentMenu EXCEPT ![sub] = here]
  /\ path' = Append(path, sub)

\* An application that returns 1 keeps the user in the menu.
menuEnter ==
  LET item == at[here].item
      sub  == pSubMenu[here][item]
  IN /\ menuGetScreen(item) = at[here].screen
     /\ nSelectedItem' = [nSelectedItem EXCEPT ![here] = IF @ > -1 THEN item ELSE @]
     /\ \/ sub # NoMenu /\ Open(sub)
        \/ UNCHANGED <<here, pParentMenu, path>>
     /\ UNCHANGED at

Reset(m) ==
  IF nSelectedItem[m] = -1 THEN menuPositionTop(m, at[m])
  ELSE IF nSelectedItem[m] = -2 THEN at[m]
  ELSE [item |-> nSelectedItem[m], screen |-> menuGetScreen(nSelectedItem[m])]

menuBack ==
  /\ pParentMenu[here] # NoMenu
  /\ at' = [at EXCEPT ![here] = Reset(here)]
  /\ here' = pParentMenu[here]
  /\ path' = SubSeq(path, 1, Len(path) - 1)
  /\ UNCHANGED <<nSelectedItem, pParentMenu>>

menuTop ==
  LET top[m \in Menus] == IF pParentMenu[m] = NoMenu THEN m ELSE top[pParentMenu[m]]
  IN /\ here' = top[here]
     /\ path' = <<Root>>
     /\ UNCHANGED <<at, nSelectedItem, pParentMenu>>

Next == menuUp \/ menuDown \/ menuEnter \/ menuBack \/ menuTop

Spec == Init /\ [][Next]_vars

-----------------------------------------------------------------------------
(* What the user sees of a menu is a list of stops: its enabled items, and *)
(* a blank stop (item -1) for each screen that has none.                   *)

Stops(m) == {[screen |-> menuGetScreen(i), item |-> i] : i \in Enabled(m)}
            \cup {[screen |-> s, item |-> -1] :
                    s \in {t \in 0 .. LastScreen(m) :
                             \A i \in Enabled(m) : menuGetScreen(i) # t}}

StopOf(p) == [screen |-> p.screen,
              item |-> IF menuGetScreen(p.item) = p.screen THEN p.item ELSE -1]

\* Every menu stands on an enabled item, and when the screen shown is not
\* that item's, it has no enabled item: what menuEnter takes for granted when
\* it does nothing there (util_menu_system.c:242-243).
StandsOnStop == \A m \in Menus : /\ at[m].item \in Enabled(m)
                                 /\ StopOf(at[m]) \in Stops(m)

\* menuBack and menuTop go where the user came from, though a menu opened from
\* several others has only one parent pointer.
ParentsArePath ==
  /\ here = path[Len(path)] /\ path[1] = Root /\ pParentMenu[Root] = NoMenu
  /\ \A k \in 2 .. Len(path) : pParentMenu[path[k]] = path[k - 1]
=============================================================================
