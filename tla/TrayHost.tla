------------------------------- MODULE TrayHost ------------------------------
(***************************************************************************)
(* X11TrayHost (backends/x11/src/x11/tray_host.cpp): the system trays on   *)
(* the top bars, and the X server's view of the icons.  The state s has    *)
(*   bars       the bars of BarModule, in creation order; the field tray   *)
(*              of a top bar is its tray, or NoTray,                       *)
(*   icon       for every icon window [alive, parent, info, mapped,        *)
(*              watched, large]: info is its _XEMBED_INFO ("none",         *)
(*              "mapped" or "unmapped"), mapped the server's map state,    *)
(*              watched whether the window manager selected its events,    *)
(*              large whether it is 256 pixels or more wide or high,       *)
(*   selection  the window that owns _NET_SYSTEM_TRAY_S,                   *)
(*   events     the X events about icons not read yet.                     *)
(* A tray is [win, owner, icons, shown], its icons a list of [win, mapped].*)
(* Other sizes, positions, stacking and forwarded clicks are left out, and *)
(* no other program takes the selection while the tray does.               *)
(***************************************************************************)
EXTENDS Integers, Sequences, SequencesExt

CONSTANTS
  Icons,    \* windows that clients dock in the tray
  Root,     \* the root window
  NoTray    \* a bar without a tray, the selection without an owner

Trays(s) == {b \in DOMAIN s.bars : s.bars[b].tray # NoTray}

is_icon(tray, i) == \E n \in DOMAIN tray.icons : tray.icons[n].win = i

\* The bars whose tray lists icon i.
Holding(s, i) == {b \in Trays(s) : is_icon(s.bars[b].tray, i)}

find_icon(tray, i) ==
  CHOOSE n \in DOMAIN tray.icons :
    tray.icons[n].win = i /\ \A m \in 1..(n - 1) : tray.icons[m].win # i

has_xembed_info(s, i) == s.icon[i].alive /\ s.icon[i].info # "none"
xembed_info_mapped(s, i) == s.icon[i].alive /\ s.icon[i].info = "mapped"

\* get_window_geometry has an answer, and it is not the size of an icon.
oversized(s, i) == s.icon[i].alive /\ s.icon[i].large
-----------------------------------------------------------------------------
(* Requests to the server.                                                 *)

Send(s, list) == [s EXCEPT !.events = @ \o list]

\* Reparenting takes a mapped window off the screen for a moment.  The
\* notification that the new parent is the root comes once for the icon (if
\* watched), once for the old parent and once for the root.
reparent_window(s, i, parent) ==
  LET w      == s.icon[i]
      unmap  == IF w.mapped THEN <<[type |-> "unmap", icon |-> i]>> ELSE <<>>
      e      == [type |-> "root", icon |-> i]
      rooted == IF parent # Root THEN <<>> ELSE IF w.watched THEN <<e, e, e>> ELSE <<e, e>>
  IN  IF ~w.alive THEN s
      ELSE Send([s EXCEPT !.icon[i].parent = parent], unmap \o rooted)

map_window(s, i) == IF s.icon[i].alive THEN [s EXCEPT !.icon[i].mapped = TRUE] ELSE s

unmap_window(s, i) ==
  IF s.icon[i].alive /\ s.icon[i].mapped
  THEN Send([s EXCEPT !.icon[i].mapped = FALSE], <<[type |-> "unmap", icon |-> i]>>)
  ELSE s

select_input(s, i) == [s EXCEPT !.icon[i].watched = s.icon[i].alive]
-----------------------------------------------------------------------------
(* The tray of bar b.                                                      *)

relayout(s, b) ==
  [s EXCEPT !.bars[b].tray.shown =
     \E n \in DOMAIN s.bars[b].tray.icons : s.bars[b].tray.icons[n].mapped]

add_icon(s, b, i) ==
  LET entry  == [win |-> i, mapped |-> ~has_xembed_info(s, i) \/ xembed_info_mapped(s, i)]
      taken  == reparent_window(select_input(s, i), i, s.bars[b].tray.win)
      listed == [taken EXCEPT !.bars[b].tray.icons = Append(@, entry)]
  IN  IF is_icon(s.bars[b].tray, i) \/ oversized(s, i) THEN s
      ELSE relayout(IF entry.mapped THEN map_window(listed, i) ELSE listed, b)

adopt_icon(s, b, i) ==
  IF s.bars[b].tray.owner /\ has_xembed_info(s, i) THEN add_icon(s, b, i) ELSE s

adopt_orphaned_icons(s, b) ==
  LET add(t, i) == add_icon(t, b, i)
  IN  FoldLeft(add, s, SetToSeq({i \in Icons : s.icon[i].parent = Root /\ has_xembed_info(s, i)}))

\* The constructor: the owner takes the selection and the icons on the root.
create_tray_host(s, b, win, own_selection) ==
  LET made == [s EXCEPT !.bars[b].tray =
                 [win |-> win, owner |-> own_selection, icons |-> <<>>, shown |-> TRUE]]
  IN  IF own_selection THEN adopt_orphaned_icons([made EXCEPT !.selection = win], b) ELSE made

\* The destructor: the icons go back to the root before the window goes.
destroy_tray_host(s, b) ==
  LET release(t, ic) ==
        LET out == reparent_window(t, ic.win, Root)
        IN  IF ic.mapped THEN map_window(out, ic.win) ELSE out
      out == FoldLeft(release, s, s.bars[b].tray.icons)
  IN  [out EXCEPT !.bars[b].tray = NoTray,
                  !.selection = IF s.bars[b].tray.owner THEN NoTray ELSE @]

remove_at(list, n) == SubSeq(list, 1, n - 1) \o SubSeq(list, n + 1, Len(list))

\* Mutant: the icon changes lists but not its parent.
transfer_listing_only(s, b, dst, i) ==
  LET n == find_icon(s.bars[b].tray, i)
  IN  relayout(relayout(
        [s EXCEPT !.bars[dst].tray.icons = Append(@, s.bars[b].tray.icons[n]),
                  !.bars[b].tray.icons = remove_at(@, n)], b), dst)

transfer_icon_to(s, b, dst, i) ==
  LET ic     == s.bars[b].tray.icons[find_icon(s.bars[b].tray, i)]
      moved  == [s EXCEPT !.bars[dst].tray.icons = Append(@, ic),
                          !.bars[b].tray.icons = remove_at(@, find_icon(s.bars[b].tray, i))]
      parent == reparent_window(select_input(moved, i), i, s.bars[dst].tray.win)
  IN  relayout(relayout(IF ic.mapped THEN map_window(parent, i) ELSE parent, b), dst)

\* Mutant: a window without _XEMBED_INFO is not docked.
dock_with_info_only(s, b, ev) ==
  IF ev.window = s.bars[b].tray.win THEN adopt_icon(s, b, ev.icon) ELSE s

handle_client_message(s, b, ev) ==
  IF ev.window = s.bars[b].tray.win THEN add_icon(s, b, ev.icon) ELSE s

handle_destroy_notify(s, b, i) ==
  relayout([s EXCEPT !.bars[b].tray.icons = remove_at(@, find_icon(s.bars[b].tray, i))], b)

handle_unmap_notify(s, b, i) ==
  LET marked == [s EXCEPT !.bars[b].tray.icons[find_icon(s.bars[b].tray, i)].mapped =
                   xembed_info_mapped(s, i)]
  IN  relayout(IF xembed_info_mapped(s, i) THEN map_window(marked, i) ELSE marked, b)

handle_property_notify(s, b, i) ==
  LET n      == find_icon(s.bars[b].tray, i)
      should == xembed_info_mapped(s, i)
      marked == [s EXCEPT !.bars[b].tray.icons[n].mapped = should]
  IN  IF should = s.bars[b].tray.icons[n].mapped THEN s
      ELSE relayout(IF should THEN map_window(marked, i) ELSE unmap_window(marked, i), b)
==============================================================================
