-------------------------- MODULE MCWaylandSurfaces ---------------------------
(* One Wayland client with one surface, one X window that is mapped twice. *)
EXTENDS WaylandSurfaces

CONSTANTS c1, x1

OneOwner == <<c1>>
XTwo     == <<11, 12>>
=============================================================================
