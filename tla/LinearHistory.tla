--------------------------- MODULE LinearHistory ---------------------------
(***************************************************************************)
(* What the "Datos limpios" panel promises the owner of a working copy: a  *)
(* straight-line history of versions.  A request adds versions on top,     *)
(* rolls back to just before one of them, or starts over; the version on   *)
(* top is the one shown, sampled and exported.                             *)
(*                                                                         *)
(* Versions are numbers, newer ones larger.  The least live version is the *)
(* original the history grows from.                                        *)
(***************************************************************************)
EXTENDS Naturals

VARIABLES
  live,     \* the versions in the history, {} before the first one exists
  current   \* the version the user sees, 0 when there is none

vars == <<live, current>>

Greatest(v, S) == v \in S /\ \A w \in S : w <= v

Least(v, S) == v \in S /\ \A w \in S : v <= w

Init == live = {} /\ current = 0

(* One request may add several versions at once (an agent turn), the first *)
(* of all being the original.                                              *)
Extend ==
  /\ live \subseteq live'
  /\ live' # live
  /\ \A v \in live, w \in live' \ live : v < w
  /\ Greatest(current', live')

(* Version v and everything newer leave the history.                       *)
UndoFrom(v) ==
  /\ ~ Least(v, live)
  /\ live' = {w \in live : w < v}
  /\ Greatest(current', live')

(* Only the original remains.                                              *)
StartOver ==
  /\ \E v \in live : Least(v, live) /\ live' = {v} /\ current' = v

Next == Extend \/ (\E v \in live : UndoFrom(v)) \/ StartOver

Spec == Init /\ [][Next]_vars
=============================================================================
