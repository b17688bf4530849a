--------------------------- MODULE StaggeredViews ----------------------------
(***************************************************************************)
(* StaggeredViews of minddrive_speedups.py (orion_speedups.py has the      *)
(* same): the rear cameras go through the image backbone on every          *)
(* RefreshEvery-th call only; in between the heads are given the rear      *)
(* features of the call that computed them last.                           *)
(*                                                                         *)
(* A call is told apart by the frame it is made for; features are the      *)
(* frame they were computed from.                                          *)
(***************************************************************************)
EXTENDS Integers

CONSTANT RefreshEvery \* the rear_view_refresh_every parameter

ASSUME ViewsAssumption == RefreshEvery \in Nat \ {0}

NoFeatures == -1

\* _cache and _count of a wrapper that was just installed, or reset.
NewViews == [cache |-> NoFeatures, count |-> 0]

\* A call sends all six views through the backbone, or the front ones only.
Full(views) ==
  \/ RefreshEvery = 1
  \/ views.cache = NoFeatures
  \/ views.count % RefreshEvery = 0

\* The frame of the rear features that a call for frame f hands to the heads.
RearFeatures(views, f) == IF Full(views) THEN f ELSE views.cache

\* The wrapper after a call that raised in the backbone, and after one for
\* frame f.  The count matters modulo RefreshEvery.
Attempted(views) == [views EXCEPT !.count = (@ + 1) % RefreshEvery]
Called(views, f) == [Attempted(views) EXCEPT !.cache = RearFeatures(views, f)]
=============================================================================
