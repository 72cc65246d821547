----------------------------- MODULE HandlePool -----------------------------
(***************************************************************************)
(* What a pool of generational handles promises its users: a handle names  *)
(* one allocation for ever, whatever becomes of the slot behind it.        *)
(***************************************************************************)
EXTENDS Integers, FiniteSets

CONSTANTS
  Handles, \* what allocate() may return
  Capacity

VARIABLES
  live,   \* the handles that resolve to a value
  issued  \* every handle allocate() ever returned

vars == << live, issued >>

Init == live = {} /\ issued = {}

\* Allocation only fails when every slot is taken, and never returns a handle
\* that somebody may still keep from before.
Allocate(h) ==
  /\ Cardinality(live) < Capacity
  /\ h \notin issued
  /\ live' = live \cup {h}
  /\ issued' = issued \cup {h}

Release(h) ==
  /\ h \in live
  /\ live' = live \ {h}
  /\ UNCHANGED issued

\* A full pool gives nothing out.
AllocateFull == Cardinality(live) = Capacity /\ UNCHANGED vars

\* A handle that is not live releases nothing.
ReleaseStale(h) == h \in issued \ live /\ UNCHANGED vars

Next ==
  \/ \E h \in Handles : Allocate(h) \/ Release(h) \/ ReleaseStale(h)
  \/ AllocateFull

Spec == Init /\ [][Next]_vars

=============================================================================
