---------------------------- MODULE LayerReveal ----------------------------
(***************************************************************************)
(* What the layer loader of the GeoSet Multi Map promises, without saying  *)
(* how it loads.  A request names a set of slices; from then on the map    *)
(* reveals slices of that request only, each at most once, reveals them    *)
(* until every one was either shown or found to fail, and takes nothing    *)
(* off before the next request.                                            *)
(*                                                                         *)
(* Module LayerLoading, translated from multiUtils.ts and Multi.tsx, is    *)
(* shown to implement this one.                                            *)
(***************************************************************************)

CONSTANT Slice     \* the charts that can be layers

VARIABLES
    target,        \* the slices of the latest request
    shown,         \* those revealed on the map
    failed         \* those that could not be loaded

vars == <<target, shown, failed>>

TypeOK ==
    /\ target \subseteq Slice
    /\ shown \subseteq target
    /\ failed \subseteq target
    /\ shown \cap failed = {}

Init ==
    /\ target = {}
    /\ shown = {}
    /\ failed = {}

Unsettled == target \ (shown \cup failed)

\* A new request empties the map and starts over.
Request ==
    /\ target' \in (SUBSET Slice) \ {{}}
    /\ shown' = {}
    /\ failed' = {}

\* Some unsettled slices are answered; those that loaded are revealed.
Reveal ==
    /\ \E answered \in (SUBSET Unsettled) \ {{}}, ok \in SUBSET Unsettled :
         /\ ok \subseteq answered
         /\ shown' = shown \cup ok
         /\ failed' = failed \cup (answered \ ok)
    /\ UNCHANGED target

Next == Request \/ Reveal

Safety == Init /\ [][Next]_vars

Spec == Safety /\ WF_vars(Reveal)

\* If requests stop, every slice of the last one is eventually settled.
EventuallySettled == []<><<Request>>_vars \/ <>[](Unsettled = {})
=============================================================================
