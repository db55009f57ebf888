------------------------------ MODULE MapTools ------------------------------
(***************************************************************************)
(* The tools of the GeoSet map: the ruler and the lasso of                 *)
(* GeoSetMultiMap/Multi.tsx, with the hooks useLassoActivation,            *)
(* useLassoResults and useLassoSelection, the editable layer of            *)
(* components/useLassoLayer.ts, the dropdown of components/MapControls.tsx *)
(* and the mouse handlers of DeckGLContainer.tsx.                          *)
(*                                                                         *)
(* Points and shapes are abstracted to whether they are there and which    *)
(* drawing they come from.  A step is one event with the renders and       *)
(* effects that follow it.  Filtering the features of a shape takes no     *)
(* time for a small layer and any time for a large one.                    *)
(***************************************************************************)
EXTENDS Naturals, Sequences

CONSTANTS
    Slice,        \* layers
    Large,        \* layers with more features than SYNC_THRESHOLD
    LayerLists,   \* layers on the map, and the lasso-selectable ones of them
    None,         \* undefined
    Gated,        \* the deck has autozoom layers: no canvas without layers
    MaxDraws      \* bound: shapes drawn

ASSUME ToolsAssumption ==
    /\ Large \subseteq Slice
    /\ None \notin Slice
    /\ Gated \in BOOLEAN
    /\ MaxDraws \in Nat
    /\ \A l \in LayerLists : /\ l.loaded \subseteq Slice
                             /\ l.available \in Seq(l.loaded)

VARIABLES
    layerList,      \* sortedLayers and lassoLayers
    selectedLayer,  \* selectedLassoLayerId
    lassoIsActive,
    dropdownOpen,   \* isDropdownOpen of MapControls
    mode,           \* mode of the editable layer: "view" or "draw"
    timer,          \* the activation timeout is pending
    draws,          \* shapes drawn so far (bounded by MaxDraws)
    polygon,        \* lassoPolygon: the drawing it is from, 0 for null
    anchor,         \* anchorGeoCoord: likewise
    selected,       \* selectedFeatures: None when empty, else their origin
    requestId,      \* lassoRequestIdRef
    filtering,      \* calls of handleLassoPolygonComplete under way
    ruler,          \* measureState
    button,         \* the mouse button is held down on the map
    mouseDown,      \* mouseDownPosRef is set
    dragged,        \* measureDragRef
    popup           \* clickedFeature is set

activation == <<selectedLayer, lassoIsActive, dropdownOpen>>
editable   == <<mode, timer>>
results    == <<polygon, anchor, selected>>
requests   == <<requestId, filtering>>
mouse      == <<button, mouseDown, dragged>>

vars == <<layerList, activation, editable, draws, results, requests,
          ruler, mouse, popup>>

Origin == [draw: 1..MaxDraws, layer: Slice]

TypeOK ==
    /\ layerList \in LayerLists
    /\ selectedLayer \in Slice \cup {None}
    /\ lassoIsActive \in BOOLEAN
    /\ dropdownOpen \in BOOLEAN
    /\ mode \in {"view", "draw"}
    /\ timer \in BOOLEAN
    /\ draws \in 0..MaxDraws
    /\ polygon \in 0..draws
    /\ anchor \in 0..draws
    /\ selected \in Origin \cup {None}
    /\ requestId \in 0..draws
    /\ filtering \subseteq [id: 1..requestId, draw: 1..draws, layer: Slice]
    /\ ruler \in [active: BOOLEAN, start: BOOLEAN, end: BOOLEAN,
                  dragging: BOOLEAN]
    /\ button \in BOOLEAN
    /\ mouseDown \in BOOLEAN
    /\ dragged \in BOOLEAN
    /\ popup \in BOOLEAN

-----------------------------------------------------------------------------
loaded    == layerList.loaded
available == layerList.available

hasMultipleLayers == Len(available) > 1

CanvasOf(list) == Gated => list.loaded # {}

Canvas == CanvasOf(layerList)

NoMeasure == [active |-> FALSE, start |-> FALSE, end |-> FALSE,
              dragging |-> FALSE]

ResultsBar == selected # None \/ (polygon # 0 /\ anchor # 0)

\* The effect that selects the first layer when none is selected.
AutoSelect(current, lassoLayers) ==
    IF current = None /\ lassoLayers # <<>> THEN lassoLayers[1] ELSE current

clearSelection == polygon' = 0 /\ anchor' = 0 /\ selected' = None

\* Faulty variant: the points stay.
StopButKeepPoints == ruler' = [ruler EXCEPT !.active = FALSE]

StopRuler == ruler' = NoMeasure

\* Faulty variant: the selected layer is taken to be on the map.
LayerAssumed == TRUE

\* onPolygonComplete finds the entry of the selected layer.
LayerOnMap == selectedLayer \in loaded

\* Faulty variant: the ruler is left on.
ActivateBesideRuler ==
    /\ lassoIsActive' = TRUE
    /\ mode' = "draw"
    /\ timer' = TRUE
    /\ UNCHANGED ruler

\* handleLassoActivate.  Of the two effects that follow, one sets the mode to
\* view and starts the timeout, the next one sets it to draw.
handleLassoActivate ==
    /\ StopRuler
    /\ lassoIsActive' = TRUE
    /\ mode' = "draw"
    /\ timer' = TRUE

deactivateLasso == lassoIsActive' = FALSE /\ timer' = FALSE

\* Faulty variant: the mode of the editable layer is not set back.
NoDrawAgain == UNCHANGED mode

\* The effect that follows the clearing of a shape while the lasso is active.
DrawAgain == mode' = IF polygon # 0 THEN "draw" ELSE mode

-----------------------------------------------------------------------------
Init ==
    /\ layerList \in LayerLists
    /\ selectedLayer = AutoSelect(None, available)
    /\ lassoIsActive = FALSE
    /\ dropdownOpen = FALSE
    /\ mode = "draw"
    /\ timer = FALSE
    /\ draws = 0
    /\ polygon = 0
    /\ anchor = 0
    /\ selected = None
    /\ requestId = 0
    /\ filtering = {}
    /\ ruler = NoMeasure
    /\ button = FALSE
    /\ mouseDown = FALSE
    /\ dragged = FALSE
    /\ popup = FALSE

\* A load changes the layers.  Without a canvas the map and its controls are
\* unmounted; their state starts afresh when they come back.
ChangeLayers(list) ==
    /\ list # layerList
    /\ layerList' = list
    /\ selectedLayer' = IF list.available # available
                        THEN AutoSelect(selectedLayer, list.available)
                        ELSE selectedLayer
    /\ IF Canvas = CanvasOf(list)
       THEN UNCHANGED <<dropdownOpen, editable, mouseDown, dragged>>
       ELSE /\ dropdownOpen' = FALSE
            /\ mode' = "draw"
            /\ timer' = (lassoIsActive /\ CanvasOf(list))
            /\ mouseDown' = FALSE
            /\ dragged' = FALSE
    /\ UNCHANGED <<lassoIsActive, draws, results, requests, ruler, button, popup>>

\* The lasso button: leaves lasso mode, or opens and closes the dropdown.
ClickLassoButton ==
    /\ Canvas /\ ~button
    /\ IF lassoIsActive
       THEN deactivateLasso /\ clearSelection /\ dropdownOpen' = FALSE
       ELSE /\ dropdownOpen' = ~dropdownOpen
            /\ UNCHANGED <<lassoIsActive, timer, results>>
    /\ UNCHANGED <<layerList, selectedLayer, mode, draws, requests, ruler,
                   mouse, popup>>

\* A press anywhere else, or the X of the dropdown: closeAndActivate.
CloseDropdown ==
    /\ dropdownOpen /\ ~button
    /\ dropdownOpen' = FALSE
    /\ IF hasMultipleLayers => selectedLayer # None
       THEN handleLassoActivate
       ELSE UNCHANGED <<lassoIsActive, editable, ruler>>
    /\ UNCHANGED <<layerList, selectedLayer, draws, results, requests, mouse,
                   popup>>

handleLassoLayerSelect(s) ==
    /\ dropdownOpen
    /\ hasMultipleLayers
    /\ \E i \in DOMAIN available : available[i] = s
    /\ selectedLayer' = s
    /\ UNCHANGED <<layerList, lassoIsActive, dropdownOpen, editable, draws,
                   results, requests, ruler, mouse, popup>>

ActivationTimeout ==
    /\ timer
    /\ timer' = FALSE
    /\ mode' = "draw"
    /\ UNCHANGED <<layerList, activation, draws, results, requests, ruler,
                   mouse, popup>>

-----------------------------------------------------------------------------
(* Drawing and filtering.                                                  *)

\* What a finished filter shows; found says whether any feature was inside.
ShowResult(draw, layer, found) ==
    /\ selected' = IF found THEN [draw |-> draw, layer |-> layer] ELSE None
    /\ anchor' = draw

\* A shape is finished (editType addFeature) and handleLassoComplete runs.
handleLassoComplete ==
    /\ Canvas /\ lassoIsActive /\ mode = "draw" /\ draws < MaxDraws
    /\ draws' = draws + 1
    /\ mode' = "view"
    /\ polygon' = draws + 1
    /\ IF ~LayerOnMap
       THEN UNCHANGED <<requests, anchor, selected>>
       ELSE /\ requestId' = requestId + 1
            /\ IF selectedLayer \in Large
               THEN /\ filtering' = filtering \cup
                         {[id |-> requestId + 1, draw |-> draws + 1,
                           layer |-> selectedLayer]}
                    /\ UNCHANGED <<anchor, selected>>
               ELSE /\ \E found \in BOOLEAN :
                         ShowResult(draws + 1, selectedLayer, found)
                    /\ UNCHANGED filtering
    /\ UNCHANGED <<layerList, activation, timer, ruler, mouse, popup>>

\* Faulty variant: the request is not compared with the latest one.
FilterFinishesAlways(r, found) ==
    /\ filtering' = filtering \ {r}
    /\ ShowResult(r.draw, r.layer, found)
    /\ UNCHANGED <<layerList, activation, editable, draws, polygon, requestId,
                   ruler, mouse, popup>>

\* Faulty variant: nothing is shown for a shape without features.
FilterFinishesNonEmpty(r, found) ==
    /\ filtering' = filtering \ {r}
    /\ IF r.id = requestId /\ found
       THEN ShowResult(r.draw, r.layer, found)
       ELSE UNCHANGED <<anchor, selected>>
    /\ UNCHANGED <<layerList, activation, editable, draws, polygon, requestId,
                   ruler, mouse, popup>>

FilterFinishes(r, found) ==
    /\ filtering' = filtering \ {r}
    /\ IF r.id = requestId
       THEN ShowResult(r.draw, r.layer, found)
       ELSE UNCHANGED <<anchor, selected>>
    /\ UNCHANGED <<layerList, activation, editable, draws, polygon, requestId,
                   ruler, mouse, popup>>

\* The X of the results bar.
ClearResults ==
    /\ Canvas /\ ResultsBar /\ ~dropdownOpen /\ ~button
    /\ clearSelection
    /\ IF lassoIsActive THEN DrawAgain ELSE UNCHANGED mode
    /\ UNCHANGED <<layerList, activation, timer, draws, requests, ruler, mouse,
                   popup>>

\* Faulty variant: the selection effect is not run again after a reset.
ResetWithoutSelect == selectedLayer' = None

resetLayer == selectedLayer' = AutoSelect(None, available)

\* Escape is heard by the tool that is active.
Escape ==
    /\ IF ruler.active THEN StopRuler ELSE UNCHANGED ruler
    /\ IF lassoIsActive
       THEN deactivateLasso /\ resetLayer /\ clearSelection
       ELSE UNCHANGED <<lassoIsActive, timer, selectedLayer, results>>
    /\ UNCHANGED <<layerList, dropdownOpen, mode, draws, requests, mouse, popup>>

-----------------------------------------------------------------------------
(* The ruler and the mouse.                                                *)

handleRulerToggle ==
    /\ Canvas /\ ~button
    /\ IF ruler.active
       THEN StopRuler /\ UNCHANGED <<lassoIsActive, timer>>
       ELSE ruler' = [NoMeasure EXCEPT !.active = TRUE] /\ deactivateLasso
    /\ UNCHANGED <<layerList, selectedLayer, dropdownOpen, mode, draws, results,
                   requests, mouse, popup>>

handleMeasureClick ==
    IF ruler.dragging THEN ruler
    ELSE IF ruler.start /\ ~ruler.end THEN [ruler EXCEPT !.end = TRUE]
    ELSE [ruler EXCEPT !.start = TRUE, !.end = FALSE]

\* A press and release in one place, on a feature or on the bare map.  A
\* press in ruler mode forgets the last drag.
Tap(onFeature) ==
    LET ignored == lassoIsActive \/ (dragged /\ ~ruler.active)
    IN /\ Canvas /\ ~dropdownOpen /\ ~button
       /\ dragged' = (dragged /\ ~ruler.active)
       /\ mouseDown' = (mouseDown /\ ~ruler.active)
       /\ ruler' = IF ruler.active /\ ~ignored THEN handleMeasureClick ELSE ruler
       /\ popup' = IF onFeature
                   THEN popup \/ (~ruler.active /\ ~lassoIsActive)
                   ELSE popup /\ ignored
       /\ UNCHANGED <<layerList, activation, editable, draws, results, requests,
                      button>>

MouseDown ==
    /\ Canvas /\ ~dropdownOpen /\ ~button
    /\ button' = TRUE
    /\ IF ruler.active
       THEN mouseDown' = TRUE /\ dragged' = FALSE
       ELSE UNCHANGED <<mouseDown, dragged>>
    /\ UNCHANGED <<layerList, activation, editable, draws, results, requests,
                   ruler, popup>>

\* handleMeasureDragStart, if it is the first move, and handleMeasureDrag.
DragTo ==
    IF dragged
    THEN IF ruler.dragging THEN [ruler EXCEPT !.end = TRUE] ELSE ruler
    ELSE [ruler EXCEPT !.start = TRUE, !.end = TRUE, !.dragging = TRUE]

\* The mouse moves beyond the threshold.
MouseMove ==
    /\ Canvas /\ ruler.active /\ mouseDown
    /\ dragged' = TRUE
    /\ ruler' = DragTo
    /\ UNCHANGED <<layerList, activation, editable, draws, results, requests,
                   button, mouseDown, popup>>

\* handleMeasureDragEnd; nothing is reset when the ruler is off by then.
MouseUp ==
    /\ button
    /\ button' = FALSE
    /\ IF ruler.active /\ Canvas
       THEN /\ mouseDown' = FALSE
            /\ dragged' = FALSE
            /\ ruler' = IF dragged /\ ruler.dragging
                        THEN [ruler EXCEPT !.end = TRUE, !.dragging = FALSE]
                        ELSE ruler
       ELSE UNCHANGED <<mouseDown, dragged, ruler>>
    /\ UNCHANGED <<layerList, activation, editable, draws, results, requests,
                   popup>>

handleClosePopup ==
    /\ popup /\ Canvas /\ ~dropdownOpen /\ ~button
    /\ popup' = FALSE
    /\ UNCHANGED <<layerList, activation, editable, draws, results, requests,
                   ruler, mouse>>

Lasso ==
    \/ ClickLassoButton
    \/ CloseDropdown
    \/ \E s \in Slice : handleLassoLayerSelect(s)
    \/ ActivationTimeout
    \/ handleLassoComplete
    \/ ClearResults

Filter == \E r \in filtering, found \in BOOLEAN : FilterFinishes(r, found)

Mouse ==
    \/ handleRulerToggle
    \/ \E onFeature \in BOOLEAN : Tap(onFeature)
    \/ MouseDown
    \/ MouseMove
    \/ MouseUp
    \/ handleClosePopup

Next ==
    \/ \E list \in LayerLists : ChangeLayers(list)
    \/ Lasso
    \/ Filter
    \/ Escape
    \/ Mouse

Spec == Init /\ [][Next]_vars

\* The batches of a filter are timeouts of 0: they are run in the end.
FairSpec == Spec /\ WF_vars(Filter)
-----------------------------------------------------------------------------
(* Safety.                                                                 *)

\* The ruler and the lasso exclude each other, whatever order they are
\* switched in and whichever way the lasso is activated.
OneTool == ~(ruler.active /\ lassoIsActive)

\* A ruler that was left, by its button, by Escape in the middle of a drag or
\* for the lasso, has no points; moves and releases of the mouse that arrive
\* later do not bring any back.
RulerOffMeasuresNothing == ~ruler.active => ruler = NoMeasure

\* A visible map in lasso mode without a shape lets the user draw one: the
\* three effects and the timeout never leave the editable layer in view mode.
CanAlwaysDraw == Canvas /\ lassoIsActive /\ polygon = 0 => mode = "draw"

\* "Auto-select the first available layer when none is selected": also after
\* a reset, which leaves the list of layers as it is.
SomeLayerSelected == available # <<>> => selectedLayer # None

\* The features shown next to a shape are those of that shape, also when a
\* second one is drawn or a late answer comes, unless it is being filtered.
ResultMatchesShape ==
    selected # None /\ polygon # 0 =>
        \/ selected.draw = polygon /\ anchor = polygon
        \/ \E r \in filtering : r.draw = polygon

\* A filter that was overtaken by a newer shape shows nothing when it ends: not
\* while the newer one is filtered, not after that one has answered, and not
\* when a small layer answered it at once (the request id of lassoSelection.ts).
NewestFilterWins ==
    [][\A r \in filtering :
         r \notin filtering' /\ r.id < requestId => UNCHANGED results]_vars

\* A shape drawn over a layer of the map gets its result bar, with or without
\* features, unless the shape is gone by then.
ShapeAnswered ==
    \A k \in 1..MaxDraws :
        (polygon = k /\ \E r \in filtering : r.draw = k)
          ~> (polygon # k \/ anchor = k)

-----------------------------------------------------------------------------
(* What a comment says and the code does not do.                           *)

\* lassoSelection.ts: "Discard if the user reset the lasso while filtering was
\* in progress".
ResetDiscardsResult == selected # None => polygon # 0
=============================================================================
