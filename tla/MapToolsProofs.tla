--------------------------- MODULE MapToolsProofs ---------------------------
(***************************************************************************)
(* Proofs about MapTools, for every set of layers, large or small, every   *)
(* set of lists the loads may leave on the map, and any number of drawings.*)
(***************************************************************************)
EXTENDS MapTools, TLAPS

\* What the effect of useLassoActivation selects is a layer, if there is one.
LEMMA AutoSelectType ==
    ASSUME NEW list \in LayerLists, NEW current \in Slice \cup {None}
    PROVE  /\ AutoSelect(current, list.available) \in Slice \cup {None}
           /\ list.available # <<>> =>
                AutoSelect(current, list.available) \in Slice
<1>1. list.loaded \subseteq Slice /\ list.available \in Seq(list.loaded)
  BY ToolsAssumption
<1>2. list.available # <<>> => list.available[1] \in Slice
  <2>1. list.available # <<>> => list.available[1] \in list.loaded
    BY <1>1
  <2> QED
    BY <1>1, <2>1
<1> QED
  BY <1>2 DEF AutoSelect

RulerType == [active: BOOLEAN, start: BOOLEAN, end: BOOLEAN, dragging: BOOLEAN]

LEMMA NoMeasureType == NoMeasure \in RulerType /\ ~NoMeasure.active
BY DEF NoMeasure, RulerType

-----------------------------------------------------------------------------
(* Type correctness, one lemma for each group of actions.                  *)

LEMMA InitType == Init => TypeOK
<1> SUFFICES ASSUME Init PROVE TypeOK
  OBVIOUS
<1>1. selectedLayer \in Slice \cup {None}
  BY AutoSelectType DEF Init, available
<1>2. 0 \in 0..MaxDraws /\ 0 \in 0..0
  BY ToolsAssumption
<1>3. ruler \in RulerType
  BY NoMeasureType DEF Init
<1> QED
  BY <1>1, <1>2, <1>3 DEF Init, TypeOK, RulerType

LEMMA ChangeLayersType ==
    ASSUME TypeOK, NEW list \in LayerLists, ChangeLayers(list)
    PROVE  TypeOK'
<1>1. selectedLayer' \in Slice \cup {None}
  BY AutoSelectType DEF TypeOK, ChangeLayers
<1>2. /\ dropdownOpen' \in BOOLEAN
      /\ mode' \in {"view", "draw"}
      /\ timer' \in BOOLEAN
      /\ mouseDown' \in BOOLEAN
      /\ dragged' \in BOOLEAN
  BY ToolsAssumption DEF TypeOK, ChangeLayers, editable, CanvasOf
<1> QED
  BY <1>1, <1>2 DEF TypeOK, ChangeLayers, results, requests

LEMMA LassoType ==
    ASSUME TypeOK, Lasso
    PROVE  TypeOK'
<1> USE DEF activation, editable, results, requests, mouse
<1>1. CASE ClickLassoButton
  <2>1. 0 \in 0..draws
    BY DEF TypeOK
  <2>2. /\ polygon' \in 0..draws
        /\ anchor' \in 0..draws
        /\ selected' \in Origin \cup {None}
    BY <1>1, <2>1 DEF TypeOK, ClickLassoButton, clearSelection
  <2>3. /\ lassoIsActive' \in BOOLEAN
        /\ dropdownOpen' \in BOOLEAN
        /\ timer' \in BOOLEAN
    BY <1>1 DEF TypeOK, ClickLassoButton, deactivateLasso
  <2> QED
    BY <1>1, <2>2, <2>3 DEF TypeOK, ClickLassoButton
<1>2. CASE CloseDropdown
  <2>1. ruler' \in RulerType
    BY <1>2, NoMeasureType
    DEF TypeOK, RulerType, CloseDropdown, handleLassoActivate, StopRuler
  <2>2. lassoIsActive' \in BOOLEAN /\ mode' \in {"view", "draw"} /\ timer' \in BOOLEAN
    BY <1>2 DEF TypeOK, CloseDropdown, handleLassoActivate
  <2> QED
    BY <1>2, <2>1, <2>2 DEF TypeOK, RulerType, CloseDropdown
<1>3. ASSUME NEW s \in Slice, handleLassoLayerSelect(s)
      PROVE  TypeOK'
  BY <1>3 DEF TypeOK, handleLassoLayerSelect
<1>4. CASE ActivationTimeout
  <2>1. mode' \in {"view", "draw"} /\ timer' \in BOOLEAN
    BY <1>4 DEF ActivationTimeout
  <2> QED
    BY <1>4, <2>1 DEF TypeOK, ActivationTimeout
<1>5. CASE handleLassoComplete
  <2>1. draws \in Nat /\ draws + 1 \in 1..MaxDraws /\ requestId \in 0..draws
    BY <1>5, ToolsAssumption DEF TypeOK, handleLassoComplete
  <2>2. LayerOnMap => selectedLayer \in Slice
    BY ToolsAssumption DEF TypeOK, LayerOnMap, loaded
  <2>3. /\ polygon' \in 0..draws'
        /\ anchor' \in 0..draws'
        /\ selected' \in Origin \cup {None}
        /\ requestId' \in 0..draws'
    BY <1>5, <2>1, <2>2
    DEF TypeOK, handleLassoComplete, ShowResult, Origin
  <2>4. filtering' \subseteq [id: 1..requestId', draw: 1..draws', layer: Slice]
    <3>1. filtering \subseteq [id: 1..(requestId + 1), draw: 1..(draws + 1), layer: Slice]
      BY <2>1 DEF TypeOK
    <3>2. filtering \subseteq [id: 1..requestId, draw: 1..(draws + 1), layer: Slice]
      BY <2>1 DEF TypeOK
    <3>3. LayerOnMap =>
            [id |-> requestId + 1, draw |-> draws + 1, layer |-> selectedLayer]
              \in [id: 1..(requestId + 1), draw: 1..(draws + 1), layer: Slice]
      BY <2>1, <2>2
    <3> QED
      BY <1>5, <3>1, <3>2, <3>3 DEF handleLassoComplete
  <2> QED
    BY <1>5, <2>1, <2>3, <2>4 DEF TypeOK, handleLassoComplete
<1>6. CASE ClearResults
  <2>1. 0 \in 0..draws
    BY DEF TypeOK
  <2> QED
    BY <1>6, <2>1 DEF TypeOK, ClearResults, clearSelection, DrawAgain
<1> QED
  BY <1>1, <1>2, <1>3, <1>4, <1>5, <1>6 DEF Lasso

LEMMA FilterType ==
    ASSUME TypeOK, Filter
    PROVE  TypeOK'
<1> PICK r \in filtering, found \in BOOLEAN : FilterFinishes(r, found)
  BY DEF Filter
<1>1. r.draw \in 1..draws /\ r.layer \in Slice /\ draws \in 0..MaxDraws
  BY DEF TypeOK
<1>2. [draw |-> r.draw, layer |-> r.layer] \in Origin /\ r.draw \in 0..draws
  BY <1>1, ToolsAssumption DEF Origin
<1>3. anchor' \in 0..draws /\ selected' \in Origin \cup {None}
  BY <1>2 DEF TypeOK, FilterFinishes, ShowResult
<1> QED
  BY <1>3 DEF TypeOK, FilterFinishes, activation, editable, mouse

LEMMA EscapeType ==
    ASSUME TypeOK, Escape
    PROVE  TypeOK'
<1>1. ruler' \in RulerType
  BY NoMeasureType DEF TypeOK, RulerType, Escape, StopRuler
<1>2. selectedLayer' \in Slice \cup {None}
  BY AutoSelectType DEF TypeOK, Escape, resetLayer, available, results
<1>3. 0 \in 0..draws
  BY DEF TypeOK
<1>4. /\ lassoIsActive' \in BOOLEAN
      /\ timer' \in BOOLEAN
      /\ polygon' \in 0..draws
      /\ anchor' \in 0..draws
      /\ selected' \in Origin \cup {None}
  BY <1>3 DEF TypeOK, Escape, deactivateLasso, clearSelection, results
<1> QED
  BY <1>1, <1>2, <1>4 DEF TypeOK, RulerType, Escape, requests, mouse

LEMMA MouseType ==
    ASSUME TypeOK, Mouse
    PROVE  TypeOK'
<1> USE DEF activation, editable, results, requests, mouse
<1>0. ruler \in RulerType /\ [NoMeasure EXCEPT !.active = TRUE] \in RulerType
  BY NoMeasureType DEF TypeOK, RulerType
<1>1. CASE handleRulerToggle
  <2>1. ruler' \in RulerType
    BY <1>0, <1>1, NoMeasureType DEF handleRulerToggle, StopRuler
  <2>2. lassoIsActive' \in BOOLEAN /\ timer' \in BOOLEAN
    BY <1>1 DEF TypeOK, handleRulerToggle, deactivateLasso
  <2> QED
    BY <1>1, <2>1, <2>2 DEF TypeOK, RulerType, handleRulerToggle
<1>2. ASSUME NEW onFeature \in BOOLEAN, Tap(onFeature)
      PROVE  TypeOK'
  <2>1. handleMeasureClick \in RulerType
    BY <1>0 DEF RulerType, handleMeasureClick
  <2>2. ruler' \in RulerType
    BY <1>0, <1>2, <2>1 DEF Tap
  <2>3. dragged' \in BOOLEAN /\ mouseDown' \in BOOLEAN /\ popup' \in BOOLEAN
    BY <1>2 DEF Tap, TypeOK
  <2> QED
    BY <1>2, <2>2, <2>3 DEF TypeOK, RulerType, Tap
<1>3. CASE MouseDown
  BY <1>3 DEF TypeOK, MouseDown
<1>4. CASE MouseMove
  <2>1. ruler' \in RulerType
    BY <1>0, <1>4 DEF RulerType, MouseMove, DragTo
  <2> QED
    BY <1>4, <2>1 DEF TypeOK, RulerType, MouseMove
<1>5. CASE MouseUp
  <2>1. ruler' \in RulerType
    BY <1>0, <1>5 DEF RulerType, MouseUp
  <2> QED
    BY <1>5, <2>1 DEF TypeOK, RulerType, MouseUp
<1>6. CASE handleClosePopup
  BY <1>6 DEF TypeOK, handleClosePopup
<1> QED
  BY <1>1, <1>2, <1>3, <1>4, <1>5, <1>6 DEF Mouse

\* The variables have their types in every state the tools can reach.
THEOREM TypeCorrect == Spec => []TypeOK
<1>1. TypeOK /\ [Next]_vars => TypeOK'
  <2> SUFFICES ASSUME TypeOK, [Next]_vars PROVE TypeOK'
    OBVIOUS
  <2>1. CASE UNCHANGED vars
    BY <2>1 DEF TypeOK, vars, activation, editable, results, requests, mouse
  <2>2. CASE Next
    BY <2>2, ChangeLayersType, LassoType, FilterType, EscapeType, MouseType
    DEF Next
  <2> QED
    BY <2>1, <2>2
<1> QED
  BY <1>1, InitType, PTL DEF Spec
-----------------------------------------------------------------------------
(* The two tools.                                                          *)

\* A step of the next-state relation or a stuttering one, by what it may
\* change: most of them leave the tools alone.
LEMMA StepCases ==
    ASSUME [Next]_vars
    PROVE  \/ \E list \in LayerLists : ChangeLayers(list)
           \/ ClickLassoButton
           \/ CloseDropdown
           \/ handleLassoComplete
           \/ ClearResults
           \/ Filter
           \/ Escape
           \/ handleRulerToggle
           \/ \E onFeature \in BOOLEAN : Tap(onFeature)
           \/ MouseMove
           \/ MouseUp
           \/ \E s \in Slice : handleLassoLayerSelect(s)
           \/ ActivationTimeout
           \/ MouseDown \/ handleClosePopup \/ UNCHANGED vars
BY DEF Next, Lasso, Mouse

ToolInv == OneTool /\ RulerOffMeasuresNothing

\* Neither tool can be on beside the other, and a ruler that is off keeps no
\* points: every handler that may switch one on switches the other one off.
LEMMA ToolStep ==
    ASSUME TypeOK, ToolInv, [Next]_vars
    PROVE  ToolInv'
<1> USE DEF ToolInv, OneTool, RulerOffMeasuresNothing
<1>0. ruler \in RulerType
  BY DEF TypeOK, RulerType
<1>1. CASE UNCHANGED <<ruler, lassoIsActive>>
  BY <1>1
<1>2. CASE ClickLassoButton
  BY <1>2 DEF ClickLassoButton, deactivateLasso
<1>3. CASE CloseDropdown
  BY <1>3, NoMeasureType DEF CloseDropdown, handleLassoActivate, StopRuler
<1>4. CASE Escape
  BY <1>4, NoMeasureType DEF Escape, StopRuler, deactivateLasso
<1>5. CASE handleRulerToggle
  <2>1. CASE ruler.active
    BY <1>5, <2>1, NoMeasureType DEF handleRulerToggle, StopRuler
  <2>2. CASE ~ruler.active
    <3>1. [NoMeasure EXCEPT !.active = TRUE].active
      BY DEF NoMeasure
    <3> QED
      BY <1>5, <2>2, <3>1 DEF handleRulerToggle, deactivateLasso
  <2> QED
    BY <2>1, <2>2
<1>6. ASSUME NEW onFeature \in BOOLEAN, Tap(onFeature)
      PROVE  ToolInv'
  <2>1. ruler.active => handleMeasureClick.active
    BY <1>0 DEF RulerType, handleMeasureClick
  <2>2. ruler' = ruler \/ (ruler.active /\ ruler' = handleMeasureClick)
    BY <1>6 DEF Tap
  <2>3. lassoIsActive' = lassoIsActive
    BY <1>6 DEF Tap, activation
  <2>4. CASE ruler' = ruler
    BY <2>3, <2>4
  <2>5. CASE ruler.active /\ ruler'.active
    BY <2>3, <2>5
  <2> QED
    BY <2>1, <2>2, <2>4, <2>5
<1>7. CASE MouseMove
  <2>1. ruler.active /\ ruler'.active
    BY <1>0, <1>7 DEF RulerType, MouseMove, DragTo
  <2> QED
    BY <1>7, <2>1 DEF MouseMove, activation
<1>8. CASE MouseUp
  <2>1. ruler' = ruler \/ (ruler.active /\ ruler'.active)
    BY <1>0, <1>8 DEF RulerType, MouseUp
  <2>2. lassoIsActive' = lassoIsActive
    BY <1>8 DEF MouseUp, activation
  <2>3. CASE ruler' = ruler
    BY <2>2, <2>3
  <2>4. CASE ruler.active /\ ruler'.active
    BY <2>2, <2>4
  <2> QED
    BY <2>1, <2>3, <2>4
<1>9. \/ ClickLassoButton \/ CloseDropdown \/ Escape \/ handleRulerToggle
      \/ \E onFeature \in BOOLEAN : Tap(onFeature)
      \/ MouseMove \/ MouseUp
      \/ UNCHANGED <<ruler, lassoIsActive>>
  BY StepCases
  DEF ChangeLayers, handleLassoComplete, ClearResults, Filter, FilterFinishes,
      handleLassoLayerSelect, ActivationTimeout, MouseDown, handleClosePopup,
      vars, activation
<1> QED
  BY <1>1, <1>2, <1>3, <1>4, <1>5, <1>6, <1>7, <1>8, <1>9

\* The ruler and the lasso are never on together.
THEOREM ToolsExclude == Spec => []OneTool
<1>1. Init => ToolInv
  BY NoMeasureType DEF Init, ToolInv, OneTool, RulerOffMeasuresNothing
<1>2. TypeOK /\ ToolInv /\ [Next]_vars => ToolInv'
  BY ToolStep
<1>3. ToolInv => OneTool
  BY DEF ToolInv
<1> QED
  BY <1>1, <1>2, <1>3, TypeCorrect, PTL DEF Spec

\* A ruler that is off has no points, whatever the mouse still does.
THEOREM RulerOffIsEmpty == Spec => []RulerOffMeasuresNothing
<1>1. Init => ToolInv
  BY NoMeasureType DEF Init, ToolInv, OneTool, RulerOffMeasuresNothing
<1>2. TypeOK /\ ToolInv /\ [Next]_vars => ToolInv'
  BY ToolStep
<1>3. ToolInv => RulerOffMeasuresNothing
  BY DEF ToolInv
<1> QED
  BY <1>1, <1>2, <1>3, TypeCorrect, PTL DEF Spec

-----------------------------------------------------------------------------
(* The lasso.                                                              *)

\* No step leaves an active lasso without a shape in view mode.
LEMMA DrawStep ==
    ASSUME TypeOK, CanAlwaysDraw, [Next]_vars
    PROVE  CanAlwaysDraw'
<1> USE DEF CanAlwaysDraw, Canvas
<1>1. ASSUME NEW list \in LayerLists, ChangeLayers(list)
      PROVE  CanAlwaysDraw'
  BY <1>1 DEF ChangeLayers, CanvasOf, loaded, editable, results
<1>2. CASE ClickLassoButton
  BY <1>2 DEF ClickLassoButton, deactivateLasso, results
<1>3. CASE CloseDropdown
  BY <1>3 DEF CloseDropdown, handleLassoActivate, results, editable
<1>4. CASE handleLassoComplete
  <2>1. polygon' # 0
    BY <1>4 DEF TypeOK, handleLassoComplete
  <2> QED
    BY <2>1
<1>5. CASE ClearResults
  BY <1>5 DEF ClearResults, DrawAgain, activation
<1>6. CASE Escape
  BY <1>6 DEF Escape, deactivateLasso, results
<1>7. CASE handleRulerToggle
  BY <1>7 DEF handleRulerToggle, deactivateLasso, results
<1>8. CASE ActivationTimeout
  BY <1>8 DEF ActivationTimeout
<1>9. CASE UNCHANGED <<layerList, lassoIsActive, polygon, mode>>
  BY <1>9 DEF CanvasOf, loaded
<1>10. \/ \E list \in LayerLists : ChangeLayers(list)
       \/ ClickLassoButton \/ CloseDropdown \/ handleLassoComplete
       \/ ClearResults \/ Escape \/ handleRulerToggle \/ ActivationTimeout
       \/ UNCHANGED <<layerList, lassoIsActive, polygon, mode>>
  BY StepCases
  DEF Filter, FilterFinishes, Tap, MouseMove, MouseUp, handleLassoLayerSelect,
      MouseDown, handleClosePopup, vars, activation, editable, results
<1> QED
  BY <1>1, <1>2, <1>3, <1>4, <1>5, <1>6, <1>7, <1>8, <1>9, <1>10

\* A visible map in lasso mode without a shape always lets the user draw one.
THEOREM LassoCanDraw == Spec => []CanAlwaysDraw
<1>1. Init => CanAlwaysDraw
  BY DEF Init, CanAlwaysDraw
<1>2. TypeOK /\ CanAlwaysDraw /\ [Next]_vars => CanAlwaysDraw'
  BY DrawStep
<1> QED
  BY <1>1, <1>2, TypeCorrect, PTL DEF Spec

\* No step leaves selectable layers without one that is selected.
LEMMA SelectStep ==
    ASSUME TypeOK, SomeLayerSelected, [Next]_vars
    PROVE  SomeLayerSelected'
<1> USE DEF SomeLayerSelected, available
<1>1. ASSUME NEW list \in LayerLists, ChangeLayers(list)
      PROVE  SomeLayerSelected'
  <2>1. list.available # <<>> =>
          AutoSelect(selectedLayer, list.available) \in Slice
    BY AutoSelectType DEF TypeOK
  <2> QED
    BY <1>1, <2>1, ToolsAssumption DEF ChangeLayers
<1>2. ASSUME NEW s \in Slice, handleLassoLayerSelect(s)
      PROVE  SomeLayerSelected'
  BY <1>2, ToolsAssumption DEF handleLassoLayerSelect
<1>3. CASE Escape
  <2>1. layerList.available # <<>> =>
          AutoSelect(None, layerList.available) \in Slice
    BY AutoSelectType DEF TypeOK
  <2> QED
    BY <1>3, <2>1, ToolsAssumption DEF Escape, resetLayer
<1>4. CASE UNCHANGED <<layerList, selectedLayer>>
  BY <1>4
<1>5. \/ \E list \in LayerLists : ChangeLayers(list)
      \/ \E s \in Slice : handleLassoLayerSelect(s)
      \/ Escape
      \/ UNCHANGED <<layerList, selectedLayer>>
  BY StepCases
  DEF ClickLassoButton, CloseDropdown, handleLassoComplete, ClearResults,
      Filter, FilterFinishes, handleRulerToggle, Tap, MouseMove, MouseUp,
      ActivationTimeout, MouseDown, handleClosePopup, vars, activation
<1> QED
  BY <1>1, <1>2, <1>3, <1>4, <1>5

\* While layers can be lassoed, one is selected, through reloads and resets.
THEOREM LayerIsSelected == Spec => []SomeLayerSelected
<1>1. Init => SomeLayerSelected
  <2> SUFFICES ASSUME Init PROVE SomeLayerSelected
    OBVIOUS
  <2>1. available # <<>> => AutoSelect(None, available) \in Slice
    BY AutoSelectType DEF Init, available
  <2> QED
    BY <2>1, ToolsAssumption DEF Init, SomeLayerSelected
<1>2. TypeOK /\ SomeLayerSelected /\ [Next]_vars => SomeLayerSelected'
  BY SelectStep
<1> QED
  BY <1>1, <1>2, TypeCorrect, PTL DEF Spec

\* A filter that a newer shape has overtaken ends without showing anything,
\* whether the newer shape is still filtered, has been answered, or was
\* answered at once: only the filter of the latest request id shows a result.
THEOREM OvertakenFilterIsSilent == Spec => NewestFilterWins
<1> DEFINE Silent ==
      \A r \in filtering :
         r \notin filtering' /\ r.id < requestId => UNCHANGED results
<1>1. TypeOK /\ [Next]_vars => Silent
  <2> SUFFICES ASSUME TypeOK, [Next]_vars,
                      NEW r \in filtering, r \notin filtering', r.id < requestId
               PROVE  UNCHANGED results
    OBVIOUS
  <2>1. Filter
    BY StepCases
    DEF ChangeLayers, ClickLassoButton, CloseDropdown, handleLassoComplete,
        ClearResults, Escape, handleRulerToggle, Tap, MouseMove, MouseUp,
        handleLassoLayerSelect, ActivationTimeout, MouseDown,
        handleClosePopup, vars, requests
  <2>2. PICK f \in filtering, found \in BOOLEAN : FilterFinishes(f, found)
    BY <2>1 DEF Filter
  <2>3. f = r
    BY <2>2 DEF FilterFinishes
  <2>4. r.id \in 1..requestId /\ requestId \in Nat
    BY DEF TypeOK
  <2>5. f.id # requestId
    BY <2>3, <2>4
  <2> QED
    BY <2>2, <2>5 DEF FilterFinishes, results
<1>2. TypeOK /\ [Next]_vars => [Silent]_vars
  BY <1>1
<1> QED
  BY <1>2, TypeCorrect, PTL DEF Spec, NewestFilterWins

-----------------------------------------------------------------------------
(* Shapes and their results.                                               *)

\* The shape on the map is the latest one, and a filter of the latest shape
\* is the latest request.
ShapeInv ==
    /\ polygon \in {0, draws}
    /\ \A r \in filtering : r.draw = draws => r.id = requestId

\* Most steps leave the shape, its result and its filters alone, or clear them.
LEMMA ShapeCases ==
    ASSUME [Next]_vars
    PROVE  \/ handleLassoComplete
           \/ \E r \in filtering, found \in BOOLEAN : FilterFinishes(r, found)
           \/ UNCHANGED <<draws, requests>> /\ (UNCHANGED results \/ clearSelection)
BY StepCases
DEF ChangeLayers, ClickLassoButton, CloseDropdown, ClearResults, Filter, Escape,
    handleRulerToggle, Tap, MouseMove, MouseUp, handleLassoLayerSelect,
    ActivationTimeout, MouseDown, handleClosePopup, vars

LEMMA ShapeStep ==
    ASSUME TypeOK, ShapeInv, [Next]_vars
    PROVE  ShapeInv'
<1> USE DEF ShapeInv
<1>0. draws \in Nat /\ \A r \in filtering : r.draw \in 1..draws
  BY DEF TypeOK
<1>1. CASE handleLassoComplete
  <2>1. polygon' = draws'
    BY <1>1 DEF handleLassoComplete
  <2>2. ASSUME NEW r \in filtering', r.draw = draws'
        PROVE  r.id = requestId'
    <3>1. r \notin filtering
      BY <1>0, <1>1, <2>2 DEF handleLassoComplete
    <3> QED
      BY <1>1, <2>2, <3>1 DEF handleLassoComplete, requests
  <2> QED
    BY <2>1, <2>2
<1>2. ASSUME NEW r \in filtering, NEW found \in BOOLEAN, FilterFinishes(r, found)
      PROVE  ShapeInv'
  BY <1>2 DEF FilterFinishes
<1>3. CASE UNCHANGED <<draws, requests>> /\ (UNCHANGED results \/ clearSelection)
  BY <1>3 DEF requests, results, clearSelection
<1> QED
  BY <1>1, <1>2, <1>3, ShapeCases

LEMMA ShapeInvariant == Spec => []ShapeInv
<1>1. Init => ShapeInv
  BY DEF Init, ShapeInv
<1>2. TypeOK /\ ShapeInv /\ [Next]_vars => ShapeInv'
  BY ShapeStep
<1> QED
  BY <1>1, <1>2, TypeCorrect, PTL DEF Spec

\* The filter of the shape on the map ends only by showing what it found, and
\* while it is under way no other one can take its place.
ShapeKeepsItsFilter ==
    [][\A r \in filtering :
         /\ polygon = r.draw => r.id = requestId
         /\ polygon = r.draw /\ r \notin filtering' => anchor' = r.draw]_vars

\* A shape on the map cannot lose its answer: what ShapeAnswered needs besides
\* the fairness of the filters.
THEOREM ShapeCannotLoseItsFilter == Spec => ShapeKeepsItsFilter
<1> DEFINE Keeps ==
      \A r \in filtering :
         /\ polygon = r.draw => r.id = requestId
         /\ polygon = r.draw /\ r \notin filtering' => anchor' = r.draw
<1>1. ASSUME TypeOK, ShapeInv, [Next]_vars PROVE Keeps
  <2> SUFFICES ASSUME NEW r \in filtering, polygon = r.draw
               PROVE  /\ r.id = requestId
                      /\ r \notin filtering' => anchor' = r.draw
    OBVIOUS
  <2>1. r.id = requestId
    BY <1>1 DEF TypeOK, ShapeInv
  <2>2. ASSUME r \notin filtering' PROVE anchor' = r.draw
    <3>1. PICK f \in filtering, found \in BOOLEAN : FilterFinishes(f, found)
      BY <1>1, <2>2, ShapeCases DEF handleLassoComplete, requests
    <3>2. f = r
      BY <2>2, <3>1 DEF FilterFinishes
    <3> QED
      BY <2>1, <3>1, <3>2 DEF FilterFinishes, ShowResult
  <2> QED
    BY <2>1, <2>2
<1> QED
  BY <1>1, TypeCorrect, ShapeInvariant, PTL DEF Spec, ShapeKeepsItsFilter

\* The selected layer is on the map whenever a shape is finished.
DrawsOverLayer == handleLassoComplete => LayerOnMap

\* Every shape so far has had a request of its own.
ResultInv ==
    /\ polygon \in {0, draws}
    /\ requestId = draws
    /\ \A r \in filtering : r.id = r.draw
    /\ ResultMatchesShape

LEMMA ResultStep ==
    ASSUME TypeOK, ResultInv, [Next]_vars, DrawsOverLayer
    PROVE  ResultInv'
<1> USE DEF ResultInv, ResultMatchesShape
<1>0. draws \in Nat /\ None \notin Slice
  BY ToolsAssumption DEF TypeOK
<1>1. CASE handleLassoComplete
  <2>1. /\ draws' = draws + 1 /\ polygon' = draws + 1 /\ requestId' = draws + 1
        /\ LayerOnMap
    BY <1>1 DEF handleLassoComplete, DrawsOverLayer
  <2>2. CASE selectedLayer \in Large
    <3> DEFINE q == [id |-> requestId + 1, draw |-> draws + 1, layer |-> selectedLayer]
    <3>1. filtering' = filtering \cup {q}
      BY <1>1, <2>1, <2>2 DEF handleLassoComplete
    <3>2. q.id = q.draw /\ q.draw = polygon'
      BY <2>1
    <3> HIDE DEF q
    <3> QED
      BY <2>1, <3>1, <3>2
  <2>3. CASE selectedLayer \notin Large
    <3>1. PICK found \in BOOLEAN : ShowResult(draws + 1, selectedLayer, found)
      BY <1>1, <2>1, <2>3 DEF handleLassoComplete
    <3>2. filtering' = filtering
      BY <1>1, <2>1, <2>3 DEF handleLassoComplete
    <3> QED
      BY <2>1, <3>1, <3>2 DEF ShowResult
  <2> QED
    BY <2>2, <2>3
<1>2. ASSUME NEW r \in filtering, NEW found \in BOOLEAN, FilterFinishes(r, found)
      PROVE  ResultInv'
  <2>1. /\ UNCHANGED <<draws, polygon, requestId>>
        /\ filtering' = filtering \ {r}
    BY <1>2 DEF FilterFinishes
  <2>2. CASE r.id = requestId
    BY <1>2, <2>1, <2>2 DEF FilterFinishes, ShowResult
  <2>3. CASE r.id # requestId
    BY <1>0, <1>2, <2>1, <2>3 DEF FilterFinishes
  <2> QED
    BY <2>2, <2>3
<1>3. CASE UNCHANGED <<draws, requests>> /\ (UNCHANGED results \/ clearSelection)
  BY <1>3 DEF requests, results, clearSelection
<1> QED
  BY <1>1, <1>2, <1>3, ShapeCases

\* The features next to a shape are those of that shape, in every behaviour in
\* which shapes are drawn over a layer that is on the map; for the others
\* handleLassoComplete keeps the features of the shape before.
THEOREM ResultsMatchTheirShape ==
    Spec /\ [][DrawsOverLayer]_vars => []ResultMatchesShape
<1>1. Init => ResultInv
  BY DEF Init, ResultInv, ResultMatchesShape
<1>2. TypeOK /\ ResultInv /\ [Next /\ DrawsOverLayer]_vars => ResultInv'
  <2> SUFFICES ASSUME TypeOK, ResultInv, [Next /\ DrawsOverLayer]_vars
               PROVE  ResultInv'
    OBVIOUS
  <2>1. CASE DrawsOverLayer /\ Next
    BY <2>1, ResultStep
  <2>2. CASE UNCHANGED vars
    BY <2>2 DEF vars, results, requests, ResultInv, ResultMatchesShape
  <2> QED
    BY <2>1, <2>2
<1>3. ResultInv => ResultMatchesShape
  BY DEF ResultInv
<1> QED
  BY <1>1, <1>2, <1>3, TypeCorrect, PTL DEF Spec
=============================================================================
