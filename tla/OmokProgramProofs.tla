-------------------------- MODULE OmokProgramProofs --------------------------
(***************************************************************************)
(* Proofs about OmokProgram, for any mouse positions, any stones of the     *)
(* network, any missing files and any bound on presses and error boxes.     *)
(***************************************************************************)
EXTENDS OmokProgram, FiniteSetTheorems, TLAPS

-----------------------------------------------------------------------------
(* The layout of the window *)

\* No position lies in two of the 361 cells (the rectangles OmokScene::Update
\* tests the mouse against).
THEOREM CellsAreDisjoint ==
  \A p \in Int \X Int, c, d \in (0..18) \X (0..18) :
    PtInRect(CellRect(c[1], c[2]), p) /\ PtInRect(CellRect(d[1], d[2]), p) => c = d
<1> SUFFICES ASSUME NEW p \in Int \X Int,
                    NEW c \in (0..18) \X (0..18), NEW d \in (0..18) \X (0..18),
                    PtInRect(CellRect(c[1], c[2]), p), PtInRect(CellRect(d[1], d[2]), p)
             PROVE  c = d
  OBVIOUS
<1>1. /\ 466 + c[1] * 25 <= p[1] /\ p[1] < 466 + c[1] * 25 + 25
      /\ 102 + c[2] * 25 <= p[2] /\ p[2] < 102 + c[2] * 25 + 25
      /\ 466 + d[1] * 25 <= p[1] /\ p[1] < 466 + d[1] * 25 + 25
      /\ 102 + d[2] * 25 <= p[2] /\ p[2] < 102 + d[2] * 25 + 25
  BY DEF PtInRect, CellRect, RectMake
<1>2. c[1] = d[1] /\ c[2] = d[2]
  BY <1>1
<1> QED
  BY <1>2

\* At most one cell answers to a click, wherever the mouse is.
LEMMA OneCellHit ==
  ASSUME g_ptMouse \in Points
  PROVE  Cardinality(CellsHit) \in {0, 1}
<1>1. g_ptMouse \in Int \X Int
  BY PointsAssumption
<1>2. \A c, d \in CellsHit : c = d
  BY <1>1, CellsAreDisjoint DEF CellsHit
<1>3. CASE CellsHit = {}
  BY <1>3, FS_EmptySet
<1>4. CASE CellsHit # {}
  <2>1. PICK c \in CellsHit : TRUE
    BY <1>4
  <2>2. CellsHit = {c}
    BY <2>1, <1>2
  <2> QED
    BY <2>2, FS_Singleton
<1> QED
  BY <1>3, <1>4

-----------------------------------------------------------------------------
(* A press of the button causes at most one request or change of scene *)

\* A press that KeyManager has not seen yet may still cause something.
Unseen == IF lbutton /\ ~m_keyDown THEN 1 ELSE 0

PressInv ==
  /\ g_ptMouse \in Points
  /\ lbutton \in BOOLEAN /\ m_keyDown \in BOOLEAN
  /\ acts \in Nat /\ presses \in Nat
  /\ acts + Unseen <= presses

\* A click that KeyManager reports uses up the press it has not seen.
LEMMA ClickUsesPress ==
  ASSUME PressInv, NEW clicked \in BOOLEAN, GetKeyDown(clicked),
         NEW n \in {0, 1}, acts' = IF clicked THEN acts + n ELSE acts,
         UNCHANGED inputVars
  PROVE  PressInv'
<1>1. /\ g_ptMouse' = g_ptMouse /\ lbutton' = lbutton /\ presses' = presses
      /\ m_keyDown' = lbutton
  BY DEF inputVars, GetKeyDown
<1>2. Unseen' = 0
  BY <1>1 DEF Unseen
<1>3. CASE lbutton /\ ~m_keyDown
  <2>1. clicked = TRUE
    BY <1>3 DEF GetKeyDown
  <2>2. Unseen = 1 /\ acts' = acts + n
    BY <1>3, <2>1 DEF Unseen
  <2> QED
    BY <1>1, <1>2, <2>2 DEF PressInv
<1>4. CASE ~(lbutton /\ ~m_keyDown)
  <2>1. clicked = FALSE
    BY <1>4 DEF GetKeyDown
  <2>2. Unseen = 0 /\ acts' = acts
    BY <1>4, <2>1 DEF Unseen
  <2> QED
    BY <1>1, <1>2, <2>2 DEF PressInv
<1> QED
  BY <1>3, <1>4

\* Play and Leave as seen by the count of what the player caused.
LEMMA SceneUpdatePress ==
  ASSUME PressInv, SceneUpdate
  PROVE  PressInv'
<1>1. UNCHANGED inputVars
  BY DEF SceneUpdate
<1>2. CASE current = "None" /\ NoneSceneUpdate
  BY <1>1, <1>2 DEF NoneSceneUpdate, sceneVars, PressInv, Unseen, inputVars
<1>3. CASE ~myTurn /\ Play(FALSE) /\ UNCHANGED m_keyDown
  BY <1>1, <1>3 DEF Play, PressInv, Unseen, inputVars
<1>4. ASSUME NEW clicked \in BOOLEAN, GetKeyDown(clicked),
             IF clicked /\ PtInRect(rcGomokuExit, g_ptMouse) THEN Leave ELSE Play(clicked)
      PROVE  PressInv'
  <2>1. CASE clicked /\ PtInRect(rcGomokuExit, g_ptMouse)
    <3>1. acts' = acts + 1
      BY <1>4, <2>1 DEF Leave
    <3> QED
      BY <1>1, <1>4, <2>1, <3>1, ClickUsesPress
  <2>2. CASE ~(clicked /\ PtInRect(rcGomokuExit, g_ptMouse))
    <3>1. acts' = IF clicked THEN acts + Cardinality(CellsHit) ELSE acts
      BY <1>4, <2>2 DEF Play
    <3>2. Cardinality(CellsHit) \in {0, 1}
      BY OneCellHit DEF PressInv
    <3> QED
      BY <1>1, <1>4, <3>1, <3>2, ClickUsesPress
  <2> QED
    BY <2>1, <2>2
<1> QED
  BY <1>2, <1>3, <1>4 DEF SceneUpdate, OmokSceneUpdate

\* The question of the start screen's icons.
LEMMA IconUpdatePress ==
  ASSUME PressInv, IconUpdate
  PROVE  PressInv'
<1>1. UNCHANGED inputVars
  BY DEF IconUpdate
<1>2. PICK clicked \in BOOLEAN :
        /\ GetKeyDown(clicked)
        /\ \/ clicked /\ UNCHANGED acts
           \/ clicked /\ acts' = acts + (IF current = "Gomoku" THEN 0 ELSE 1)
           \/ UNCHANGED sceneVars
  BY DEF IconUpdate
<1>3. \E n \in {0, 1} : acts' = IF clicked THEN acts + n ELSE acts
  <2>1. acts \in Nat
    BY DEF PressInv
  <2>2. CASE clicked /\ acts' = acts + (IF current = "Gomoku" THEN 0 ELSE 1)
    BY <2>2
  <2>3. CASE acts' = acts
    <3>1. acts' = IF clicked THEN acts + 0 ELSE acts
      BY <2>1, <2>3
    <3> QED
      BY <3>1
  <2> QED
    BY <1>2, <2>2, <2>3 DEF sceneVars
<1> QED
  BY <1>1, <1>2, <1>3, ClickUsesPress

\* Whatever the order of presses, polls of a frame and changes of scene, a
\* press causes one request or one change of scene at most.
THEOREM PressIsOneAction == Spec => []OnePressOneAction
<1>1. Init => PressInv
  <2>1. Init => ~lbutton
    BY DEF Init
  <2>2. ~lbutton => Unseen = 0
    BY DEF Unseen
  <2>3. Init => lbutton \in BOOLEAN /\ m_keyDown \in BOOLEAN
    BY DEF Init
  <2> QED
    BY <2>1, <2>2, <2>3 DEF Init, PressInv
<1>2. PressInv /\ [Next]_vars => PressInv'
  <2> SUFFICES ASSUME PressInv, [Next]_vars
               PROVE  PressInv'
    OBVIOUS
  <2>1. CASE ButtonDown
    BY <2>1 DEF ButtonDown, PressInv, Unseen, sceneVars
  <2>2. CASE ButtonUp
    <3>1. Unseen \in {0, 1} /\ Unseen' = 0
      BY <2>2 DEF ButtonUp, Unseen
    <3>2. lbutton' \in BOOLEAN
      BY <2>2 DEF ButtonUp
    <3> QED
      BY <2>2, <3>1, <3>2 DEF ButtonUp, PressInv, sceneVars
  <2>3. CASE MouseMove
    BY <2>3 DEF MouseMove, PressInv, Unseen, sceneVars
  <2>4. CASE Start
    BY <2>4 DEF Start, PressInv, Unseen, inputVars
  <2>5. CASE SceneUpdate
    BY <2>5, SceneUpdatePress
  <2>6. CASE IconUpdate
    BY <2>6, IconUpdatePress
  <2>7. CASE Paint
    BY <2>7 DEF Paint, PressInv, Unseen, inputVars
  <2>8. CASE NoWindow \/ CloseBox \/ UNCHANGED vars
    BY <2>8 DEF NoWindow, CloseBox, vars, PressInv, Unseen, sceneVars, inputVars
  <2>9. CASE Quit
    BY <2>9 DEF Quit, PressInv, Unseen, inputVars
  <2> QED
    BY <2>1, <2>2, <2>3, <2>4, <2>5, <2>6, <2>7, <2>8, <2>9 DEF Next
<1>3. PressInv => OnePressOneAction
  BY DEF PressInv, Unseen, OnePressOneAction
<1> QED
  BY <1>1, <1>2, <1>3, PTL DEF Spec

-----------------------------------------------------------------------------
(* The client object *)

\* While the program runs, the object is there until the game is left, and a
\* scene that is shown has it.
ClientInv ==
  /\ visits \in Nat
  /\ phase = "start" => client = "none" /\ current = "NULL"
  /\ Running =>
       /\ current \in {"None", "Gomoku"}
       /\ client = "alive" \/ (client = "freed" /\ left /\ visits >= 1)
       /\ current = "Gomoku" => client = "alive" /\ visits >= 1

\* What a change of scene does to it (SceneManager::ChangeScene).
LEMMA ChangeSceneClient ==
  ASSUME ClientInv, Running, NEW name, NEW next \in {"loop", "polled"},
         ChangeScene(name, next)
  PROVE  ClientInv' /\ FirstVisitIsSafe'
<1> USE DEF ClientInv, FirstVisitIsSafe, Running
<1>1. CASE name \notin SceneList \ {current} /\ phase' = next
           /\ UNCHANGED <<current, client, visits, left>>
  BY <1>1
<1>2. CASE name = "Gomoku" /\ current # "Gomoku" /\ OmokSceneInit(next)
  <2>1. UNCHANGED <<client, left>> /\ visits' = visits + 1 /\ ClientInit(next)
    BY <1>2 DEF OmokSceneInit
  <2>2. CASE client = "freed" /\ phase' = "wild"
    BY <2>1, <2>2
  <2>3. CASE client = "alive" /\ phase' \in {"loop", next}
             /\ current' \in {current, "Gomoku"}
    BY <2>1, <2>3
  <2> QED
    BY <2>1, <2>2, <2>3 DEF ClientInit, ApplySockopt, Connect, ErrQuit
<1>3. CASE /\ name = "None" /\ current' = name /\ phase' = next
           /\ UNCHANGED visits
           /\ IF current = "Gomoku" THEN OmokSceneRelease
                                    ELSE UNCHANGED <<image, gdi, client, left>>
  BY <1>3 DEF OmokSceneRelease
<1> QED
  BY <1>1, <1>2, <1>3 DEF ChangeScene, SceneList

\* The object that leaving the game deletes is used again only by a player
\* who opens another game (OmokScene::Release, OmokScene::Init).
THEOREM FirstVisitSafe == Spec => []FirstVisitIsSafe
<1> USE DEF ClientInv, FirstVisitIsSafe, Running
<1>1. Init => ClientInv /\ FirstVisitIsSafe
  BY DEF Init
<1>2. ClientInv /\ FirstVisitIsSafe /\ [Next]_vars => ClientInv' /\ FirstVisitIsSafe'
  <2> SUFFICES ASSUME ClientInv, FirstVisitIsSafe, [Next]_vars
               PROVE  ClientInv' /\ FirstVisitIsSafe'
    OBVIOUS
  <2>1. CASE ButtonDown \/ ButtonUp \/ MouseMove
    BY <2>1 DEF ButtonDown, ButtonUp, MouseMove, sceneVars
  <2>2. CASE Start
    <3>1. phase' = "shown" /\ current' = "None" /\ client' = "alive" /\ UNCHANGED visits
      BY <2>2 DEF Start, NewOmokScene
    <3> QED
      BY <3>1
  <2>7. CASE NoWindow
    <3>1. phase' = "exited" /\ UNCHANGED visits
      BY <2>7 DEF NoWindow, sceneVars
    <3> QED
      BY <3>1
  <2>3. CASE SceneUpdate
    <3>1. CASE current = "None" /\ NoneSceneUpdate
      BY <3>1, <2>3 DEF SceneUpdate, NoneSceneUpdate, sceneVars
    <3>2. ASSUME NEW clicked \in BOOLEAN, current = "Gomoku", Play(clicked)
          PROVE  ClientInv' /\ FirstVisitIsSafe'
      BY <2>3, <3>2 DEF SceneUpdate, Play, ClientUpdate
    <3>3. CASE Leave
      BY <2>3, <3>3, ChangeSceneClient DEF SceneUpdate, Leave
    <3> QED
      BY <2>3, <3>1, <3>2, <3>3 DEF SceneUpdate, OmokSceneUpdate
  <2>4. CASE IconUpdate
    <3>1. ASSUME NEW name, ChangeScene(name, "loop")
          PROVE  ClientInv' /\ FirstVisitIsSafe'
      BY <2>4, <3>1, ChangeSceneClient DEF IconUpdate
    <3>2. CASE phase' = "loop" /\ UNCHANGED sceneVars
      BY <2>4, <3>2 DEF IconUpdate, sceneVars
    <3> QED
      BY <2>4, <3>1, <3>2 DEF IconUpdate
  <2>5. CASE Paint
    BY <2>5 DEF Paint
  <2>6. CASE CloseBox \/ Quit \/ UNCHANGED vars
    BY <2>6 DEF CloseBox, Quit, vars, sceneVars
  <2> QED
    BY <2>1, <2>2, <2>3, <2>4, <2>5, <2>6, <2>7 DEF Next
<1> QED
  BY <1>1, <1>2, PTL DEF Spec

-----------------------------------------------------------------------------
(* The images *)

\* With all files there, the images of the program are there from the start,
\* and those of the game as long as it is the scene.
ImageInv ==
  /\ phase = "start" => current = "NULL"
  /\ image \in [ImageNames -> ImageStates]
  /\ gomoku \in [Played -> {"EMPTY", "BLACK", "WHITE"}]
  /\ missing = {} /\ Running =>
       /\ \A n \in ProgramImages : image[n] = "alive"
       /\ current = "Gomoku" => \A n \in SceneImages : image[n] = "alive"
       /\ current \in {"None", "Gomoku"}

\* The images a frame draws are those of the program, and in the game those
\* of the scene too (MainGame22::Render, OmokScene::Render).
LEMMA ShowsKnownImages ==
  Shows \subseteq ProgramImages \cup (IF current = "Gomoku" THEN SceneImages ELSE {})
<1>1. SceneShows \subseteq SceneImages
  BY DEF SceneShows, StoneImage, SceneImages
<1> QED
  BY <1>1 DEF Shows, CurrentShows

\* What a change of scene does to the images.
LEMMA ChangeSceneImages ==
  ASSUME ImageInv, Running, UNCHANGED missing,
         NEW name, NEW next \in {"loop", "polled"}, ChangeScene(name, next)
  PROVE  ImageInv'
<1> USE DEF ImageInv, Running
<1>1. CASE name \notin SceneList \ {current} /\ phase' = next
           /\ UNCHANGED <<current, image, gomoku>>
  BY <1>1
<1>2. CASE name = "Gomoku" /\ OmokSceneInit(next)
  <2>1. image' = [n \in ImageNames |->
                    IF n \in SceneImages THEN InitImage(n, missing) ELSE image[n]]
    BY <1>2 DEF OmokSceneInit
  <2>2. image' \in [ImageNames -> ImageStates]
    BY <2>1 DEF InitImage, ImageStates
  <2>3. gomoku' \in [Played -> {"EMPTY", "BLACK", "WHITE"}]
    BY <1>2 DEF OmokSceneInit
  <2>4. ClientInit(next)
    BY <1>2 DEF OmokSceneInit
  <2>5. phase' # "start" /\ current' \in {current, "Gomoku"}
    BY <2>4 DEF ClientInit, ApplySockopt, Connect, ErrQuit
  <2>6. ASSUME missing = {}
        PROVE  \A n \in ProgramImages \cup SceneImages : image'[n] = "alive"
    BY <2>1, <2>6 DEF ImageNames, SceneImages, ProgramImages, InitImage
  <2> QED
    BY <2>2, <2>3, <2>5, <2>6
<1>3. CASE /\ name = "None" /\ current' = name /\ phase' = next
           /\ UNCHANGED gomoku
           /\ IF current = "Gomoku" THEN OmokSceneRelease ELSE UNCHANGED image
  <2>1. image' \in [ImageNames -> ImageStates]
    BY <1>3 DEF OmokSceneRelease, ImageStates
  <2>2. \A n \in ProgramImages : image'[n] = image[n]
    BY <1>3 DEF OmokSceneRelease, ImageNames, ProgramImages, SceneImages
  <2> QED
    BY <1>3, <2>1, <2>2
<1> QED
  BY <1>1, <1>2, <1>3 DEF ChangeScene, SceneList

\* With all files there, no frame follows a NULL image pointer, whatever the
\* order of frames, changes of scene and error boxes (MainGame22::Render).
THEOREM NoCrashWithFiles == Spec => []CrashNeedsMissingFile
<1> USE DEF ImageInv, CrashNeedsMissingFile, Running
<1>1. Init => ImageInv /\ CrashNeedsMissingFile
  BY DEF Init, ImageStates
<1>2. ImageInv /\ CrashNeedsMissingFile /\ [Next]_vars
        => ImageInv' /\ CrashNeedsMissingFile'
  <2> SUFFICES ASSUME ImageInv, CrashNeedsMissingFile, [Next]_vars
               PROVE  ImageInv' /\ CrashNeedsMissingFile'
    OBVIOUS
  <2>1. CASE ButtonDown \/ ButtonUp \/ MouseMove
    BY <2>1 DEF ButtonDown, ButtonUp, MouseMove, sceneVars
  <2>2. CASE Start
    <3>1. image' = [n \in ImageNames |->
                      IF n \in ProgramImages THEN InitImage(n, missing) ELSE "null"]
      BY <2>2 DEF Start
    <3>2. image' \in [ImageNames -> ImageStates]
      BY <3>1 DEF InitImage, ImageStates
    <3>3. missing = {} => \A n \in ProgramImages : image'[n] = "alive"
      BY <3>1 DEF InitImage, ImageNames
    <3>4. phase' = "shown" /\ current' = "None" /\ UNCHANGED <<missing, gomoku>>
      BY <2>2 DEF Start
    <3> QED
      BY <3>2, <3>3, <3>4
  <2>3. CASE SceneUpdate
    <3>1. CASE current = "None" /\ NoneSceneUpdate
      BY <3>1, <2>3 DEF SceneUpdate, NoneSceneUpdate, sceneVars
    <3>2. ASSUME NEW clicked \in BOOLEAN, current = "Gomoku", Play(clicked)
          PROVE  ImageInv' /\ CrashNeedsMissingFile'
      <4>1. gomoku' \in [Played -> {"EMPTY", "BLACK", "WHITE"}]
        BY <3>2 DEF Play, ClientUpdate
      <4>2. phase = "loop" /\ phase' \in {"polled", "wild"}
            /\ UNCHANGED <<current, image, missing>>
        BY <2>3, <3>2 DEF SceneUpdate, Play, ClientUpdate
      <4> QED
        BY <4>1, <4>2
    <3>3. CASE Leave
      <4>1. ImageInv'
        BY <2>3, <3>3, ChangeSceneImages DEF SceneUpdate, Leave
      <4>2. phase' = "polled"
        BY <3>3 DEF Leave, ChangeScene
      <4> QED
        BY <4>1, <4>2
    <3> QED
      BY <2>3, <3>1, <3>2, <3>3 DEF SceneUpdate, OmokSceneUpdate
  <2>4. CASE IconUpdate
    <3>1. ASSUME NEW name, ChangeScene(name, "loop")
          PROVE  ImageInv' /\ CrashNeedsMissingFile'
      <4>1. ImageInv'
        BY <2>4, <3>1, ChangeSceneImages DEF IconUpdate
      <4>2. phase' # "crashed"
        BY <3>1 DEF ChangeScene, OmokSceneInit, ClientInit, ApplySockopt, Connect, ErrQuit
      <4> QED
        BY <4>1, <4>2
    <3>2. CASE phase' = "loop" /\ UNCHANGED sceneVars
      BY <2>4, <3>2 DEF IconUpdate, sceneVars
    <3> QED
      BY <2>4, <3>1, <3>2 DEF IconUpdate
  <2>5. CASE Paint
    <3>1. UNCHANGED <<current, image, gomoku, missing>> /\ phase \in {"shown", "loop"}
      BY <2>5 DEF Paint
    <3>2. missing = {} => CanRender(image, Shows)
      BY <3>1, ShowsKnownImages DEF CanRender
    <3>3. phase' = "loop" \/ (phase' = "crashed" /\ missing # {})
      BY <2>5, <3>2 DEF Paint
    <3> QED
      BY <3>1, <3>3
  <2>6. CASE Quit
    <3>1. image' \in [ImageNames -> ImageStates]
      BY <2>6 DEF Quit, ImageStates
    <3> QED
      BY <2>6, <3>1 DEF Quit
  <2>7. CASE NoWindow \/ CloseBox \/ UNCHANGED vars
    BY <2>7 DEF NoWindow, CloseBox, vars, sceneVars
  <2> QED
    BY <2>1, <2>2, <2>3, <2>4, <2>5, <2>6, <2>7 DEF Next
<1> QED
  BY <1>1, <1>2, PTL DEF Spec

-----------------------------------------------------------------------------
(* The Windows objects *)

Held == {n \in ImageNames : image[n] = "alive"}

\* No font is left selected, every live image still has its DC, and the
\* objects are within the bound.
ObjectsInv ==
  /\ ProgramTypeOK
  /\ ~gdi.selected
  /\ Cardinality(Held) <= gdi.dcs
  /\ GdiBounded
  /\ phase = "start" => gdi = NoGdi

\* There are eight images, four of them in the game.
LEMMA ImagesFinite ==
  /\ IsFiniteSet(ImageNames)
  /\ IsFiniteSet(SceneImages) /\ Cardinality(SceneImages) = 4
  /\ IsFiniteSet(ProgramImages \ {"back"})
  /\ Cardinality(ProgramImages \ {"back"}) = 3
<1>1. \A a, b, c : a # b /\ a # c /\ b # c
        => IsFiniteSet({a, b, c}) /\ Cardinality({a, b, c}) = 3
  <2> SUFFICES ASSUME NEW a, NEW b, NEW c, a # b, a # c, b # c
               PROVE  IsFiniteSet({a, b, c}) /\ Cardinality({a, b, c}) = 3
    OBVIOUS
  <2>1. IsFiniteSet({a}) /\ Cardinality({a}) = 1
    BY FS_Singleton
  <2>2. IsFiniteSet({a} \cup {b}) /\ Cardinality({a} \cup {b}) = 2
    BY <2>1, FS_AddElement
  <2>3. /\ IsFiniteSet(({a} \cup {b}) \cup {c})
        /\ Cardinality(({a} \cup {b}) \cup {c}) = 3
    BY <2>2, FS_AddElement
  <2>4. ({a} \cup {b}) \cup {c} = {a, b, c}
    OBVIOUS
  <2> QED
    BY <2>3, <2>4
<1>2. ProgramImages \ {"back"} = {"bg", "icon1", "icon2"}
  BY DEF ProgramImages
<1>3. IsFiniteSet(SceneImages) /\ Cardinality(SceneImages) = 4
  <2>1. SceneImages = {"map", "black", "white"} \cup {"menu"}
    BY DEF SceneImages
  <2>2. /\ IsFiniteSet({"map", "black", "white"})
        /\ Cardinality({"map", "black", "white"}) = 3
    BY <1>1
  <2> QED
    BY <2>1, <2>2, FS_AddElement
<1>4. IsFiniteSet(ProgramImages)
  <2>1. ProgramImages = {"bg", "icon1", "icon2"} \cup {"back"}
    BY DEF ProgramImages
  <2> QED
    BY <1>1, <2>1, FS_AddElement
<1>5. IsFiniteSet(ImageNames)
  BY <1>3, <1>4, FS_Union DEF ImageNames
<1>6. /\ IsFiniteSet({"bg", "icon1", "icon2"})
      /\ Cardinality({"bg", "icon1", "icon2"}) = 3
  BY <1>1
<1> QED
  BY <1>2, <1>3, <1>5, <1>6

\* Image::Init takes two DCs and two bitmaps for a file that is there, and
\* one DC of the window for one that is not.
LEMMA InitObjectsCounts ==
  ASSUME NEW g \in GdiCounts, NEW names, IsFiniteSet(names), NEW absent
  PROVE  LET h == InitObjects(g, names, absent)
         IN  /\ h \in GdiCounts
             /\ h.selected = g.selected
             /\ h.dcs = g.dcs + 2 * Cardinality(names \ absent)
             /\ h.dcs + h.bitmaps + h.windowDCs + h.fonts
                  <= g.dcs + g.bitmaps + g.windowDCs + g.fonts + 4 * Cardinality(names)
<1> DEFINE l == Cardinality(names \ absent)
           k == Cardinality(names \cap absent)
<1>1. l \in Nat /\ k \in Nat /\ Cardinality(names) \in Nat
  BY FS_CardinalityType, FS_Difference, FS_Intersection
<1>2. l = Cardinality(names) - k
  BY FS_Difference
<1> DEFINE a == g.dcs + 2 * l
           b == g.bitmaps + 2 * l
           c == g.windowDCs + k
<1>3. InitObjects(g, names, absent) = [g EXCEPT !.dcs = a, !.bitmaps = b, !.windowDCs = c]
  BY DEF InitObjects, GdiCounts
<1>4. a \in Nat /\ b \in Nat /\ c \in Nat
  BY <1>1 DEF GdiCounts
<1> HIDE DEF l, k, a, b, c
<1>6. InitObjects(g, names, absent) \in GdiCounts
  BY <1>3, <1>4 DEF GdiCounts
<1>7. InitObjects(g, names, absent).dcs = a /\ InitObjects(g, names, absent).bitmaps = b
  BY <1>3, <1>4 DEF GdiCounts
<1>8. /\ InitObjects(g, names, absent).windowDCs = c
      /\ InitObjects(g, names, absent).fonts = g.fonts
      /\ InitObjects(g, names, absent).selected = g.selected
  BY <1>3, <1>4 DEF GdiCounts
<1>5. g.dcs \in Nat /\ g.bitmaps \in Nat /\ g.windowDCs \in Nat /\ g.fonts \in Nat
  BY DEF GdiCounts
<1> QED
  BY <1>1, <1>2, <1>5, <1>6, <1>7, <1>8 DEF l, a, b, c

\* Writing a text gives back the font it creates.
LEMMA TextKeepsObjects ==
  ASSUME NEW g \in GdiCounts, ~g.selected
  PROVE  TextInFont(g) = g
<1>1. CreateAndSelect(g) = [g EXCEPT !.fonts = g.fonts + 1, !.selected = TRUE]
  BY DEF CreateAndSelect, GdiCounts
<1>2. SelectOld(CreateAndSelect(g)) = [g EXCEPT !.fonts = g.fonts + 1]
  BY <1>1, g.selected = FALSE DEF SelectOld, GdiCounts
<1>3. [g EXCEPT !.fonts = g.fonts + 1].fonts - 1 = g.fonts
  BY DEF GdiCounts
<1> QED
  BY <1>2, <1>3 DEF TextInFont, DeleteFont, GdiCounts

\* Images loaded anew add at most those whose files are there.
LEMMA HeldAfterInit ==
  ASSUME image \in [ImageNames -> ImageStates], NEW names \in SUBSET ImageNames,
         image' = [n \in ImageNames |->
                     IF n \in names THEN InitImage(n, missing) ELSE image[n]]
  PROVE  /\ Cardinality(Held') \in Nat /\ Cardinality(Held) \in Nat
         /\ Cardinality(names \ missing) \in Nat
         /\ Cardinality(Held') <= Cardinality(Held) + Cardinality(names \ missing)
<1>1. Held' \subseteq Held \cup (names \ missing)
  BY DEF Held, InitImage
<1>2. IsFiniteSet(Held) /\ IsFiniteSet(names) /\ IsFiniteSet(Held')
  BY ImagesFinite, FS_Subset DEF Held
<1>3. IsFiniteSet(names \ missing)
  BY <1>2, FS_Difference
<1>4. /\ IsFiniteSet(Held \cup (names \ missing))
      /\ Cardinality(Held \cup (names \ missing))
           = Cardinality(Held) + Cardinality(names \ missing)
               - Cardinality(Held \cap (names \ missing))
  BY <1>2, <1>3, FS_Union
<1>5. Cardinality(Held') <= Cardinality(Held \cup (names \ missing))
  BY <1>1, <1>4, FS_Subset
<1>6. /\ Cardinality(Held) \in Nat /\ Cardinality(names \ missing) \in Nat
      /\ Cardinality(Held') \in Nat
      /\ Cardinality(Held \cap (names \ missing)) \in Nat
  BY <1>2, <1>3, FS_CardinalityType, FS_Intersection
<1> QED
  BY <1>4, <1>5, <1>6

\* Deleting images gives back one DC for each that was alive.
LEMMA HeldAfterRelease ==
  ASSUME image \in [ImageNames -> ImageStates], NEW names \in SUBSET ImageNames,
         gdi \in GdiCounts, Cardinality(Held) <= gdi.dcs,
         image' = [n \in ImageNames |-> IF n \in names THEN "null" ELSE image[n]],
         gdi' = ReleaseObjects(gdi, image, names)
  PROVE  /\ gdi' \in GdiCounts /\ gdi'.selected = gdi.selected
         /\ Cardinality(Held') <= gdi'.dcs
         /\ gdi'.dcs + gdi'.bitmaps + gdi'.windowDCs + gdi'.fonts
              <= gdi.dcs + gdi.bitmaps + gdi.windowDCs + gdi.fonts
<1> DEFINE R == {n \in names : image[n] = "alive"}
           k == Cardinality(R)
<1>1. Held' = Held \ R /\ Held \cap R = R
  BY DEF Held
<1>2. IsFiniteSet(Held)
  BY ImagesFinite, FS_Subset DEF Held
<1>3. IsFiniteSet(R)
  BY <1>1, <1>2, FS_Intersection
<1>4. k \in Nat /\ Cardinality(Held) \in Nat
  BY <1>2, <1>3, FS_CardinalityType
<1>5. Cardinality(Held') = Cardinality(Held) - k /\ k <= Cardinality(Held)
  BY <1>1, <1>2, FS_Difference, FS_Intersection
<1>6. gdi' = [gdi EXCEPT !.dcs = gdi.dcs - k]
  BY DEF ReleaseObjects, GdiCounts
<1> HIDE DEF k, R
<1>7. gdi.dcs \in Nat /\ gdi.bitmaps \in Nat /\ gdi.windowDCs \in Nat /\ gdi.fonts \in Nat
  BY DEF GdiCounts
<1>8. gdi.dcs - k \in Nat
  BY <1>4, <1>5, <1>7
<1>9. /\ gdi' \in GdiCounts /\ gdi'.selected = gdi.selected
      /\ gdi'.dcs = gdi.dcs - k /\ gdi'.bitmaps = gdi.bitmaps
      /\ gdi'.windowDCs = gdi.windowDCs /\ gdi'.fonts = gdi.fonts
  BY <1>6, <1>8 DEF GdiCounts
<1> QED
  BY <1>4, <1>5, <1>7, <1>9

\* Entering the game takes at most the sixteen objects of another visit.
LEMMA EnterObjects ==
  ASSUME ObjectsInv, phase # "start", UNCHANGED <<missing, inputVars>>, dirty' \in BOOLEAN,
         NEW next \in {"loop", "polled"}, OmokSceneInit(next),
         m_keyDown' \in BOOLEAN, acts' \in Nat
  PROVE  ObjectsInv'
<1> USE DEF ObjectsInv, ProgramTypeOK
<1>1. /\ SceneImages \in SUBSET ImageNames
      /\ image' = [n \in ImageNames |->
                     IF n \in SceneImages THEN InitImage(n, missing) ELSE image[n]]
      /\ gdi' = InitObjects(gdi, SceneImages, missing)
  BY DEF OmokSceneInit, ImageNames
<1>2. /\ Cardinality(Held') \in Nat /\ Cardinality(Held) \in Nat
      /\ Cardinality(SceneImages \ missing) \in Nat
      /\ Cardinality(Held') <= Cardinality(Held) + Cardinality(SceneImages \ missing)
  BY <1>1, HeldAfterInit
<1>3. /\ gdi' \in GdiCounts /\ gdi'.selected = gdi.selected
      /\ gdi'.dcs = gdi.dcs + 2 * Cardinality(SceneImages \ missing)
      /\ gdi'.dcs + gdi'.bitmaps + gdi'.windowDCs + gdi'.fonts
           <= gdi.dcs + gdi.bitmaps + gdi.windowDCs + gdi.fonts + 4 * 4
  BY <1>1, ImagesFinite, InitObjectsCounts
<1>4. gdi.dcs \in Nat /\ gdi.bitmaps \in Nat /\ gdi.windowDCs \in Nat /\ gdi.fonts \in Nat
      /\ gdi'.dcs \in Nat /\ gdi'.bitmaps \in Nat /\ gdi'.windowDCs \in Nat
      /\ gdi'.fonts \in Nat
  BY <1>3 DEF GdiCounts
<1>5. visits' = visits + 1 /\ visits \in Nat
  BY DEF OmokSceneInit
<1>6. Cardinality(Held') <= gdi'.dcs
  BY <1>2, <1>3, <1>4
<1>7. GdiBounded'
  BY <1>3, <1>4, <1>5 DEF GdiBounded
<1>8. /\ phase' \in Phases /\ phase' # "start" /\ current' \in {"NULL", "None", "Gomoku"}
      /\ boxes' \in Nat
  BY DEF OmokSceneInit, ClientInit, ApplySockopt, Connect, ErrQuit, Phases
<1>9. /\ image' \in [ImageNames -> ImageStates]
      /\ gomoku' \in [Played -> {"EMPTY", "BLACK", "WHITE"}]
      /\ myTurn' \in BOOLEAN /\ UNCHANGED <<client, left>>
  BY <1>1 DEF OmokSceneInit, InitImage, ImageStates
<1>10. ~gdi'.selected
  BY <1>3
<1>11. ProgramTypeOK'
  BY <1>3, <1>5, <1>8, <1>9 DEF inputVars
<1> QED
  BY <1>6, <1>7, <1>8, <1>10, <1>11

\* Deleting images takes nothing.
LEMMA ReleaseHolds ==
  ASSUME ObjectsInv, phase' # "start", NEW names \in SUBSET ImageNames,
         image' = [n \in ImageNames |-> IF n \in names THEN "null" ELSE image[n]],
         gdi' = ReleaseObjects(gdi, image, names), UNCHANGED visits
  PROVE  /\ gdi' \in GdiCounts /\ ~gdi'.selected /\ GdiBounded'
         /\ Cardinality(Held') <= gdi'.dcs
         /\ image' \in [ImageNames -> ImageStates]
<1> USE DEF ObjectsInv, ProgramTypeOK
<1>1. /\ gdi' \in GdiCounts /\ gdi'.selected = gdi.selected
      /\ Cardinality(Held') <= gdi'.dcs
      /\ gdi'.dcs + gdi'.bitmaps + gdi'.windowDCs + gdi'.fonts
           <= gdi.dcs + gdi.bitmaps + gdi.windowDCs + gdi.fonts
  BY HeldAfterRelease
<1>2. gdi.dcs \in Nat /\ gdi.bitmaps \in Nat /\ gdi.windowDCs \in Nat /\ gdi.fonts \in Nat
      /\ gdi'.dcs \in Nat /\ gdi'.bitmaps \in Nat /\ gdi'.windowDCs \in Nat
      /\ gdi'.fonts \in Nat
  BY <1>1 DEF GdiCounts
<1>3. GdiBounded'
  BY <1>1, <1>2 DEF GdiBounded
<1>4. image' \in [ImageNames -> ImageStates]
  BY DEF ImageStates
<1>5. ~gdi'.selected
  BY <1>1
<1> QED
  BY <1>1, <1>3, <1>4, <1>5

\* A step that leaves images, objects and visits alone keeps their part.
LEMMA ObjectsUntouched ==
  ASSUME ObjectsInv, UNCHANGED <<image, gdi, visits>>, ProgramTypeOK', phase' # "start"
  PROVE  ObjectsInv'
BY DEF ObjectsInv, Held, GdiBounded

\* Every change of scene (SceneManager::ChangeScene).
LEMMA ChangeSceneObjects ==
  ASSUME ObjectsInv, Running, UNCHANGED <<missing, inputVars>>, dirty' \in BOOLEAN,
         NEW name, NEW next \in {"loop", "polled"}, ChangeScene(name, next),
         m_keyDown' \in BOOLEAN, acts' \in Nat
  PROVE  ObjectsInv'
<1> USE DEF ObjectsInv, ProgramTypeOK
<1>1. CASE phase' = next
           /\ UNCHANGED <<current, image, gdi, client, myTurn, gomoku, boxes, visits, left>>
  <2>1. ProgramTypeOK'
    BY <1>1 DEF inputVars, Phases
  <2> QED
    BY <1>1, <2>1, ObjectsUntouched
<1>2. CASE OmokSceneInit(next)
  BY <1>2, EnterObjects DEF Running
<1>3. CASE /\ name = "None" /\ current' = name /\ phase' = next
           /\ IF current = "Gomoku" THEN OmokSceneRelease
                                    ELSE UNCHANGED <<image, gdi, client, left>>
           /\ UNCHANGED <<myTurn, gomoku, boxes, visits>>
  <2>1. CASE current = "Gomoku"
    <3>1. /\ gdi' \in GdiCounts /\ ~gdi'.selected /\ GdiBounded'
          /\ Cardinality(Held') <= gdi'.dcs
          /\ image' \in [ImageNames -> ImageStates]
      BY <1>3, <2>1, ReleaseHolds DEF OmokSceneRelease, ImageNames
    <3>2. ProgramTypeOK'
      BY <1>3, <2>1, <3>1 DEF OmokSceneRelease, inputVars, Phases
    <3> QED
      BY <1>3, <3>1, <3>2
  <2>2. CASE current # "Gomoku"
    <3>1. ProgramTypeOK'
      BY <1>3, <2>2 DEF inputVars, Phases
    <3> QED
      BY <1>3, <2>2, <3>1, ObjectsUntouched
  <2> QED
    BY <2>1, <2>2
<1> QED
  BY <1>1, <1>2, <1>3 DEF ChangeScene, SceneList

\* What Image::Init, the Render()s and the Release()s do to the objects.
LEMMA ObjectsCounted == Spec => []ObjectsInv
<1> USE DEF ObjectsInv, ProgramTypeOK
<1>1. Init => ObjectsInv
  <2> SUFFICES ASSUME Init PROVE ObjectsInv
    OBVIOUS
  <2>1. gdi = NoGdi /\ Held = {}
    BY DEF Init, Held
  <2>2. gdi \in GdiCounts /\ ~gdi.selected /\ gdi.dcs + gdi.bitmaps + gdi.windowDCs + gdi.fonts = 0
        /\ gdi.dcs = 0
    BY <2>1 DEF NoGdi, GdiCounts
  <2>3. Cardinality(Held) = 0
    BY <2>1, FS_EmptySet
  <2>4. GdiBounded /\ Cardinality(Held) <= gdi.dcs
    BY <2>2, <2>3 DEF Init, GdiBounded
  <2>5. ProgramTypeOK
    BY <2>2 DEF Init, Phases, ImageStates
  <2> QED
    BY <2>1, <2>2, <2>4, <2>5
<1>2. ObjectsInv /\ [Next]_vars => ObjectsInv'
  <2> SUFFICES ASSUME ObjectsInv, [Next]_vars
               PROVE  ObjectsInv'
    OBVIOUS
  <2>1. CASE ButtonDown \/ ButtonUp \/ MouseMove
    <3>1. UNCHANGED <<sceneVars, phase, missing, m_keyDown, dirty>>
      BY <2>1 DEF ButtonDown, ButtonUp, MouseMove
    <3>2. UNCHANGED <<image, gdi, visits, phase>>
      BY <3>1 DEF sceneVars
    <3>3. g_ptMouse' \in Points /\ lbutton' \in BOOLEAN /\ presses' \in Nat
      <4>1. CASE ButtonDown
        BY <4>1 DEF ButtonDown
      <4>2. CASE ButtonUp
        BY <4>2 DEF ButtonUp
      <4>3. CASE MouseMove
        BY <4>3 DEF MouseMove
      <4> QED
        BY <2>1, <4>1, <4>2, <4>3
    <3>4. ProgramTypeOK'
      BY <3>1, <3>3 DEF sceneVars
    <3> QED
      BY <3>2, <3>4 DEF Held, GdiBounded
  <2>2. CASE Start
    <3> DEFINE g0 == GameNodeInit(gdi)
               icons == ProgramImages \ {"back"}
    <3>1. gdi = NoGdi
      BY <2>2 DEF Start
    <3>2. /\ g0 \in GdiCounts /\ ~g0.selected
          /\ g0.dcs = 2 /\ g0.bitmaps = 2 /\ g0.windowDCs = 1 /\ g0.fonts = 0
      <4> DEFINE h == [gdi EXCEPT !.windowDCs = 1]
      <4>1. /\ h \in GdiCounts /\ ~h.selected /\ h.windowDCs = 1
            /\ h.dcs = 0 /\ h.bitmaps = 0 /\ h.fonts = 0
        BY <3>1 DEF NoGdi, GdiCounts
      <4>2. g0 = [h EXCEPT !.dcs = h.dcs + 2, !.bitmaps = h.bitmaps + 2]
        BY <3>1 DEF GameNodeInit, InitEmpty, NoGdi, GdiCounts
      <4> HIDE DEF h, g0
      <4>3. g0 = [h EXCEPT !.dcs = 2, !.bitmaps = 2]
        BY <4>1, <4>2
      <4>4. g0 \in GdiCounts
        BY <4>1, <4>3 DEF GdiCounts
      <4>5. g0.dcs = 2 /\ g0.bitmaps = 2
        BY <4>1, <4>3 DEF GdiCounts
      <4>6. g0.windowDCs = 1 /\ g0.fonts = 0 /\ ~g0.selected
        BY <4>1, <4>3 DEF GdiCounts
      <4> QED
        BY <4>4, <4>5, <4>6
    <3> HIDE DEF g0
    <3>3. gdi' = InitObjects(g0, icons, missing)
      BY <2>2 DEF Start, g0
    <3>4. /\ gdi' \in GdiCounts /\ gdi'.selected = g0.selected
          /\ gdi'.dcs = 2 + 2 * Cardinality(icons \ missing)
          /\ gdi'.dcs + gdi'.bitmaps + gdi'.windowDCs + gdi'.fonts <= 2 + 2 + 1 + 0 + 4 * 3
      <4>1. /\ gdi' \in GdiCounts /\ gdi'.selected = g0.selected
            /\ gdi'.dcs = g0.dcs + 2 * Cardinality(icons \ missing)
            /\ gdi'.dcs + gdi'.bitmaps + gdi'.windowDCs + gdi'.fonts
                 <= g0.dcs + g0.bitmaps + g0.windowDCs + g0.fonts + 4 * Cardinality(icons)
        <5>1. IsFiniteSet(icons)
          BY ImagesFinite
        <5> HIDE DEF icons
        <5> QED
          BY <3>2, <3>3, <5>1, InitObjectsCounts
      <4>2. Cardinality(icons) = 3
        BY ImagesFinite
      <4> QED
        BY <3>2, <4>1, <4>2
    <3>5. image' = [n \in ImageNames |->
                      IF n \in ProgramImages THEN InitImage(n, missing) ELSE "null"]
      BY <2>2 DEF Start
    <3>6. Cardinality(Held') <= gdi'.dcs
      <4>1. Held' \subseteq (icons \ missing) \cup {"back"}
        BY <2>2, <3>5 DEF Start, Held, InitImage
      <4>2. IsFiniteSet(icons \ missing) /\ Cardinality(icons \ missing) \in Nat
        BY ImagesFinite, FS_Difference, FS_CardinalityType
      <4>3. /\ IsFiniteSet((icons \ missing) \cup {"back"})
            /\ Cardinality((icons \ missing) \cup {"back"}) <= Cardinality(icons \ missing) + 1
        <5> HIDE DEF icons
        <5>1. Cardinality((icons \ missing) \cup {"back"})
                = IF "back" \in icons \ missing THEN Cardinality(icons \ missing)
                                                ELSE Cardinality(icons \ missing) + 1
          BY <4>2, FS_AddElement
        <5>2. IsFiniteSet((icons \ missing) \cup {"back"})
          BY <4>2, FS_AddElement
        <5> QED
          BY <4>2, <5>1, <5>2
      <4>4. /\ Cardinality(Held') <= Cardinality((icons \ missing) \cup {"back"})
            /\ IsFiniteSet(Held')
        BY <4>1, <4>3, FS_Subset
      <4>5. Cardinality(Held') \in Nat /\ Cardinality((icons \ missing) \cup {"back"}) \in Nat
        BY <4>3, <4>4, FS_CardinalityType
      <4> QED
        BY <3>4, <4>2, <4>3, <4>4, <4>5
    <3>7. visits' = visits /\ visits \in Nat
      BY <2>2 DEF Start
    <3>8. GdiBounded'
      <4>1. gdi'.dcs \in Nat /\ gdi'.bitmaps \in Nat /\ gdi'.windowDCs \in Nat /\ gdi'.fonts \in Nat
        BY <3>4 DEF GdiCounts
      <4> QED
        BY <3>4, <3>7, <4>1 DEF GdiBounded
    <3>9. image' \in [ImageNames -> ImageStates]
      BY <3>5 DEF InitImage, ImageStates
    <3>10. ProgramTypeOK'
      BY <2>2, <3>4, <3>9 DEF Start, NewOmokScene, InvalidateRect, inputVars, Phases
    <3> QED
      BY <2>2, <3>2, <3>4, <3>6, <3>8, <3>10 DEF Start
  <2>3. CASE SceneUpdate
    <3>1. UNCHANGED <<inputVars, missing>> /\ dirty' \in BOOLEAN /\ phase = "loop"
      BY <2>3 DEF SceneUpdate, InvalidateRect
    <3>2. CASE NoneSceneUpdate
      <4>1. ProgramTypeOK'
        BY <3>1, <3>2 DEF NoneSceneUpdate, sceneVars, inputVars, Phases
      <4> QED
        BY <3>2, <4>1, ObjectsUntouched DEF NoneSceneUpdate, sceneVars
    <3>3. m_keyDown' \in BOOLEAN /\ (NoneSceneUpdate \/ Leave \/ \E c \in BOOLEAN : Play(c))
      BY <2>3 DEF SceneUpdate, OmokSceneUpdate, NoneSceneUpdate, GetKeyDown
    <3>4. ASSUME NEW clicked \in BOOLEAN, Play(clicked)
          PROVE  ObjectsInv'
      <4>1. acts' \in Nat
        <5>1. Cardinality(CellsHit) \in {0, 1}
          BY OneCellHit
        <5> QED
          BY <3>4, <5>1 DEF Play
      <4>2. gomoku' \in [Played -> {"EMPTY", "BLACK", "WHITE"}] /\ myTurn' \in BOOLEAN
            /\ phase' \in {"polled", "wild"}
        BY <3>4 DEF Play, ClientUpdate
      <4>3. ProgramTypeOK'
        BY <3>1, <3>3, <3>4, <4>1, <4>2 DEF Play, inputVars, Phases
      <4> QED
        BY <3>4, <4>2, <4>3, ObjectsUntouched DEF Play
    <3>5. CASE Leave
      <4>1. acts' \in Nat
        BY <3>5 DEF Leave
      <4> QED
        BY <3>1, <3>3, <3>5, <4>1, ChangeSceneObjects DEF Leave, Running
    <3> QED
      BY <3>2, <3>3, <3>4, <3>5
  <2>4. CASE IconUpdate
    <3>1. UNCHANGED <<inputVars, missing, dirty>> /\ phase = "polled" /\ m_keyDown' \in BOOLEAN
      BY <2>4 DEF IconUpdate, GetKeyDown
    <3>2. ASSUME NEW name, ChangeScene(name, "loop"), acts' \in Nat
          PROVE  ObjectsInv'
      BY <3>1, <3>2, ChangeSceneObjects DEF Running
    <3>3. CASE phase' = "loop" /\ UNCHANGED sceneVars
      <4>1. ProgramTypeOK'
        BY <3>1, <3>3 DEF sceneVars, inputVars, Phases
      <4> QED
        BY <3>3, <4>1, ObjectsUntouched DEF sceneVars
    <3> QED
      BY <2>4, <3>2, <3>3 DEF IconUpdate
  <2>5. CASE Paint
    <3>1. UNCHANGED <<image, visits, gdi>> /\ phase' \in {"loop", "crashed"}
      BY <2>5, TextKeepsObjects DEF Paint
    <3>2. ProgramTypeOK'
      BY <2>5, <3>1 DEF Paint, inputVars, Phases
    <3> QED
      BY <3>1, <3>2, ObjectsUntouched
  <2>6. CASE Quit
    <3>1. Released \in SUBSET ImageNames
      BY DEF Released, GameNodeRelease, ReleasedScenes, ImageNames, ProgramImages
    <3>2. /\ gdi' \in GdiCounts /\ ~gdi'.selected /\ GdiBounded'
          /\ Cardinality(Held') <= gdi'.dcs
          /\ image' \in [ImageNames -> ImageStates]
      BY <2>6, <3>1, ReleaseHolds DEF Quit
    <3>3. ProgramTypeOK'
      BY <2>6, <3>2 DEF Quit, inputVars, Phases
    <3> QED
      BY <2>6, <3>2, <3>3 DEF Quit
  <2>7. CASE NoWindow \/ CloseBox
    <3>1. phase' \in {"exited", "aborted"} /\ UNCHANGED <<sceneVars, inputVars, missing, m_keyDown, dirty>>
      BY <2>7 DEF NoWindow, CloseBox
    <3>2. ProgramTypeOK'
      BY <3>1 DEF sceneVars, inputVars, Phases
    <3> QED
      BY <3>1, <3>2, ObjectsUntouched DEF sceneVars
  <2>8. CASE UNCHANGED vars
    <3>1. ProgramTypeOK' /\ UNCHANGED <<image, gdi, visits, phase>>
      BY <2>8 DEF vars, sceneVars, inputVars
    <3> QED
      BY <3>1 DEF Held, GdiBounded
  <2> QED
    BY <2>1, <2>2, <2>3, <2>4, <2>5, <2>6, <2>7, <2>8 DEF Next
<1> QED
  BY <1>1, <1>2, PTL DEF Spec

\* Image::Release and a failed Init leak, but the objects the process holds are
\* bounded by how often the game was entered, for any number of frames: no
\* Render() leaks (Image.cpp).
THEOREM ObjectsBounded == Spec => []GdiBounded
<1>1. ObjectsInv => GdiBounded
  BY DEF ObjectsInv
<1> QED
  BY <1>1, ObjectsCounted, PTL

\* Every variable of the client program keeps its type through every frame,
\* message box and change of scene.
THEOREM ProgramTypes == Spec => []ProgramTypeOK
<1>1. ObjectsInv => ProgramTypeOK
  BY DEF ObjectsInv
<1> QED
  BY <1>1, ObjectsCounted, PTL

=============================================================================
