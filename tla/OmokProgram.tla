----------------------------- MODULE OmokProgram -----------------------------
(***************************************************************************)
(* The client as a Windows program: the message loop, the frames it is      *)
(* driven by, the scenes, their images and the client object, from wWinMain *)
(* to the end of the process.  What the client object does with its packets *)
(* is in OmokClient and OmokWire; here the network may lay a stone and pass  *)
(* the turn in any frame of the game.                                        *)
(*                                                                          *)
(* The mouse button is read asynchronously (GetAsyncKeyState), so it moves   *)
(* at any time, between the two places of a frame that ask for it too.       *)
(***************************************************************************)
EXTENDS Integers, FiniteSets, Image

CONSTANTS
  Points,      \* where the mouse may be: pairs of window coordinates
  Played,      \* the cells the network may lay stones on: pairs of indices
  Missing,     \* for each starting directory, the images not found there
  MaxPresses,  \* bound: how often the player presses the mouse button
  MaxBoxes     \* bound: how many error boxes are open at once

ASSUME PointsAssumption == Points \subseteq Int \X Int
ASSUME PlayedAssumption == Played \subseteq (0..18) \X (0..18)

VARIABLES
  phase,      \* where the program is, see Phases
  current,    \* SceneManager::_currentScene
  image,      \* the Image pointers of MainGame22, GameNode and OmokScene
  missing,    \* the images whose files are not there
  gdi,        \* the Windows objects the process holds
  client,     \* OmokScene::client: the object, or a pointer to freed memory
  myTurn,     \* current_turn = myOmokStone
  gomoku,     \* the stones the scene shows
  g_ptMouse,
  lbutton,    \* whether the button is down
  m_keyDown,  \* what KeyManager remembers of it
  dirty,      \* whether a WM_PAINT is due
  boxes,      \* the error boxes of err_quit, each with a message loop
  presses, acts, visits, left  \* history: presses of the button, what they
              \* caused, calls of OmokScene::Init, whether the game was left

sceneVars == <<current, image, gdi, client, myTurn, gomoku, boxes, acts, visits, left>>
inputVars == <<g_ptMouse, lbutton, presses>>
vars == <<phase, sceneVars, inputVars, missing, m_keyDown, dirty>>

(* "start", "shown": before the message loop; "loop": waiting for a message  *)
(* (in the loop of the innermost error box, if there is one); "polled": in   *)
(* MainGame22::Update, behind SCENE->Update(); the rest are ends: the return *)
(* from wWinMain, exit(1), a NULL pointer followed, freed memory used.       *)
Phases == {"start", "shown", "loop", "polled", "exited", "aborted", "crashed", "wild"}

ProgramImages == {"back", "bg", "icon1", "icon2"}
SceneImages == {"map", "black", "white", "menu"}
ImageNames == ProgramImages \cup SceneImages

(* Faulty variant of SceneList: a name without a scene behind it.            *)
SceneListWithMinesweeper == {"None", "Gomoku", "Minesweeper"}

(* SceneManager::_mSceneList, as MainGame22::Init fills it.                  *)
SceneList == {"None", "Gomoku"}

-----------------------------------------------------------------------------
(* Layout of the window *)

RectMake(x, y, width, height) ==
  [left |-> x, top |-> y, right |-> x + width, bottom |-> y + height]

PtInRect(rc, p) ==
  /\ rc.left <= p[1] /\ p[1] < rc.right
  /\ rc.top <= p[2] /\ p[2] < rc.bottom

rcMineStart == RectMake(143, 120, 73, 65 + 20)
rcGomokuStart == RectMake(140, 240, 70, 65 + 30)
rcGomokuExit == RectMake(923, 75, 25, 25)

CellRect(i, j) == RectMake(466 + i * 25, 102 + j * 25, 25, 25)

Status(c) == IF c \in Played THEN gomoku[c] ELSE "EMPTY"

(* The cells the double loop of OmokScene::Update finds under the mouse.     *)
CellsHit ==
  {c \in (0..18) \X (0..18) :
     PtInRect(CellRect(c[1], c[2]), g_ptMouse) /\ Status(c) = "EMPTY"}

-----------------------------------------------------------------------------
(* KeyManager::GetKeyDown(VK_LBUTTON): true once per press it sees. *)

(* Faulty variant of GetKeyDown: the press is not remembered.                *)
GetKeyDownForgets(clicked) == clicked = lbutton /\ m_keyDown' = FALSE

GetKeyDown(clicked) ==
  /\ clicked = (lbutton /\ ~m_keyDown)
  /\ m_keyDown' = lbutton

-----------------------------------------------------------------------------
(* The window and its input *)

Init ==
  /\ phase = "start" /\ current = "NULL"
  /\ image = [n \in ImageNames |-> "null"]
  /\ missing \in Missing
  /\ gdi = NoGdi
  /\ client = "none"
  /\ myTurn = FALSE
  /\ gomoku = [c \in Played |-> "EMPTY"]
  /\ g_ptMouse \in Points
  /\ lbutton = FALSE /\ m_keyDown = FALSE
  /\ dirty = FALSE
  /\ boxes = 0
  /\ presses = 0 /\ acts = 0 /\ visits = 0 /\ left = FALSE

Running == phase \in {"shown", "loop", "polled"}

ButtonDown ==
  /\ Running /\ ~lbutton /\ presses < MaxPresses
  /\ lbutton' = TRUE /\ presses' = presses + 1
  /\ UNCHANGED <<phase, sceneVars, g_ptMouse, missing, m_keyDown, dirty>>

ButtonUp ==
  /\ Running /\ lbutton
  /\ lbutton' = FALSE
  /\ UNCHANGED <<phase, sceneVars, g_ptMouse, presses, missing, m_keyDown, dirty>>

(* WM_MOUSEMOVE; over another window the last position stays.                *)
MouseMove ==
  /\ phase = "loop"
  /\ g_ptMouse' \in Points \ {g_ptMouse}
  /\ UNCHANGED <<phase, sceneVars, lbutton, presses, missing, m_keyDown, dirty>>

(* GameNode::Init: the back buffer, and a DC that is never returned.         *)
GameNodeInit(g) == InitEmpty([g EXCEPT !.windowDCs = @ + 1])

(* The constructor of OmokScene.                                             *)
NewOmokScene == client' = "alive"

(* GameNode::Update, and the first appearance of the window: all of it has   *)
(* to be drawn.                                                              *)
InvalidateRect == dirty' = TRUE

(* MainGame22::Init: GameNode::Init, the two scenes, the pictures of the      *)
(* start screen.                                                             *)
Start ==
  /\ phase = "start"
  /\ phase' = "shown"
  /\ image' = [n \in ImageNames |->
                 IF n \in ProgramImages THEN InitImage(n, missing) ELSE "null"]
  /\ gdi' = InitObjects(GameNodeInit(gdi), ProgramImages \ {"back"}, missing)
  /\ current' = "None"
  /\ NewOmokScene
  /\ InvalidateRect
  /\ UNCHANGED <<myTurn, gomoku, boxes, acts, visits, left, inputVars, missing, m_keyDown>>

(* InitInstance fails.                                                       *)
NoWindow ==
  /\ phase = "start"
  /\ phase' = "exited"
  /\ UNCHANGED <<sceneVars, inputVars, missing, m_keyDown, dirty>>

-----------------------------------------------------------------------------
(* SceneManager::ChangeScene *)

(* err_quit: a box on top, whose loop dispatches messages as the main loop   *)
(* does; the caller never goes on.                                           *)
ErrQuit ==
  /\ boxes < MaxBoxes
  /\ boxes' = boxes + 1
  /\ phase' = "loop"
  /\ UNCHANGED current

(* OmokClient::connect: the player is asked for an address, on the console,   *)
(* and a connection is begun (WSAEWOULDBLOCK), made, or refused at once.      *)
(* Then OmokScene::Init returns and ChangeScene goes on.                     *)
Connect(next) ==
  \/ ErrQuit
  \/ /\ phase' = next
     /\ current' = "Gomoku"
     /\ UNCHANGED boxes

ApplySockopt(next) == ErrQuit \/ Connect(next)

(* OmokClient::init, on an object that must still be there.                   *)
ClientInit(next) ==
  \/ /\ client = "freed"
     /\ phase' = "wild"
     /\ UNCHANGED <<current, boxes>>
  \/ client = "alive" /\ ErrQuit
  \/ client = "alive" /\ ApplySockopt(next)

(* OmokScene::Init: four new images, an empty board, black's turn and no      *)
(* colour for the player, and then the client object.                        *)
OmokSceneInit(next) ==
  /\ image' = [n \in ImageNames |->
                 IF n \in SceneImages THEN InitImage(n, missing) ELSE image[n]]
  /\ gdi' = InitObjects(gdi, SceneImages, missing)
  /\ gomoku' = [c \in Played |-> "EMPTY"]
  /\ myTurn' = FALSE
  /\ visits' = visits + 1
  /\ ClientInit(next)
  /\ UNCHANGED <<client, left>>

(* OmokScene::Release.                                                       *)
OmokSceneRelease ==
  /\ image' = [n \in ImageNames |-> IF n \in SceneImages THEN "null" ELSE image[n]]
  /\ gdi' = ReleaseObjects(gdi, image, SceneImages)
  /\ client' = "freed"
  /\ left' = TRUE

(* Faulty variant of ChangeScene: the scene that is released is the one      *)
(* that has just been made the current one.                                  *)
ChangeSceneReleasesNew(name, next) ==
  \/ /\ name \in SceneList \ {current}
     /\ current' = name /\ phase' = next
     /\ IF name = "Gomoku" THEN OmokSceneRelease
                           ELSE UNCHANGED <<image, gdi, client, left>>
     /\ UNCHANGED <<myTurn, gomoku, boxes, visits>>
  \/ /\ name \notin SceneList \ {current}
     /\ phase' = next
     /\ UNCHANGED <<current, image, gdi, client, myTurn, gomoku, boxes, visits, left>>

(* A name that is not in the list, or the current scene again: E_FAIL.       *)
(* Otherwise the new scene is initialised, then the old one released.        *)
ChangeScene(name, next) ==
  \/ /\ name \notin SceneList \ {current}
     /\ phase' = next
     /\ UNCHANGED <<current, image, gdi, client, myTurn, gomoku, boxes, visits, left>>
  \/ /\ name \in SceneList \ {current} /\ name = "Gomoku"
     /\ OmokSceneInit(next)
  \/ /\ name \in SceneList \ {current} /\ name # "Gomoku"
     /\ current' = name /\ phase' = next
     /\ IF current = "Gomoku" THEN OmokSceneRelease
                              ELSE UNCHANGED <<image, gdi, client, left>>
     /\ UNCHANGED <<myTurn, gomoku, boxes, visits>>

-----------------------------------------------------------------------------
(* WM_TIMER: MainGame22::Update, up to its own question for the button *)

(* OmokClient::update, on an object that must still be there.  It processes   *)
(* all the packets that have come: any number of stones.                     *)
ClientUpdate ==
  /\ phase' = IF client = "alive" THEN "polled" ELSE "wild"
  /\ myTurn' \in BOOLEAN
  /\ \E stones \in [Played -> {"EMPTY", "BLACK", "WHITE"}] :
       gomoku' = [c \in Played |-> IF gomoku[c] = "EMPTY" THEN stones[c] ELSE gomoku[c]]

(* OmokScene::Update without a click on the exit button: a request for each  *)
(* empty cell under the mouse, and the network.                              *)
Play(clicked) ==
  /\ acts' = IF clicked THEN acts + Cardinality(CellsHit) ELSE acts
  /\ ClientUpdate
  /\ UNCHANGED <<current, image, gdi, client, boxes, visits, left>>

(* Faulty variant of Leave: without the `return`, Update goes on to the      *)
(* client that ChangeScene has just deleted.                                 *)
LeaveAndGoOn == ChangeScene("None", "wild") /\ acts' = acts + 1

(* The click on the exit button.                                             *)
Leave == ChangeScene("None", "polled") /\ acts' = acts + 1

(* Only in one's own turn does the game ask for the button.                  *)
OmokSceneUpdate ==
  \/ /\ ~myTurn
     /\ Play(FALSE)
     /\ UNCHANGED m_keyDown
  \/ /\ myTurn
     /\ \E clicked \in BOOLEAN :
          /\ GetKeyDown(clicked)
          /\ IF clicked /\ PtInRect(rcGomokuExit, g_ptMouse)
             THEN Leave
             ELSE Play(clicked)

NoneSceneUpdate ==
  /\ phase' = "polled"
  /\ UNCHANGED <<sceneVars, m_keyDown>>

(* GameNode::Update and SCENE->Update().                                     *)
SceneUpdate ==
  /\ phase = "loop"
  /\ InvalidateRect
  /\ \/ current = "None" /\ NoneSceneUpdate
     \/ current = "Gomoku" /\ OmokSceneUpdate
  /\ UNCHANGED <<inputVars, missing>>

(* The rest of the frame: the two icons of the start screen, which are there *)
(* in every scene.                                                           *)
IconUpdate ==
  /\ phase = "polled"
  /\ \E clicked \in BOOLEAN :
       /\ GetKeyDown(clicked)
       /\ \/ /\ clicked /\ PtInRect(rcMineStart, g_ptMouse)
             /\ ChangeScene("Minesweeper", "loop")
             /\ UNCHANGED acts
          \/ /\ clicked /\ PtInRect(rcGomokuStart, g_ptMouse)
             /\ ChangeScene("Gomoku", "loop")
             /\ acts' = acts + (IF current = "Gomoku" THEN 0 ELSE 1)
          \/ /\ ~(clicked /\ (\/ PtInRect(rcMineStart, g_ptMouse)
                              \/ PtInRect(rcGomokuStart, g_ptMouse)))
             /\ phase' = "loop"
             /\ UNCHANGED sceneVars
  /\ UNCHANGED <<inputVars, missing, dirty>>

-----------------------------------------------------------------------------
(* WM_PAINT: MainGame22::Render *)

StoneImage(stone) == IF stone = "BLACK" THEN "black" ELSE "white"

(* What OmokScene::Render draws.                                             *)
SceneShows ==
  {"menu", "map"} \cup
  {StoneImage(gomoku[c]) : c \in {d \in Played : gomoku[d] # "EMPTY"}}

(* SceneManager::Render, inside MainGame22::Render.                          *)
CurrentShows == IF current = "Gomoku" THEN SceneShows ELSE {}

Shows == ProgramImages \cup CurrentShows

(* UpdateWindow sends the first one before the message loop begins.          *)
Paint ==
  /\ phase \in {"shown", "loop"} /\ dirty
  /\ dirty' = FALSE
  /\ \/ /\ CanRender(image, Shows)
        /\ phase' = "loop"
        /\ gdi' = IF current = "Gomoku" THEN TextInFont(TextInFont(gdi))
                                        ELSE TextInFont(gdi)
     \/ /\ ~CanRender(image, Shows)
        /\ phase' = "crashed"
        /\ UNCHANGED gdi
  /\ UNCHANGED <<current, image, client, myTurn, gomoku, boxes, acts, visits, left,
                 inputVars, missing, m_keyDown>>

-----------------------------------------------------------------------------
(* The end of the program *)

(* OK on the innermost box, or the end of its loop when the window is closed *)
(* or Escape is pressed: err_quit goes on to exit(1).                        *)
CloseBox ==
  /\ phase = "loop" /\ boxes > 0
  /\ phase' = "aborted"
  /\ UNCHANGED <<sceneVars, inputVars, missing, m_keyDown, dirty>>

(* SceneManager::Release: the scenes are deleted through a pointer to their   *)
(* base, so of OmokScene only what its Release does happens, and that only    *)
(* if it is the current one.                                                 *)
ReleasedScenes == IF current = "Gomoku" THEN SceneImages ELSE {}

GameNodeRelease == {"back"}

(* The images deleted on the way out.                                        *)
Released == GameNodeRelease \cup ReleasedScenes \cup {"bg", "icon1", "icon2"}

(* MainGame22::Release, after the message loop (Escape or WM_DESTROY).        *)
Quit ==
  /\ phase = "loop" /\ boxes = 0
  /\ phase' = "exited"
  /\ image' = [n \in ImageNames |-> IF n \in Released THEN "null" ELSE image[n]]
  /\ gdi' = ReleaseObjects(gdi, image, Released)
  /\ client' = IF current = "Gomoku" THEN "freed" ELSE client
  /\ UNCHANGED <<current, myTurn, gomoku, boxes, acts, visits, left,
                 inputVars, missing, m_keyDown, dirty>>

Next ==
  \/ ButtonDown \/ ButtonUp \/ MouseMove
  \/ Start \/ NoWindow
  \/ SceneUpdate \/ IconUpdate \/ Paint
  \/ CloseBox \/ Quit

Spec == Init /\ [][Next]_vars

-----------------------------------------------------------------------------
(* Properties *)

(* Types of the variables.  The scene is one of those in the manager's list. *)
ProgramTypeOK ==
  /\ phase \in Phases
  /\ current \in {"NULL", "None", "Gomoku"}
  /\ image \in [ImageNames -> ImageStates]
  /\ missing \in Missing
  /\ gdi \in GdiCounts
  /\ client \in {"none", "alive", "freed"}
  /\ myTurn \in BOOLEAN
  /\ gomoku \in [Played -> {"EMPTY", "BLACK", "WHITE"}]
  /\ g_ptMouse \in Points
  /\ lbutton \in BOOLEAN /\ m_keyDown \in BOOLEAN /\ dirty \in BOOLEAN
  /\ boxes \in Nat /\ presses \in Nat /\ acts \in Nat /\ visits \in Nat
  /\ left \in BOOLEAN

(* OmokScene.cpp:71 deletes the client object and keeps the pointer.  The    *)
(* first visit to the game never uses it, however the exit, the frame the    *)
(* exit is in and the other poll of that frame fall: only a player who has   *)
(* left a game and opens another does.                                       *)
FirstVisitIsSafe == phase = "wild" => left /\ visits >= 2

(* Nobody checks whether Image::Init succeeded (OmokScene.cpp:21,            *)
(* MainGame22.cpp:28), and Render follows the pointer.  As long as the       *)
(* files are there, though, a scene that is drawn has its images: through     *)
(* changes of scene, and when an error box lets a second Init begin inside   *)
(* the first.                                                                *)
CrashNeedsMissingFile == phase = "crashed" => missing # {}

(* A frame asks for the button in two places (OmokScene.cpp:77,              *)
(* MainGame22.cpp:58) and 361 cells look at the mouse; still a press of the  *)
(* button causes one request or one change of scene, not more.               *)
OnePressOneAction == acts <= presses

(* Image::Release and Init leak, but painting does not: the objects held are *)
(* bounded by the number of times the game was entered, for any number of    *)
(* frames.                                                                   *)
GdiBounded ==
  gdi.dcs + gdi.bitmaps + gdi.windowDCs + gdi.fonts <= 1 + 16 + 16 * visits

=============================================================================
