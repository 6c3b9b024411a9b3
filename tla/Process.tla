------------------------------ MODULE Process -------------------------------
(***************************************************************************)
(* The process with its camera: Pipeline and CameraDriver put together.    *)
(* The camera node's init() is HikCameraNode::init call by call, its run() *)
(* grabs images until one fails, its destroy() and its destructor shut the *)
(* camera down.  Every step of Pipeline is taken as it is there, with what *)
(* it does to the camera.                                                  *)
(***************************************************************************)
EXTENDS Pipeline, CameraDriver

processVars == <<vars, cameraVars>>

ProcessInit == Init /\ CameraOff

\* The camera node is not halfway through its init().
BetweenNodes == at = "off" \/ "camera" \in inited

-----------------------------------------------------------------------------
(* main()                                                                  *)

\* CameraPubNode::init, while GElementManager::init is at the camera.
InitCamera ==
  /\ main = "init"
  /\ "camera" \notin inited
  /\ BeginInit \/ CallSucceeds \/ CallFails
  /\ UNCHANGED vars

CameraInited == InitNode("camera") /\ at = "ready" /\ UNCHANGED cameraVars

CameraInitFails == InitFails("camera") /\ at = "failed" /\ UNCHANGED cameraVars

InitOthers ==
  /\ BetweenNodes
  /\ \E n \in Nodes \ {"camera"} : InitNode(n) \/ InitFails(n)
  /\ UNCHANGED cameraVars

\* Once all nodes are initialised, main() has nothing to do with the camera.
RunNodes ==
  /\ LoadYoloConfig \/ DumpGraph \/ Configure \/ Dispatch \/ Awake \/ JoinThreads
  /\ UNCHANGED cameraVars

\* CameraPubNode::destroy, with the other nodes'.
ShutdownCamera == DestroyNodes /\ Shutdown

\* Mutant of DeleteCamera: a node that does not shut its camera down.
DeleteNodesOnly == ClearPipeline /\ UNCHANGED cameraVars

\* The pipeline deletes its nodes, and ~HikCameraNode shuts down whatever
\* there is to shut down.
DeleteCamera == ClearPipeline /\ Shutdown

EndProcess ==
  /\ RequestYoloStop \/ ClearYoloMessages
  /\ UNCHANGED cameraVars

ProcessMain ==
  \/ InitCamera \/ CameraInited \/ CameraInitFails \/ InitOthers
  \/ RunNodes \/ ShutdownCamera \/ DeleteCamera \/ EndProcess

-----------------------------------------------------------------------------
(* The pool's threads                                                      *)

StartNodes ==
  /\ \E n \in Nodes : StartNode(n) \/ SkipNode(n)
  /\ UNCHANGED cameraVars

\* CameraPubNode::run.
GrabImage ==
  /\ "camera" \in running
  /\ Grab
  /\ UNCHANGED vars

CameraFails == FailNode("camera") /\ at = "failed" /\ UNCHANGED cameraVars

OtherFails == (\E n \in Nodes \ {"camera"} : FailNode(n)) /\ UNCHANGED cameraVars

\* The camera node looks at the stop between two images.
EndNode(n) ==
  /\ ReturnNode(n)
  /\ n = "camera" => at = "ready"
  /\ UNCHANGED cameraVars

ProcessNext ==
  \/ ProcessMain
  \/ StartNodes \/ GrabImage \/ CameraFails \/ OtherFails
  \/ \E n \in Nodes : EndNode(n)

ProcessSpec == ProcessInit /\ [][ProcessNext]_processVars

\* main() and the pool's threads run.  No node has to fail.
FairProcess ==
  /\ ProcessSpec
  /\ WF_processVars(ProcessMain)
  /\ WF_processVars(StartNodes)
  /\ \A n \in Nodes : WF_processVars(EndNode(n))

-----------------------------------------------------------------------------

(* An image borrowed from the SDK lies in its memory: while one is out the *)
(* camera node is in run() and the stream is on, and it is the only one.   *)
(* Neither destroy() nor the destructor comes between the borrowing and    *)
(* the return, and no failure keeps an image.                              *)
(* Code: grab() freeing the buffer on both its ways out, threads joined    *)
(* before nodes are destroyed or deleted.                                  *)
ImagesFromStream ==
  images # 0 => images = 1 /\ handle = "streaming" /\ "camera" \in running

(* Whichever call of init(), whichever node's init() and whichever run()   *)
(* failed, a process that comes to its end has given the camera back: the  *)
(* SDK has no handle any more that this process created.                   *)
(* Code: process() returns without destroy() when a node fails to          *)
(* initialise; what then remains is the destructor.                        *)
CameraReleased == main \in {"stop", "topics", "exit"} => handle = "none"

=============================================================================
