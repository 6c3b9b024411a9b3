---------------------------- MODULE CameraDriver ----------------------------
(***************************************************************************)
(* HikCameraNode: the camera behind the SDK's handle.  init() makes its    *)
(* calls one after another, each of which may fail; grab() borrows an      *)
(* image buffer of the SDK's and gives it back; shutdown() gives up the    *)
(* handle, on whatever way it is reached.                                  *)
(*                                                                         *)
(* Who calls these, and when, is the business of the module Process.       *)
(* Exposure, gain, trigger and the pixel format, whose calls are not       *)
(* checked or fall back, are left out, and so is what an image shows.      *)
(***************************************************************************)
EXTENDS Integers

VARIABLES
  at,       \* the call init() or grab() is about to make, or its outcome
  handle,   \* handle_, as the SDK sees it: "none", "created", "open", "streaming"
  images    \* image buffers borrowed from the SDK

cameraVars == <<at, handle, images>>

CameraOff ==
  /\ at = "off"
  /\ handle = "none"
  /\ images = 0

\* The calls of init() that are checked, with the one that follows.
Following == [config |-> "enumerate", enumerate |-> "create", create |-> "open",
              open |-> "size", size |-> "strategy", strategy |-> "start", start |-> "ready"]

Calls == DOMAIN Following

\* What a call that succeeds makes of the handle.
HandleAfter(call) ==
  CASE call = "create" -> "created"
    [] call = "open" -> "open"
    [] call = "start" -> "streaming"
    [] OTHER -> handle

\* init() first shuts down what an earlier call may have left.
BeginInit ==
  /\ at = "off"
  /\ at' = "config"
  /\ handle' = "none"
  /\ UNCHANGED images

CallSucceeds ==
  /\ at \in Calls
  /\ at' = Following[at]
  /\ handle' = HandleAfter(at)
  /\ UNCHANGED images

\* After CreateHandle init() shuts down what it has; of CreateHandle itself
\* nobody knows whether it left a handle behind, and it is kept.
CallFails ==
  /\ at \in Calls
  /\ at' = "failed"
  /\ handle' \in IF at = "create" THEN {"none", "created"} ELSE {"none"}
  /\ UNCHANGED images

\* MV_CC_GetImageBuffer.
BorrowImage ==
  /\ at = "ready"
  /\ handle = "streaming"
  /\ images' = images + 1
  /\ at' = "image"
  /\ UNCHANGED handle

\* No image within a second.  The stream stays on.
NoImage ==
  /\ at = "ready"
  /\ at' = "failed"
  /\ UNCHANGED <<handle, images>>

\* Mutant of ReturnImage: an image that cannot be converted is kept.
ReturnConverted ==
  /\ at = "image"
  /\ \/ at' = "ready" /\ images' = images - 1
     \/ at' = "failed" /\ UNCHANGED images
  /\ UNCHANGED handle

\* MV_CC_FreeImageBuffer, after the conversion or after the look at a pixel
\* format that cannot be converted.
ReturnImage ==
  /\ at = "image"
  /\ images' = images - 1
  /\ at' \in {"ready", "failed"}
  /\ UNCHANGED handle

Grab == BorrowImage \/ NoImage \/ ReturnImage

\* StopGrabbing, CloseDevice and DestroyHandle.
Shutdown ==
  /\ at' = "off"
  /\ handle' = "none"
  /\ UNCHANGED images

=============================================================================
