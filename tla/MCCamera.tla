------------------------------ MODULE MCCamera ------------------------------
(***************************************************************************)
(* TLC instance of the four parts of the cameras: the video bridge, the    *)
(* inside of a pipeline, the playback entity and the inventory.  As in     *)
(* MCDoorLock, one part moves while the others rest in an initial state.   *)
(***************************************************************************)
EXTENDS VideoBridge, VideoPipeline, PlaybackCamera, CameraInventory

vars == <<bridgeVars, pipelineVars, playbackVars, inventoryVars>>

Init == BridgeInit /\ PipelineInit /\ PlaybackInit /\ InventoryInit

\* A part at rest; one initial state of it is enough while another part moves.
BridgeRests == BridgeInit /\ mode = "live"
PipelineRests == PipelineInit /\ request = "live"

Next ==
    \/ /\ PipelineRests /\ PlaybackInit /\ InventoryInit
       /\ BridgeNext
       /\ UNCHANGED <<pipelineVars, playbackVars, inventoryVars>>
    \/ /\ BridgeRests /\ PlaybackInit /\ InventoryInit
       /\ PipelineNext
       /\ UNCHANGED <<bridgeVars, playbackVars, inventoryVars>>
    \/ /\ BridgeRests /\ PipelineRests /\ InventoryInit
       /\ PlaybackNext
       /\ UNCHANGED <<bridgeVars, pipelineVars, inventoryVars>>
    \/ /\ BridgeRests /\ PipelineRests /\ PlaybackInit
       /\ InventoryNext
       /\ UNCHANGED <<bridgeVars, pipelineVars, playbackVars>>

Spec == Init /\ [][Next]_vars /\ BridgeFairness

\* The types of the four parts.
CameraTypeOK == BridgeTypeOK /\ PipelineTypeOK /\ PlaybackTypeOK /\ InventoryTypeOK

=============================================================================
