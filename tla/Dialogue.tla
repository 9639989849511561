------------------------------ MODULE Dialogue ------------------------------
(***************************************************************************)
(* The dialogues of the car's one thread with the camera and with the      *)
(* garages.  They share the thread and no mailbox, so that a behaviour has *)
(* calls of one of the two, while what camera, garages and radio do goes   *)
(* on.                                                                     *)
(***************************************************************************)
EXTENDS Camera, Garage

dialogueVars == <<cameraVars, garageVars>>

DialogueInit == CameraInit /\ GarageInit

CallCamera == goes = "done" /\ calls = 0 /\ CameraCall /\ UNCHANGED garageVars
CallGarage == step = "done" /\ no = 0 /\ C_K_Set_Layer /\ UNCHANGED cameraVars

Car ==
  \/ CameraStep /\ UNCHANGED garageVars
  \/ GarageStep /\ UNCHANGED cameraVars

World ==
  \/ CameraAnswers /\ UNCHANGED garageVars
  \/ GarageWorld /\ UNCHANGED cameraVars

DialogueNext == CallCamera \/ CallGarage \/ Car \/ World

DialogueSpec == DialogueInit /\ [][DialogueNext]_dialogueVars

-----------------------------------------------------------------------------
(* Type invariant of the two dialogues. *)
DialogueTypeOK == CameraTypeOK /\ GarageTypeOK
=============================================================================
