---------------------------- MODULE MCHubUpload ----------------------------
(***************************************************************************)
(* HubUpload.tla with a full batch and a short one.                        *)
(***************************************************************************)
EXTENDS HubUpload
=============================================================================
