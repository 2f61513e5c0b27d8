---------------------------- MODULE MCPublishCalls ----------------------------
(* Small instances of PublishCalls for TLC.                                 *)
EXTENDS PublishCalls, MCPublishQueue
=============================================================================
