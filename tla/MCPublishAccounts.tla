-------------------------- MODULE MCPublishAccounts --------------------------
(* Small instances of PublishAccounts for TLC.                              *)
EXTENDS PublishAccounts
=============================================================================
