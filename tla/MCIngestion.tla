---------------------------- MODULE MCIngestion ----------------------------
(* Small instances of Ingestion for TLC.                                    *)
EXTENDS Ingestion

AllKinds == {"direct", "youtube", "upload"}
=============================================================================
