--------------------- MODULE MCPublishQueueDivergences ----------------------
(* Small instances of the divergences for TLC.                             *)
EXTENDS PublishQueueDivergences
=============================================================================
