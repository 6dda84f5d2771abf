-------------------------- MODULE MCPublishAdapters --------------------------
(* One publication on each platform for TLC, with and without leases that  *)
(* lapse under a worker.                                                   *)
EXTENDS PublishAdaptersProperties

EveryPlatform == {s \cup {"crash"} \cup t :
                    s \in {{"INSTAGRAM"}, {"YOUTUBE"}, {"VK"}, {"VK", "wall"}},
                    t \in {{}, {"stall"}}}
=============================================================================
