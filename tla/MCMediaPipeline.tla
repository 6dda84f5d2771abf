-------------------------- MODULE MCMediaPipeline --------------------------
(* Small instances of the media pipeline for TLC.                          *)
EXTENDS MediaPipelineProperties

CONSTANTS a1, a2, c1, c2, d1

(* Two creators of two companies upload the same video.                    *)
SameVideo == [a \in Asset |-> d1]
OneEach == [a \in Asset |-> IF a = a1 THEN c1 ELSE c2]
=============================================================================
