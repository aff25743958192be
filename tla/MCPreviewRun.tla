---------------------------- MODULE MCPreviewRun ----------------------------
(***************************************************************************)
(* Instances of PreviewRun for TLC.                                        *)
(***************************************************************************)
EXTENDS PreviewRun
=============================================================================
