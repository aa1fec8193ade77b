-------------------------- MODULE MCBackgroundJobs --------------------------
(***************************************************************************)
(* Instances of BackgroundJobs: one job that awaits its log lines and one  *)
(* that does not (detached), one viewer.                                   *)
(***************************************************************************)
EXTENDS BackgroundJobs

CONSTANTS awaited, detached, viewer

MCJob      == {awaited, detached}
MCDetached == {detached}
MCViewer   == {viewer}
=============================================================================
