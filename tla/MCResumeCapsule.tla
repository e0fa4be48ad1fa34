-------------------------- MODULE MCResumeCapsule --------------------------
(***************************************************************************)
(* Instances of ResumeCapsule for TLC.                                     *)
(***************************************************************************)
EXTENDS ResumeCapsule

\* Clients finalize with the outcome that tells the least.
OneFinal == {<<"unknown", "unknown">>}
=============================================================================
