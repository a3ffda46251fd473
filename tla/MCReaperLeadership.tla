------------------------ MODULE MCReaperLeadership ------------------------
(***************************************************************************)
(* TLC instances of ReaperLeadership: three interchangeable reapers, so    *)
(* that a standby can overtake a standby. No symmetry, as the run checks   *)
(* liveness too.                                                           *)
(***************************************************************************)
EXTENDS ReaperLeadership

\* Long enough for a lease to be renewed at an age between fresh and stale.
ASSUME Lease >= 2
=============================================================================
