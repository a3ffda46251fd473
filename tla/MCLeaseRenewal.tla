--------------------------- MODULE MCLeaseRenewal ---------------------------
(* TLC instances of LeaseRenewal. *)
EXTENDS LeaseRenewal

\* The clock stops at Horizon: leave room for two leases and two sweeps.
ASSUME Horizon >= 2 * (Lease + SweepInterval)

=============================================================================
