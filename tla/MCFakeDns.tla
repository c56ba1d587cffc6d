------------------------------ MODULE MCFakeDns ------------------------------
(* FakeDns on small ranges. *)
EXTENDS FakeDns

=============================================================================
