-------------------------- MODULE MCConfigProjection --------------------------
(* The instances of the projection that TLC checks.                        *)
EXTENDS ConfigProjectionProperties, TLC

Symmetry == Permutations(Files)
=============================================================================
