-------------------------------- MODULE MCMesh --------------------------------
(* Model of Mesh for TLC.                                                      *)
EXTENDS Mesh
==============================================================================
