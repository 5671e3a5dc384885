-------------------------- MODULE MCMappedBuffers --------------------------
(* Three buffers; the third is longer than the others.                     *)
EXTENDS MappedBuffers

MCNumPages == <<1, 1, 2>>

=============================================================================
