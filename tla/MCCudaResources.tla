-------------------------- MODULE MCCudaResources --------------------------
(* Model checking the device's resources: three steps, of a prompt, of a     *)
(* decode, and of a chunk without logits.                                    *)
EXTENDS CudaResources

MCDemands ==
    {[n |-> 2, seqs |-> 1, tables |-> 2, rows |-> 1],
     [n |-> 1, seqs |-> 1, tables |-> 3, rows |-> 0],
     [n |-> 3, seqs |-> 2, tables |-> 3, rows |-> 2]}

=============================================================================
