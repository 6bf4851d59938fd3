------------------------ MODULE MCComputeCollection ------------------------
(* An instance with two VNICs, each with an address, and another instance   *)
(* with one VNIC and no address: more attachments than workers.             *)
EXTENDS ComputeCollection, TLC

CONSTANTS vm, other, v4, v6, w, ip4, ip6

MCInstanceOf == v4 :> vm @@ v6 :> vm @@ w :> other
MCVnicOf == ip4 :> v4 @@ ip6 :> v6

=============================================================================
