-------------------------- MODULE MCKVCacheService --------------------------
(* A Pod replaced under the same backend and IP, and a second backend.     *)
EXTENDS KVCacheService

MCInstances == {[backend |-> "b1", uid |-> "u1", pod |-> "ip1"],
                [backend |-> "b1", uid |-> "u2", pod |-> "ip1"],
                [backend |-> "b2", uid |-> "u3", pod |-> "ip2"]}
=============================================================================
