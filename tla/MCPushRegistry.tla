--------------------------- MODULE MCPushRegistry ---------------------------
(***************************************************************************)
(* Small instances of PushRegistry for TLC: the channels WNS issued to the *)
(* devices of each instance. d1 has two in OneDeviceUris, one after the    *)
(* other; the run of RegistryOffline, where no channel is used, has one.   *)
(***************************************************************************)
EXTENDS PushRegistry, TLC

CONSTANTS d1, d2, u1, u2, u3

OneUriOwner == u1 :> d1

OneDeviceUris == {u1, u2}
OneDeviceUriOwner == [u \in OneDeviceUris |-> d1]

TwoDeviceUris == {u1, u3}
TwoDeviceUriOwner == u1 :> d1 @@ u3 :> d2

\* Node tokens and account ids are only compared with each other.
NodeAndAccountSymmetry == Permutations(Nodes) \union Permutations(AccountIds)

=============================================================================
