------------------------ MODULE MCNestedInputPlatform ------------------------
(* The nested input platform against a host hub with two devices and at   *)
(* most one host observer.                                                 *)
EXTENDS NestedInputPlatform, TLC

CONSTANTS d1, d2, o1

MCDevices == {d1, d2}
MCNoObservers == {}
MCOneObserver == {o1}

=============================================================================
