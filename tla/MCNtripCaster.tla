---------------------------- MODULE MCNtripCaster ----------------------------
(* Two descriptors, and a third node for a client that is accepted while the   *)
(* node of a closed one has not been freed.                                   *)
EXTENDS NtripCaster

MCFds == {0, 1}

BeforeOverlap == ~overlapped
=============================================================================
