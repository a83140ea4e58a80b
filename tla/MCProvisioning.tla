--------------------------- MODULE MCProvisioning ---------------------------
(* A small instance of Provisioning: the threads with one renamed column   *)
(* and the notifications with two, a row of an older release, two servers. *)
EXTENDS Provisioning

CONSTANTS chapter, member

MCColumnsOf == <<{chapter}, {chapter, member}>>
=============================================================================
