------------------------ MODULE MCServiceDeployDrain ------------------------
(* Small instances of ServiceDeployDrain for TLC.                          *)
EXTENDS ServiceDeployDrain

CONSTANTS deploy, repair, copy, release, web, preview, dispatch, image0, image1

(* A normal deploy, the marker-bound repair of it with the same image, a   *)
(* request that carries the same marker again.                             *)
Builds == [p \in Process |-> IF p = Booted THEN image0 ELSE image1]

Markers == [p \in Process |-> IF p \in {deploy, copy} THEN deploy ELSE p]

Supersedes == [r \in Request |-> IF r = repair THEN deploy ELSE NoMarker]

Kinds == [o \in Op |->
    CASE o = release -> "release"
      [] o = web -> "web"
      [] o = preview -> "preview"
      [] o = dispatch -> "dispatch"]
=============================================================================
