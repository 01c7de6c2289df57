--------------------------- MODULE MC_RequestPath ---------------------------
(***************************************************************************)
(* The gateway with values from RequestPath.cfg: requests compete for one      *)
(* slot less than there are requests, and a read is retried once.  One role     *)
(* may read, the other upload.                                              *)
(***************************************************************************)
EXTENDS Gateway

RouteRoles == {"viewer", "uploader"}
RouteRolePermissions ==
    [role \in RouteRoles |-> IF role = "viewer" THEN {"asset.read"} ELSE {"storage.upload"}]
=============================================================================
