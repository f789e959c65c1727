------------------------------- MODULE MCRbac -------------------------------
(* Instances of Rbac for TLC. *)
EXTENDS Rbac, TLC

MCPermissions == {"*", "roles:*", "roles:write", "profile:read"}
MCGroupCovers == {<<"roles:*", "roles:write">>}
MCPermissionSets == {{"*"}, {"roles:*"}, {"roles:write", "profile:read"}}
=============================================================================
