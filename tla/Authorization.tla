---------------------------- MODULE Authorization ----------------------------
(***************************************************************************)
(* Who may do what: the dependencies that run before a handler             *)
(* (get_auth_context, require_permission), the answer of the IAM service   *)
(* they rest on, and the checks of team that controllers make themselves.  *)
(* Nothing of it changes the state of the service.                         *)
(*                                                                         *)
(* A permission "resource:action" is a pair; "resource:*" has Any for its  *)
(* action, and "*" is Everything.  Teams are names already stripped and in *)
(* lower case.                                                             *)
(***************************************************************************)
CONSTANTS
    Principals,     \* who IAM vouches for: [team, permissions]
    Bypass,         \* AUTH_BYPASS_ENABLED
    BypassContext,  \* AUTH_BYPASS_TEAM, AUTH_BYPASS_PERMISSIONS
    NoTeam          \* of a stage or a user without team

Any == "any"
Everything == <<"all", Any>>

Permission(resource, action) == <<resource, action>>

\* has_permission
HasPermission(auth, required) ==
    {Everything, required, Permission(required[1], Any)} \cap auth.permissions # {}

\* resolve_principal: without a token, or if IAM refuses, fails or does not
\* answer in time (401, 403, 503), there is no context and the request ends.
AuthContexts == IF Bypass THEN {BypassContext} ELSE Principals

\* require_permission
Admits(auth, required) == auth \in AuthContexts /\ HasPermission(auth, required)

-----------------------------------------------------------------------------
SameTeam(auth, team) == auth.team # NoTeam /\ auth.team = team

\* _validate_delete_scope
MayDelete(auth, team) ==
    /\ team # NoTeam
    /\ \/ SameTeam(auth, team)
       \/ {Everything, Permission("file", Any), Permission("file", "delete:any"),
           Permission("rfq", Any)} \cap auth.permissions # {}

\* _has_cross_team_advance_override
MayAdvanceAcross(auth) ==
    {Everything, Permission("rfq_stage", "advance"), Permission("rfq_stage", Any)}
        \cap auth.permissions # {}

\* _validate_stage_team_access
MayAdvanceFor(auth, team) == team # NoTeam /\ (SameTeam(auth, team) \/ MayAdvanceAcross(auth))
=============================================================================
