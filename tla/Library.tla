------------------------------- MODULE Library -------------------------------
(***************************************************************************)
(* The OAuth client, the identity directory, the resync limiter and the    *)
(* TID clock, which share no state: each behaviour exercises the component *)
(* in focus, and the others stay at their initial states.                  *)
(***************************************************************************)
EXTENDS OAuthSessions, IdentityDirectory, ResyncLimiter, TidClock

VARIABLE focus

libVars == <<oauthVars, dirVars, limiterVars, tidVars, focus>>

LibInit ==
  /\ focus \in {"oauth", "directory", "limiter", "tid"}
  /\ OAuthInit /\ DirInit /\ LimiterInit /\ TidInit

LibNext ==
  /\ \/ focus = "oauth" /\ OAuthNext /\ UNCHANGED <<dirVars, limiterVars, tidVars>>
     \/ focus = "directory" /\ DirNext /\ UNCHANGED <<oauthVars, limiterVars, tidVars>>
     \/ focus = "limiter" /\ LimiterNext /\ UNCHANGED <<oauthVars, dirVars, tidVars>>
     \/ focus = "tid" /\ TidNext /\ UNCHANGED <<oauthVars, dirVars, limiterVars>>
  /\ UNCHANGED focus

LibSpec == LibInit /\ [][LibNext]_libVars

(* The states have their types: the lock of the refresh has its holder, the *)
(* identity cache and the limiter's map stay within their capacities, and   *)
(* no TID leaves its range.                                                 *)
LibTypeOK == OAuthTypeOK /\ DirTypeOK /\ LimiterTypeOK /\ TidTypeOK
=============================================================================
