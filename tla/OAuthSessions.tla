---------------------------- MODULE OAuthSessions ----------------------------
(***************************************************************************)
(* The OAuth client of one account (oauth/client.rs, oauth/token.rs,       *)
(* oauth/dpop.rs, oauth/session.rs): authorize, callback, get_session with *)
(* its refresh under the lock, and sign_out, called concurrently by        *)
(* Callers, over a session store, a state store and a DPoP nonce store,    *)
(* against an authorization server that demands its latest nonce and       *)
(* accepts a code and each refresh token once.                             *)
(*                                                                         *)
(* A grant is what one authorization yields; its tokens are numbered by    *)
(* the refresh that produced them.  Requests and answers may be lost, the  *)
(* stores may fail, issuer verification may fail, and the process may      *)
(* crash, with stores that survive it or not.                              *)
(***************************************************************************)
EXTENDS Naturals, FiniteSets

CONSTANTS
  Callers,          \* concurrent calls into the client
  MaxGrants,        \* bound on calls of authorize
  MaxNumber,        \* bound on the refreshes of a grant
  MaxEpoch,         \* bound on the server's nonces
  MaxOAuthFaults,   \* bound on lost messages, store failures and crashes
  NoSession,        \* the store has no session
  Nobody            \* the refresh lock is free

ASSUME OAuthAssumption ==
  /\ MaxGrants \in Nat /\ MaxNumber \in Nat \ {0}
  /\ MaxEpoch \in Nat \ {0} /\ MaxOAuthFaults \in Nat
  /\ Nobody \notin Callers

VARIABLES
  grants,     \* the server's record of each grant: tokens issued, revoked
  epoch,      \* the nonce the server demands
  session,    \* SessionStore: the account's session
  states,     \* StateStore: the authorizations waiting for their callback
  approved,   \* the grants whose PAR the server accepted
  begun,      \* calls of authorize
  nonce,      \* NonceStore: the nonce known for the server, 0 = none
  refreshLock,\* refresh_locks
  call,       \* where each caller is
  replayed,   \* refresh tokens presented after they were used up
  orphaned,   \* used tokens whose successor a fault destroyed
  out,        \* sign_out deleted the session and nobody signed in since
  raced,      \* a session write fell into another call's read-to-write window
  oauthFaults \* faults so far

oauthVars == <<grants, epoch, session, states, approved, begun, nonce,
               refreshLock, call, replayed, orphaned, out, raced, oauthFaults>>

Grants == 1..MaxGrants

(* A token set: its grant, its number, whether it came with a refresh token *)
(* and whether is_stale() holds by now.                                     *)
TokenSets == [grant : Grants, number : 1..MaxNumber,
              renewable : BOOLEAN, stale : BOOLEAN]

ASSUME SessionAssumption == NoSession \notin TokenSets

Returned == [pc |-> "returned"]

Requests == {"par", "exchange", "refresh"}

(* The answers that carry tokens, with a refresh token and without. *)
TokenAnswers == {"renewable", "final"}
Answers == TokenAnswers \cup {"none", "accepted", "refused", "use_dpop_nonce"}

(* parse_token_response: the tokens an answer to request r carries. *)
Tokens(r) ==
  [grant |-> r.grant, number |-> IF r.what = "refresh" THEN r.number + 1 ELSE 1,
   renewable |-> r.answer = "renewable", stale |-> FALSE]

(* The pcs of a call that holds a token set it has not stored yet. *)
Holding == {"check", "undo", "old", "supersede", "clear", "store", "save"}

(* The pcs between a call's read of the session and its write. *)
InWindow(c) ==
  \/ call[c].pc \in {"verify", "old", "supersede", "clear", "store", "save",
                     "revoke", "delete"}
  \/ call[c].pc \in {"sent", "answered", "retry"} /\ call[c].what = "refresh"

Races(c) == \E d \in Callers \ {c} : InWindow(d)

(* A fault of the network, of a store or of the process, counted. *)
OAuthFault == oauthFaults < MaxOAuthFaults /\ oauthFaults' = oauthFaults + 1

(* The call returns, with a value or an error; the lock guard is dropped. *)
Return(c) ==
  /\ call' = [call EXCEPT ![c] = Returned]
  /\ refreshLock' = IF refreshLock = c THEN Nobody ELSE refreshLock

Goto(c, state) == call' = [call EXCEPT ![c] = state] /\ UNCHANGED refreshLock

(* post_token_request and the PAR request of authorize: the proof carries   *)
(* the nonce known now; what is asked for `grant` with token `number`.      *)
Posted(what, grant, number, tries, known) ==
  [pc |-> "sent", what |-> what, grant |-> grant, number |-> number,
   tries |-> tries, nonce |-> known, answer |-> "none"]

-----------------------------------------------------------------------------
(* The authorization server (external). Every answer carries its nonce. *)

RotateNonce ==
  /\ epoch < MaxEpoch
  /\ epoch' = epoch + 1
  /\ UNCHANGED <<grants, session, states, approved, begun, nonce, refreshLock,
                 call, replayed, orphaned, out, raced, oauthFaults>>

Answer(c, answer) ==
  Goto(c, [call[c] EXCEPT !.pc = "answered", !.answer = answer, !.nonce = epoch])

Issue(c) ==
  /\ grants' = [grants EXCEPT ![call[c].grant].issued = @ + 1]
  /\ \E answer \in TokenAnswers : Answer(c, answer)

(* The server handles a request: it demands its latest nonce, accepts a     *)
(* code once and each refresh token once, and refuses a revoked grant.      *)
Serve(c) ==
  LET r == call[c]  g == grants[r.grant] IN
  /\ r.pc = "sent"
  /\ \/ /\ r.nonce # epoch
        /\ Answer(c, "use_dpop_nonce")
        /\ UNCHANGED <<grants, approved, replayed>>
     \/ /\ r.nonce = epoch /\ r.what = "par"
        /\ approved' = approved \cup {r.grant}
        /\ Answer(c, "accepted")
        /\ UNCHANGED <<grants, replayed>>
     \/ /\ r.nonce = epoch /\ r.what = "exchange"
        /\ IF g.issued = 0
           THEN Issue(c)
           ELSE Answer(c, "refused") /\ UNCHANGED grants
        /\ UNCHANGED <<approved, replayed>>
     \/ /\ r.nonce = epoch /\ r.what = "refresh"
        /\ IF g.issued = r.number /\ ~g.revoked
           THEN Issue(c)
           ELSE Answer(c, "refused") /\ UNCHANGED grants
        /\ replayed' = IF r.number < g.issued
                       THEN replayed \cup {<<r.grant, r.number>>} ELSE replayed
        /\ UNCHANGED approved
  /\ UNCHANGED <<epoch, session, states, begun, nonce, orphaned, out, raced,
                 oauthFaults>>

(* revoke_token: one request without a nonce retry, every error ignored.    *)
(* It reaches the server, which ends the grant, or a fault stops it.        *)
Revoke(grant) ==
  \/ /\ grants' = [grants EXCEPT ![grant].revoked = TRUE]
     /\ UNCHANGED oauthFaults
  \/ OAuthFault /\ UNCHANGED grants

(* Time passes: is_stale() of the stored session becomes true. *)
Expire ==
  /\ session # NoSession /\ ~session.stale /\ session.number < MaxNumber
  /\ session' = [session EXCEPT !.stale = TRUE]
  /\ UNCHANGED <<grants, epoch, states, approved, begun, nonce, refreshLock,
                 call, replayed, orphaned, out, raced, oauthFaults>>

-----------------------------------------------------------------------------
(* Requests, common to the three endpoints. *)

(* The token used up by a refresh whose successor is lost with call c. *)
LostSuccessor(c) ==
  IF /\ call[c].pc = "answered" /\ call[c].what = "refresh"
     /\ call[c].answer \in TokenAnswers
  THEN {<<call[c].grant, call[c].number>>}
  ELSE IF call[c].pc = "save"
  THEN {<<call[c].tokens.grant, call[c].tokens.number - 1>>}
  ELSE {}

(* The request, or its answer, is lost, or the answer cannot be used        *)
(* (parse_token_response fails, the refresh names another sub); one that    *)
(* arrived leaves its nonce.                                                *)
Lose(c) ==
  /\ call[c].pc \in {"sent", "answered"}
  /\ OAuthFault
  /\ orphaned' = orphaned \cup LostSuccessor(c)
  /\ nonce' \in {nonce} \cup (IF call[c].pc = "answered" THEN {call[c].nonce} ELSE {})
  /\ Return(c)
  /\ UNCHANGED <<grants, epoch, session, states, approved, begun,
                 replayed, out, raced>>

(* The answer arrives: its DPoP-Nonce is stored; use_dpop_nonce is retried  *)
(* once; an error returns; tokens are checked or saved.                     *)
Receive(c) ==
  LET r == call[c] IN
  /\ r.pc = "answered"
  /\ nonce' = r.nonce
  /\ \/ /\ r.answer = "use_dpop_nonce" /\ r.tries = 1
        /\ Goto(c, [r EXCEPT !.pc = "retry", !.answer = "none"])
     \/ /\ \/ r.answer = "use_dpop_nonce" /\ r.tries = 2
           \/ r.answer \in {"accepted", "refused"}
        /\ Return(c)
     \/ /\ r.answer \in TokenAnswers
        /\ Goto(c, [pc |-> IF r.what = "refresh" THEN "save" ELSE "check",
                    tokens |-> Tokens(r)])
  /\ UNCHANGED <<grants, epoch, session, states, approved, begun, replayed,
                 orphaned, out, raced, oauthFaults>>

Retry(c) ==
  /\ call[c].pc = "retry"
  /\ Goto(c, Posted(call[c].what, call[c].grant, call[c].number, 2, nonce))
  /\ UNCHANGED <<grants, epoch, session, states, approved, begun, nonce,
                 replayed, orphaned, out, raced, oauthFaults>>

-----------------------------------------------------------------------------
(* authorize and callback. *)

(* authorize: the state is stored before the PAR request is sent, and stays *)
(* when that fails.                                                         *)
Authorize(c) ==
  /\ call[c].pc = "returned" /\ begun < MaxGrants
  /\ begun' = begun + 1
  /\ states' = states \cup {begun + 1}
  /\ Goto(c, Posted("par", begun + 1, 0, 1, nonce))
  /\ UNCHANGED <<grants, epoch, session, approved, nonce, replayed, orphaned,
                 out, raced, oauthFaults>>

(* callback, which the browser may repeat: take() removes the state, then   *)
(* the issuer parameter is compared, then the code is exchanged.            *)
Callback(c, g) ==
  /\ call[c].pc = "returned" /\ g \in approved
  /\ g \in states
  /\ states' = states \ {g}
  /\ \/ Goto(c, Posted("exchange", g, 0, 1, nonce))
     \/ Return(c)
  /\ UNCHANGED <<grants, epoch, session, approved, begun, nonce, replayed,
                 orphaned, out, raced, oauthFaults>>

(* verify_issuer_resolve_pds after the exchange. *)
VerifyIssuer(c) ==
  /\ call[c].pc = "check"
  /\ \E next \in {"old", "undo"} : Goto(c, [call[c] EXCEPT !.pc = next])
  /\ UNCHANGED <<grants, epoch, session, states, approved, begun, nonce,
                 replayed, orphaned, out, raced, oauthFaults>>

(* The issuer is not the account's: the new token is revoked. *)
Undo(c) ==
  /\ call[c].pc = "undo"
  /\ Revoke(call[c].tokens.grant)
  /\ Return(c)
  /\ UNCHANGED <<epoch, session, states, approved, begun, nonce, replayed,
                 orphaned, out, raced>>

(* The session that the new one supersedes is read and its token revoked;   *)
(* one that cannot be read is passed over.                                  *)
ReadOld(c) ==
  /\ call[c].pc = "old"
  /\ \/ /\ \/ session = NoSession /\ UNCHANGED oauthFaults
           \/ OAuthFault
        /\ Goto(c, [call[c] EXCEPT !.pc = "clear"])
     \/ /\ session # NoSession
        /\ Goto(c, [pc |-> "supersede", tokens |-> call[c].tokens,
                    old |-> session.grant])
        /\ UNCHANGED oauthFaults
  /\ UNCHANGED <<grants, epoch, session, states, approved, begun, nonce,
                 replayed, orphaned, out, raced>>

(* Mutant: the replaced session is not revoked. *)
SupersedeKeepsOld(c) ==
  /\ call[c].pc = "supersede"
  /\ Goto(c, [pc |-> "clear", tokens |-> call[c].tokens])
  /\ UNCHANGED <<grants, epoch, session, states, approved, begun, nonce,
                 replayed, orphaned, out, raced, oauthFaults>>

Supersede(c) ==
  /\ call[c].pc = "supersede"
  /\ Revoke(call[c].old)
  /\ Goto(c, [pc |-> "clear", tokens |-> call[c].tokens])
  /\ UNCHANGED <<epoch, session, states, approved, begun, nonce, replayed,
                 orphaned, out, raced>>

(* sessions.delete, whose error is ignored. *)
Clear(c) ==
  /\ call[c].pc = "clear"
  /\ \/ session' = NoSession /\ UNCHANGED oauthFaults
     \/ OAuthFault /\ UNCHANGED session
  /\ raced' = (raced \/ Races(c))
  /\ Goto(c, [call[c] EXCEPT !.pc = "store"])
  /\ UNCHANGED <<grants, epoch, states, approved, begun, nonce, replayed,
                 orphaned, out>>

Store(c) ==
  /\ call[c].pc = "store"
  /\ \/ /\ session' = call[c].tokens
        /\ out' = FALSE
        /\ UNCHANGED oauthFaults
     \/ OAuthFault /\ UNCHANGED <<session, out>>
  /\ raced' = (raced \/ Races(c))
  /\ Return(c)
  /\ UNCHANGED <<grants, epoch, states, approved, begun, nonce, replayed,
                 orphaned>>

-----------------------------------------------------------------------------
(* get_session and sign_out. *)

(* A missing, fresh or unrenewable session returns at once; a stale one     *)
(* waits for the refresh lock.                                              *)
GetSession(c) ==
  /\ call[c].pc = "returned"
  /\ session # NoSession /\ session.stale /\ session.renewable
  /\ Goto(c, [pc |-> "wait", seen |-> session])
  /\ UNCHANGED <<grants, epoch, session, states, approved, begun, nonce,
                 replayed, orphaned, out, raced, oauthFaults>>

(* Mutant: the copy read before the lock is used. *)
LockKeepsCopy(c) ==
  /\ call[c].pc = "wait" /\ refreshLock = Nobody
  /\ refreshLock' = c
  /\ call' = [call EXCEPT ![c] = [pc |-> "verify", tokens |-> call[c].seen]]
  /\ UNCHANGED <<grants, epoch, session, states, approved, begun, nonce,
                 replayed, orphaned, out, raced, oauthFaults>>

(* The lock is taken and the session read again: another call may have      *)
(* refreshed or deleted it.                                                 *)
LockAndReread(c) ==
  /\ call[c].pc = "wait" /\ refreshLock = Nobody
  /\ IF session = NoSession \/ ~session.stale
     THEN Return(c)
     ELSE /\ refreshLock' = c
          /\ call' = [call EXCEPT ![c] = [pc |-> "verify", tokens |-> session]]
  /\ UNCHANGED <<grants, epoch, session, states, approved, begun, nonce,
                 replayed, orphaned, out, raced, oauthFaults>>

(* The issuer is verified again, then refresh_token posts the refresh       *)
(* token; without one it fails.                                             *)
Refresh(c) ==
  /\ call[c].pc = "verify"
  /\ \/ /\ call[c].tokens.renewable
        /\ Goto(c, Posted("refresh", call[c].tokens.grant,
                          call[c].tokens.number, 1, nonce))
     \/ Return(c)
  /\ UNCHANGED <<grants, epoch, session, states, approved, begun, nonce,
                 replayed, orphaned, out, raced, oauthFaults>>

(* sessions.set of the refreshed tokens. *)
Save(c) ==
  /\ call[c].pc = "save"
  /\ \/ /\ session' = call[c].tokens
        /\ UNCHANGED <<oauthFaults, orphaned>>
     \/ /\ OAuthFault
        /\ orphaned' = orphaned \cup LostSuccessor(c)
        /\ UNCHANGED session
  /\ raced' = (raced \/ Races(c))
  /\ Return(c)
  /\ UNCHANGED <<grants, epoch, states, approved, begun, nonce, replayed, out>>

(* sign_out: read, revoke best-effort, delete. It takes no lock. *)
SignOut(c) ==
  /\ call[c].pc = "returned"
  /\ Goto(c, IF session = NoSession THEN [pc |-> "delete"]
             ELSE [pc |-> "revoke", grant |-> session.grant])
  /\ UNCHANGED <<grants, epoch, session, states, approved, begun, nonce,
                 replayed, orphaned, out, raced, oauthFaults>>

SignOutRevoke(c) ==
  /\ call[c].pc = "revoke"
  /\ Revoke(call[c].grant)
  /\ Goto(c, [pc |-> "delete"])
  /\ UNCHANGED <<epoch, session, states, approved, begun, nonce, replayed,
                 orphaned, out, raced>>

SignOutDelete(c) ==
  /\ call[c].pc = "delete"
  /\ \/ /\ session' = NoSession
        /\ out' = TRUE
        /\ UNCHANGED oauthFaults
     \/ OAuthFault /\ UNCHANGED <<session, out>>
  /\ raced' = (raced \/ Races(c))
  /\ Return(c)
  /\ UNCHANGED <<grants, epoch, states, approved, begun, nonce, replayed,
                 orphaned>>

(* The process restarts: calls, lock and nonces are gone; the stores        *)
(* survive when they are durable, not when they are the in-memory ones.     *)
Restarts ==
  /\ OAuthFault
  /\ orphaned' = orphaned \cup UNION {LostSuccessor(c) : c \in Callers}
  /\ call' = [c \in Callers |-> Returned]
  /\ refreshLock' = Nobody /\ nonce' = 0
  /\ \/ UNCHANGED <<session, states>>
     \/ session' = NoSession /\ states' = {}
  /\ UNCHANGED <<grants, epoch, approved, begun, replayed, out, raced>>

-----------------------------------------------------------------------------
OAuthInit ==
  /\ grants = [g \in Grants |-> [issued |-> 0, revoked |-> FALSE]]
  /\ epoch = 1 /\ nonce = 0
  /\ session = NoSession /\ states = {} /\ approved = {} /\ begun = 0
  /\ refreshLock = Nobody /\ call = [c \in Callers |-> Returned]
  /\ replayed = {} /\ orphaned = {} /\ out = FALSE /\ raced = FALSE
  /\ oauthFaults = 0

CallStep(c) ==
  \/ Authorize(c) \/ VerifyIssuer(c) \/ Undo(c) \/ ReadOld(c) \/ Supersede(c)
  \/ Clear(c) \/ Store(c) \/ \E g \in Grants : Callback(c, g)
  \/ GetSession(c) \/ LockAndReread(c) \/ Refresh(c) \/ Save(c)
  \/ SignOut(c) \/ SignOutRevoke(c) \/ SignOutDelete(c)
  \/ Receive(c) \/ Retry(c)

OAuthNext ==
  \/ \E c \in Callers : CallStep(c) \/ Serve(c) \/ Lose(c)
  \/ RotateNonce \/ Expire \/ Restarts

OAuthSpec == OAuthInit /\ [][OAuthNext]_oauthVars

-----------------------------------------------------------------------------
(* Properties. *)

(* The state has its type, and the lock is held exactly by the call that is *)
(* refreshing.                                                              *)
OAuthTypeOK ==
  /\ grants \in [Grants -> [issued : 0..MaxNumber, revoked : BOOLEAN]]
  /\ epoch \in 1..MaxEpoch /\ nonce \in 0..epoch
  /\ session \in TokenSets \cup {NoSession}
  /\ states \subseteq Grants /\ approved \subseteq 1..begun
  /\ refreshLock \in Callers \cup {Nobody}
  /\ \A c \in Callers :
       (refreshLock = c) <=>
         \/ call[c].pc \in {"verify", "save"}
         \/ call[c].pc \in {"sent", "answered", "retry"} /\ call[c].what = "refresh"

(* get_session's doc: the lock is there "to prevent concurrent refresh of   *)
(* single-use refresh tokens".  A used refresh token is presented again     *)
(* only if its successor was destroyed by a lost answer, a failed store or  *)
(* a restart, whatever sign-outs, sign-ins and refreshes overlap.           *)
RefreshTokenUsedOnce == replayed \subseteq orphaned

(* The comment on callback: take() prevents "a race where two concurrent    *)
(* callbacks with the same state both succeed".  No two calls exchange the  *)
(* same code, and none can start to once the server has seen it.            *)
CodeRedeemedOnce ==
  /\ \A g \in states : grants[g].issued = 0
  /\ \A c, d \in Callers :
       /\ c # d
       /\ call[c].pc \in {"sent", "answered", "retry"} /\ call[c].what = "exchange"
       /\ call[d].pc \in {"sent", "answered", "retry"} /\ call[d].what = "exchange"
       => call[c].grant # call[d].grant

(* Single-use credentials, refresh tokens and codes, are spent once,        *)
(* whatever calls overlap.                                                  *)
SpentOnce == RefreshTokenUsedOnce /\ CodeRedeemedOnce

(* sign_out deletes the session for good: without a new sign-in it comes    *)
(* back only when a write fell into another call's read-to-write window (a  *)
(* refresh already under way).                                              *)
SignedOutStaysOut == out /\ ~raced => session = NoSession

(* The comment on callback: revoking the old token "avoids leaving a live   *)
(* credential behind".  A grant the server honours is the stored one or in  *)
(* the hands of a call, unless a fault or overlapping writers lost it.      *)
NoStrayGrant ==
  raced \/ oauthFaults > 0 \/
  \A g \in Grants :
    grants[g].issued > 0 /\ ~grants[g].revoked =>
      \/ session # NoSession /\ session.grant = g
      \/ \E c \in Callers :
           \/ call[c].pc \in Holding /\ call[c].tokens.grant = g
           \/ call[c].pc = "answered" /\ call[c].grant = g

(* Nothing outlives the session it belongs to: neither the session a        *)
(* sign-out, nor a grant the session that replaced it.                      *)
NothingOutlives == SignedOutStaysOut /\ NoStrayGrant
=============================================================================
