------------------------------- MODULE ApiKeys --------------------------------
(***************************************************************************)
(* Authentication and access of API calls (crates/api/src/auth.rs,         *)
(* crates/repository/src/auth.rs).  The middleware looks a key up by its   *)
(* hash and then records its use; the key may be revoked in between, and   *)
(* after it.  Handlers check the scope and the project afterwards.         *)
(***************************************************************************)
CONSTANTS
    Keys,           \* api_keys.id; a token that hashes to none is no key
    Tenants,        \* projects
    AdminToken,     \* the bootstrap token
    UnknownToken,   \* a token with no row
    NoTenant,
    Calls           \* API calls

ASSUME KeyAssumption ==
    /\ AdminToken \notin Keys
    /\ UnknownToken \notin Keys
    /\ NoTenant \notin Tenants

Scope == {"project_read", "project_write", "debug_create", "admin"}

VARIABLES
    apiKey,     \* api_keys: project, scopes, revoked, used
    call,       \* per call: how far it is, its token, its context
    late        \* ghost: pairs of a key and a call not admitted by it when it
                \* was revoked

keyVars == <<apiKey, call, late>>

NoCall == [at |-> "idle", token |-> UnknownToken, tenant |-> NoTenant,
           scopes |-> {}, needs |-> "admin", target |-> NoTenant]

\* create_project_with_api_key, create_api_key: a key has at least one scope.
CreatedKeys ==
    [Keys -> [tenant : Tenants, scopes : (SUBSET Scope) \ {{}},
              revoked : {FALSE}, used : {FALSE}]]

KeyInit ==
    /\ apiKey \in CreatedKeys
    /\ call = [c \in Calls |-> NoCall]
    /\ late = {}

Refuse(c) == call' = [call EXCEPT ![c] = [NoCall EXCEPT !.at = "refused"]]

\* bearer_token and the comparison with the bootstrap token, then
\* find_api_key_by_hash.  The bootstrap identity has no project.
Authenticate(c, token, needs, target) ==
    /\ call[c].at = "idle"
    /\ CASE token = AdminToken ->
              call' = [call EXCEPT ![c] =
                [at |-> "handler", token |-> token, tenant |-> NoTenant,
                 scopes |-> {"admin"}, needs |-> needs, target |-> target]]
         [] token \in Keys /\ ~apiKey[token].revoked ->
              call' = [call EXCEPT ![c] =
                [at |-> "touch", token |-> token, tenant |-> NoTenant,
                 scopes |-> {}, needs |-> needs, target |-> target]]
         [] OTHER -> Refuse(c)
    /\ UNCHANGED <<apiKey, late>>

\* Fault: the use is recorded whether or not the key was revoked meanwhile.
FaultTouchesRevoked(key) == TRUE

\* UPDATE ... WHERE id = $1 AND revoked_at IS NULL.
Touchable(key) == ~apiKey[key].revoked

\* touch_api_key_last_used: no row, no context.
Touch(c) ==
    LET key == call[c].token
    IN  /\ call[c].at = "touch"
        /\ IF Touchable(key)
           THEN /\ apiKey' = [apiKey EXCEPT ![key].used = TRUE]
                /\ call' = [call EXCEPT ![c].at = "handler",
                                        ![c].tenant = apiKey[key].tenant,
                                        ![c].scopes = apiKey[key].scopes]
           ELSE Refuse(c) /\ UNCHANGED apiKey
        /\ UNCHANGED late

\* require_scope, then require_project or require_owned_resource where the call
\* is about a project: the one its body names or the owner of the row it loads.
Handle(c) ==
    /\ call[c].at = "handler"
    /\ IF /\ call[c].needs \in call[c].scopes
          /\ call[c].target \in {NoTenant, call[c].tenant}
       THEN call' = [call EXCEPT ![c].at = "served"]
       ELSE Refuse(c)
    /\ UNCHANGED <<apiKey, late>>

\* revoke_api_key keeps the first revocation.
Revoke(key) ==
    /\ ~apiKey[key].revoked
    /\ apiKey' = [apiKey EXCEPT ![key].revoked = TRUE]
    /\ late' = late \cup {<<key, c>> : c \in {d \in Calls :
                 \/ call[d].at = "idle"
                 \/ call[d].at = "touch" /\ call[d].token = key}}
    /\ UNCHANGED call

\* Calls that need the admin scope name no project; every other one does.
KeyNext ==
    \/ \E c \in Calls, token \in Keys \cup {AdminToken, UnknownToken} :
        \/ Authenticate(c, token, "admin", NoTenant)
        \/ \E needs \in Scope \ {"admin"}, target \in Tenants :
             Authenticate(c, token, needs, target)
    \/ \E c \in Calls : Touch(c) \/ Handle(c)
    \/ \E key \in Keys : Revoke(key)

KeySpec == KeyInit /\ [][KeyNext]_keyVars

-------------------------------------------------------------------------------
(* Properties.                                                             *)

\* A call that is served had the scope it needed, of a key of the project it
\* touched; that key's use was recorded; and the key was not revoked before
\* the call was admitted, even between its lookup and the update.
OnlyEntitledServed ==
    \A c \in Calls : call[c].at = "served" =>
        LET key == call[c].token
        IN  /\ call[c].target # NoTenant =>
                 /\ key \in Keys
                 /\ apiKey[key].tenant = call[c].target
            /\ key \in Keys =>
                 /\ call[c].needs \in apiKey[key].scopes
                 /\ apiKey[key].used
                 /\ <<key, c>> \notin late
=============================================================================
