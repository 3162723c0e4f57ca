---------------------------- MODULE DebugSessions -----------------------------
(***************************************************************************)
(* Debug sessions of one job (crates/api/src/debug_sessions.rs,            *)
(* crates/repository/src/misc.rs).  The handler reads the job, computes    *)
(* the session's expiry from its own clock and only then runs the          *)
(* transaction that locks the job and inserts the row.  The reconciler     *)
(* ends sessions that expired, by its own clock, or whose job ended.       *)
(*                                                                         *)
(* The job leaves debug_available by ending, or by a recovery that puts it *)
(* back in the queue; a later attempt may offer debugging again.  Its      *)
(* started_at, hence its deadline, is that of the first attempt.           *)
(***************************************************************************)
EXTENDS Integers

CONSTANTS
    SessionCalls,   \* POST /jobs/{id}/debug-sessions; a session is its call
    Deadline,       \* started_at + timeout_seconds
    TokenTtl,       \* debug_token_ttl
    MinLifetime,    \* MINIMUM_TOKEN_LIFETIME
    HostSkew,       \* how far a process's clock may be from the database's
    LastTime        \* bound on time, for model checking only

ASSUME SessionAssumption ==
    /\ Deadline \in Nat
    /\ TokenTtl \in Nat
    /\ MinLifetime \in Nat
    /\ HostSkew \in Nat

VARIABLES
    dbTime,     \* clock_timestamp()
    jobState,   \* the job: debug_available, otherwise active, or ended
    session,    \* debug_sessions, by call
    sessionCall \* per call, its expiry once it is computed

sessionVars == <<dbTime, jobState, session, sessionCall>>

NoSession == [stage |-> "none", expires |-> 0, audits |-> 0]

SessionInit ==
    /\ dbTime = 0
    /\ jobState = "active"
    /\ session = [c \in SessionCalls |-> NoSession]
    /\ sessionCall = [c \in SessionCalls |-> [at |-> "idle", expires |-> 0]]

HostTime == {n \in 0 .. (dbTime + HostSkew) : n + HostSkew >= dbTime}

Unended == {c \in SessionCalls : session[c].stage = "open"}

-------------------------------------------------------------------------------
(* The job, and time.                                                      *)

\* Transitions of the worker and recoveries (see JobStore).
JobMoves(to) ==
    /\ jobState # "ended"
    /\ to # jobState
    /\ jobState' = to
    /\ UNCHANGED <<dbTime, session, sessionCall>>

SessionTick ==
    /\ dbTime < LastTime
    /\ dbTime' = dbTime + 1
    /\ UNCHANGED <<jobState, session, sessionCall>>

-------------------------------------------------------------------------------
(* create_debug_session.                                                   *)

Smaller(a, b) == IF a < b THEN a ELSE b

\* The expiry: the job's deadline or the token's, whichever is earlier.
SessionExpiry(now) == Smaller(Deadline, now + TokenTtl)

\* get_job, the state check and the expiry, from the API's clock.
Prepare(c, now) ==
    /\ sessionCall[c].at = "idle"
    /\ jobState = "debug_available"
    /\ SessionExpiry(now) >= now + MinLifetime
    /\ sessionCall' =
         [sessionCall EXCEPT ![c] = [at |-> "begin", expires |-> SessionExpiry(now)]]
    /\ UNCHANGED <<dbTime, jobState, session>>

\* Fault: the state read before the transaction is trusted.
FaultTrustsRead == TRUE

\* lock_debug_session_job, and the state of the locked row.
StillDebuggable == jobState = "debug_available"

\* end_expired_debug_session: an expired session of the job makes room for the
\* new one.  It writes no audit entry.
WithoutExpired ==
    [c \in SessionCalls |->
        IF c \in Unended /\ session[c].expires <= dbTime
        THEN [session[c] EXCEPT !.stage = "ended"]
        ELSE session[c]]

\* The transaction: the job's lock is held to the end, the unique index admits
\* one unended session per job, and the expiry must lie ahead of the database.
CreateSession(c) ==
    LET expires == sessionCall[c].expires
        kept    == WithoutExpired
    IN  /\ sessionCall[c].at = "begin"
        /\ sessionCall' = [sessionCall EXCEPT ![c] = [at |-> "done", expires |-> 0]]
        /\ IF /\ StillDebuggable
              /\ \A d \in SessionCalls : kept[d].stage # "open"
              /\ expires > dbTime
           THEN session' = [kept EXCEPT ![c] =
                    [stage |-> "open", expires |-> expires, audits |-> 1]]
           ELSE UNCHANGED session
        /\ UNCHANGED <<dbTime, jobState>>

-------------------------------------------------------------------------------
(* The reconciler: end_expired_or_terminal_debug_sessions_with_audit.      *)

EndCandidates(now) ==
    {c \in Unended : session[c].expires <= now \/ jobState = "ended"}

\* Rows another transaction holds are skipped, so any part of the candidates
\* may be ended; each gets its audit entry in the same transaction.
EndSessions(now, some) ==
    /\ some # {}
    /\ some \subseteq EndCandidates(now)
    /\ session' = [c \in SessionCalls |->
         IF c \in some
         THEN [session[c] EXCEPT !.stage = "ended", !.audits = @ + 1]
         ELSE session[c]]
    /\ UNCHANGED <<dbTime, jobState, sessionCall>>

SessionNext ==
    \/ \E to \in {"active", "debug_available", "ended"} : JobMoves(to)
    \/ SessionTick
    \/ \E c \in SessionCalls :
        (\E now \in HostTime : Prepare(c, now)) \/ CreateSession(c)
    \/ \E now \in HostTime, some \in SUBSET SessionCalls : EndSessions(now, some)

SessionSpec == SessionInit /\ [][SessionNext]_sessionVars

-------------------------------------------------------------------------------
(* Properties.                                                             *)

\* A session opens only while its job offers debugging, never beside another
\* unended one and never beyond the job's deadline, although the handler read
\* the job long before the row is inserted; and it is closed only when it has
\* expired, by a clock that may run ahead by HostSkew, or when its job ended,
\* and once: "an ended session is never selected again".
SessionsGuarded ==
    [][\A c \in SessionCalls :
        /\ session[c].stage = "none" /\ session'[c].stage # "none" =>
              /\ jobState = "debug_available"
              /\ session'[c].expires > dbTime
              /\ session'[c].expires <= Deadline
              /\ \A d \in SessionCalls \ {c} : session'[d].stage # "open"
        /\ session[c].stage = "open" /\ session'[c].stage # "open" =>
              \/ session[c].expires <= dbTime + HostSkew
              \/ jobState = "ended"
        /\ session[c].stage = "ended" => session'[c] = session[c]]_sessionVars
=============================================================================
