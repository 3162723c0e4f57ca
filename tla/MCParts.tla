------------------------------- MODULE MCParts --------------------------------
(* The parts of the scheduler process and of the API that have a question  *)
(* of their own, for TLC.  They share no row that two of them write, and no*)
(* property relates two of them, so a behaviour exercises one part while   *)
(* the others rest: the run explores the sum of their states, not the      *)
(* product.                                                                *)
EXTENDS FairQueue, ControlPlane, Topology, Settings,
        Transactions, EventStream, DebugSessions, ApiKeys, Paging, TLC

CONSTANTS
    p1, p2, p3, h1, h2, l1, l2, l3,
    c1, c2, e1, w1, w2, s1, s2, s3, k1, a1, a2

VARIABLE part

-------------------------------------------------------------------------------
(* The scheduler process.                                                  *)

\* Two projects with work in both lanes, one of them with two interactive jobs,
\* and a third with interactive work only.
MCLaneOf ==
    [j \in Jobs |-> IF j \in {2, 5} THEN "batch" ELSE "interactive"]
MCProjectOf ==
    [j \in Jobs |-> CASE j \in {1, 2, 3} -> p1 [] j \in {4, 5} -> p2 [] OTHER -> p3]

\* The worker reports once it has finished, or first without its cleanup.
MCClaims == {{"artifacts_finalized"}, Evidence}

\* An upgrade that changes settings, and a process whose settings are refused.
MCSettings == (l1 :> "old") @@ (l2 :> "new") @@ (l3 :> "zero")

schedulerVars == <<vars, controlVars, topologyVars>>

SchedulerNext ==
    \/ part = "queue" /\ Next /\ UNCHANGED <<controlVars, topologyVars>>
    \/ part = "control" /\ ControlNext /\ UNCHANGED <<vars, topologyVars>>
    \/ part = "topology" /\ TopologyNext /\ UNCHANGED <<vars, controlVars>>

-------------------------------------------------------------------------------
(* The API and the transactions under it.                                  *)

OneKeyTwice == <<"first", "first", "second">>

\* Rows that share an instant, and rows that do not.
MCRowKeys == {<<1, 1>>, <<1, 2>>, <<1, 3>>, <<2, 1>>, <<2, 2>>}

apiVars == <<txVars, streamVars, sessionVars, keyVars, pagingVars>>

ApiNext ==
    \/ /\ part = "transactions"
       /\ TransactionsNext
       /\ UNCHANGED <<streamVars, sessionVars, keyVars, pagingVars>>
    \/ /\ part = "stream"
       /\ StreamNext
       /\ UNCHANGED <<txVars, sessionVars, keyVars, pagingVars>>
    \/ /\ part = "sessions"
       /\ SessionNext
       /\ UNCHANGED <<txVars, streamVars, keyVars, pagingVars>>
    \/ /\ part = "keys"
       /\ KeyNext
       /\ UNCHANGED <<txVars, streamVars, sessionVars, pagingVars>>
    \/ /\ part = "paging"
       /\ PagingNext
       /\ UNCHANGED <<txVars, streamVars, sessionVars, keyVars>>

-------------------------------------------------------------------------------
Parts == {"queue", "control", "topology",
          "transactions", "stream", "sessions", "keys", "paging"}

\* Where a part has several initial states, one will do while it rests.
PartsInit ==
    /\ part \in Parts
    /\ Init
    /\ ControlInit
    /\ TopologyInit
    /\ TransactionsInit
    /\ StreamInit
    /\ SessionInit
    /\ KeyInit
    /\ PagingInit
    /\ part # "topology" => \A i \in DOMAIN server : server[i] = Missing
    /\ part # "keys" => apiKey = CHOOSE table \in CreatedKeys : TRUE
    /\ part # "paging" => listed = {}

PartsNext ==
    /\ UNCHANGED part
    /\ \/ SchedulerNext /\ UNCHANGED apiVars
       \/ ApiNext /\ UNCHANGED schedulerVars

PartsSpec == PartsInit /\ [][PartsNext]_<<part, schedulerVars, apiVars>>

\* Two handlers of the control plane are alike, and so are two workers and two
\* heartbeats; handlers and heartbeats, of different parts, share their names.
Symmetry == Permutations({h1, h2}) \cup Permutations({w1, w2})

===============================================================================
