------------------------------- MODULE Topology -------------------------------
(***************************************************************************)
(* Provisioning of the JetStream topology (crates/scheduler/src/           *)
(* topology.rs).  Every leader, before it works, brings three streams and  *)
(* two consumers to its settings, one after the other: each is created, or *)
(* read, compared and updated.  It may fail or crash in between, find the  *)
(* half-done work of a leader with other settings, or what an operator     *)
(* changed.                                                                *)
(*                                                                         *)
(* Of a resource's configuration the code tells three parts apart: what it *)
(* must never change ("purpose": retention, storage, subjects, ack and     *)
(* deliver policy, filter, ...), what it manages (two groups: "limits" and *)
(* "delivery") and the rest, which an update of a stream leaves as it was  *)
(* read and an update of a consumer resets.                                *)
(***************************************************************************)
EXTENDS Integers

CONSTANTS
    Provisioners,   \* scheduler processes
    SettingsOf,     \* per process, its TopologyConfig
    Rejected,       \* settings that validate_config refuses
    Drifted         \* resources that may differ at the start

\* Settings are values; "unset" is a field that a configuration leaves out.
ASSUME TopologyAssumption ==
    \A l \in Provisioners : SettingsOf[l] # "unset"

VARIABLES
    server,   \* per resource, its configuration on the NATS server
    prov      \* per process, how far it is and what it read

topologyVars == <<server, prov>>

\* The order of provision_topology.
Resources == <<"job_stream", "dlq_stream", "advisory_stream", "job_consumer",
               "advisory_consumer">>

Stream == {"job_stream", "dlq_stream", "advisory_stream"}

Missing == [purpose |-> "none", limits |-> "none", delivery |-> "none",
            rest |-> "default"]

\* desired_job_stream, desired_dlq_stream, desired_advisory_stream,
\* desired_job_consumer, desired_advisory_consumer.  The advisory stream's
\* duplicate window is left unset.
Desired(r, settings) ==
    [purpose |-> "as_built", limits |-> settings,
     delivery |-> IF r = "advisory_stream" THEN "unset" ELSE settings,
     rest |-> "default"]

\* The server writes its default where a request leaves the window unset.
Stored(config) ==
    [config EXCEPT !.delivery = IF @ = "unset" THEN "server_default" ELSE @]

AtRest == [at |-> 0, read |-> Missing, alone |-> FALSE]

\* Nothing yet; or the work of some earlier leader, one resource changed since.
TopologyInit ==
    /\ \/ server = [r \in DOMAIN Resources |-> Missing]
       \/ \E l \in {k \in Provisioners : SettingsOf[k] \notin Rejected}, i \in Drifted :
          \E changed \in [purpose : {"as_built", "other"},
                          limits : {SettingsOf[l], "other"},
                          delivery : {SettingsOf[l], "other"},
                          rest : {"default", "tuned"}] :
            server = [r \in DOMAIN Resources |->
                IF r = i THEN changed
                ELSE Stored(Desired(Resources[r], SettingsOf[l]))]
    /\ prov = [l \in Provisioners |-> AtRest]

-------------------------------------------------------------------------------

\* A write of l ends the solitude of every other process.
Write(l, i, config, next) ==
    /\ server' = [server EXCEPT ![i] = config]
    /\ prov' = [k \in Provisioners |-> IF k = l THEN next
                                       ELSE [prov[k] EXCEPT !.alone = FALSE]]

\* provision_topology begins; settings that do not validate end it there.
Begin(l) ==
    /\ prov[l].at \in {0, 11}
    /\ prov' = [prov EXCEPT ![l] =
          IF SettingsOf[l] \in Rejected THEN AtRest
          ELSE [at |-> 1, read |-> Missing, alone |-> TRUE]]
    /\ UNCHANGED server

\* Positions 2i - 1 and 2i are the two calls for resource i; 11 is the end.
Position(l) == (prov[l].at + 1) \div 2

Target(l) == Desired(Resources[Position(l)], SettingsOf[l])

\* get_or_create_stream, get_or_create_consumer.
GetOrCreate(l) ==
    LET i == Position(l)
        created == Stored(Target(l))
    IN  /\ prov[l].at \in {1, 3, 5, 7, 9}
        /\ \/ /\ server[i] = Missing
              /\ Write(l, i, created, [prov[l] EXCEPT !.at = @ + 1, !.read = created])
           \/ /\ server[i] # Missing
              /\ prov' = [prov EXCEPT ![l].at = @ + 1, ![l].read = server[i]]
              /\ UNCHANGED server

\* incompatible_if, over all the fields that must not change.
Incompatible(read, desired) == read.purpose # desired.purpose

\* Fault: the delivery settings are not looked at.
FaultLimitsOnly(read, desired) == read.limits # desired.limits

\* managed_equal of reconciled_stream_config; consumer_needs_update.
NeedsUpdate(read, desired) ==
    \/ read.limits # desired.limits
    \/ read.delivery # desired.delivery

\* The configuration update_stream and update_consumer send.
Updated(r, read, desired) ==
    IF r \in Stream THEN [desired EXCEPT !.purpose = read.purpose, !.rest = read.rest]
                    ELSE desired

\* The second half of ensure_stream and ensure_pull_consumer.
Reconcile(l) ==
    LET i == Position(l)
        read == prov[l].read
        next == [prov[l] EXCEPT !.at = @ + 1, !.read = Missing]
    IN  /\ prov[l].at \in {2, 4, 6, 8, 10}
        /\ \/ /\ Incompatible(read, Target(l))
              /\ prov' = [prov EXCEPT ![l] = AtRest]
              /\ UNCHANGED server
           \/ /\ ~Incompatible(read, Target(l))
              /\ NeedsUpdate(read, Target(l))
              /\ Write(l, i, Stored(Updated(Resources[i], read, Target(l))), next)
           \/ /\ ~Incompatible(read, Target(l))
              /\ ~NeedsUpdate(read, Target(l))
              /\ prov' = [prov EXCEPT ![l] = next]
              /\ UNCHANGED server

\* A call fails, or the process ends.
ProvisionFails(l) ==
    /\ prov[l].at \in 1 .. 10
    /\ prov' = [prov EXCEPT ![l] = AtRest]
    /\ UNCHANGED server

TopologyNext ==
    \E l \in Provisioners :
        Begin(l) \/ GetOrCreate(l) \/ Reconcile(l) \/ ProvisionFails(l)

TopologySpec == TopologyInit /\ [][TopologyNext]_topologyVars

-------------------------------------------------------------------------------
(* Properties.                                                             *)

\* A process that got through while no other wrote works on five resources that
\* are its own settings throughout, whatever half-done provisioning or change it
\* found; and nothing that serves another purpose passes for one of them.
ProvisionedAsDesired ==
    \A l \in Provisioners :
        (prov[l].at = 11 /\ prov[l].alone) =>
          \A i \in DOMAIN Resources :
            LET wanted == Stored(Desired(Resources[i], SettingsOf[l]))
            IN  [server[i] EXCEPT !.rest = "default"] = wanted

=============================================================================
