------------------------------- MODULE Settings -------------------------------
(***************************************************************************)
(* The settings of the scheduler (crates/scheduler/src/config.rs): which   *)
(* environments Config::from_map accepts, and the conditions that the      *)
(* parts it configures test again or silently rely on.  Constant operators *)
(* only; a setting that is absent from the environment has its default and *)
(* is a number of its record like any other.  Durations are whole seconds; *)
(* a value that does not parse into its Rust type never makes a record of  *)
(* SchedulerSettings.                                                      *)
(***************************************************************************)
EXTENDS Integers

CONSTANTS
    MaxU32,       \* u32::MAX
    MaxI64,       \* i64::MAX
    MaxUsize,     \* usize::MAX
    MaxSeconds    \* the longest chrono::Duration, in seconds

ASSUME WidthAssumption ==
    /\ MaxU32 \in Nat
    /\ MaxI64 \in Nat
    /\ MaxUsize \in Nat
    /\ MaxSeconds \in Nat

\* u64 seconds that duration_seconds lets through.
Seconds == 0 .. MaxSeconds

\* What from_map asks of a URL: its scheme, whether its host is loopback
\* (nats_endpoint_is_loopback) and whether it carries a user or password.
Endpoint == [scheme : STRING, host : {"none", "loopback", "remote"},
             login : BOOLEAN]

SchedulerSettings ==
    [nats : Endpoint, credentials_file : BOOLEAN, nkey_seed_file : BOOLEAN,
     client_cert : BOOLEAN, client_key : BOOLEAN,
     metrics_host : {"loopback", "remote"}, docker : Endpoint,
     worker_heartbeat : Seconds, stale_worker_threshold : Seconds,
     ack_wait : Seconds, database_lease_ttl : Seconds,
     reconciliation_interval : Seconds, reap_grace : Seconds,
     pull_batch_size : 0 .. MaxUsize, max_ack_pending : -MaxI64 .. MaxI64,
     buffer_size : 0 .. MaxUsize,
     job_stream_max_bytes : -MaxI64 .. MaxI64,
     dlq_stream_max_bytes : -MaxI64 .. MaxI64,
     advisory_stream_max_bytes : -MaxI64 .. MaxI64,
     stream_replicas : 0 .. MaxUsize, dlq_retention : Seconds,
     advisory_retention : Seconds,
     interactive_weight : 0 .. MaxUsize, batch_weight : 0 .. MaxUsize,
     batch_aging : Seconds, max_run_attempts : 0 .. MaxU32,
     docker_timeout : Seconds]

-------------------------------------------------------------------------------
(* Config::from_map of the scheduler, group by group.                      *)

NatsAccepted(c) ==
    /\ c.nats.scheme \in {"nats", "tls", "ws", "wss"}
    /\ c.nats.host # "none"
    /\ ~c.nats.login
    /\ ~(c.credentials_file /\ c.nkey_seed_file)
    /\ c.nats.host # "loopback" =>
          /\ c.nats.scheme \in {"tls", "wss"}
          /\ c.credentials_file \/ c.nkey_seed_file
    /\ c.client_cert <=> c.client_key

TimingAccepted(c) ==
    /\ 0 \notin {c.worker_heartbeat, c.stale_worker_threshold, c.ack_wait,
                 c.database_lease_ttl, c.reconciliation_interval, c.reap_grace}
    /\ c.worker_heartbeat < c.stale_worker_threshold
    /\ c.stale_worker_threshold < c.ack_wait
    /\ c.ack_wait < c.database_lease_ttl

\* A pull fits in what may be unacknowledged, and that fits in the fair queue.
BatchAccepted(c) ==
    /\ c.pull_batch_size # 0
    /\ c.max_ack_pending > 0
    /\ c.pull_batch_size <= c.max_ack_pending
    /\ c.buffer_size >= c.max_ack_pending

StreamsAccepted(c) ==
    /\ c.job_stream_max_bytes > 0
    /\ c.dlq_stream_max_bytes > 0
    /\ c.advisory_stream_max_bytes > 0
    /\ c.stream_replicas \in 1 .. 5
    /\ c.dlq_retention # 0
    /\ c.advisory_retention # 0

\* checked_add: a sum beyond usize is refused as well.
WeightsAccepted(c) ==
    /\ c.interactive_weight # 0
    /\ c.batch_weight # 0
    /\ c.interactive_weight + c.batch_weight <= 1024
    /\ c.batch_aging # 0

AttemptsAccepted(c) == c.max_run_attempts \notin {0, MaxU32}

\* validate_docker_endpoint.
DockerAccepted(c) ==
    /\ \/ c.docker.scheme \in {"unix", "npipe"}
       \/ c.docker.scheme = "https" /\ c.docker.host # "none"
       \/ c.docker.scheme = "http" /\ c.docker.host = "loopback"
    /\ c.docker_timeout # 0

Accepted(c) ==
    /\ c.metrics_host = "loopback"
    /\ NatsAccepted(c)
    /\ TimingAccepted(c)
    /\ BatchAccepted(c)
    /\ StreamsAccepted(c)
    /\ WeightsAccepted(c)
    /\ AttemptsAccepted(c)
    /\ DockerAccepted(c)

-------------------------------------------------------------------------------
(* The parts that are configured.                                          *)

\* TryFrom<&Config> for TopologyConfig; it fails on a batch beyond i64.
TopologyOf(c) ==
    [job_stream_max_bytes |-> c.job_stream_max_bytes,
     dlq_stream_max_bytes |-> c.dlq_stream_max_bytes,
     advisory_stream_max_bytes |-> c.advisory_stream_max_bytes,
     stream_replicas |-> c.stream_replicas,
     dlq_retention |-> c.dlq_retention,
     advisory_retention |-> c.advisory_retention,
     ack_wait |-> c.ack_wait,
     max_deliver |-> c.max_run_attempts + 1,
     max_ack_pending |-> c.max_ack_pending,
     pull_batch_size |-> c.pull_batch_size]

ConvertsToTopology(c) == c.pull_batch_size <= MaxI64

\* topology.rs, validate_config.
ValidateConfig(t) ==
    /\ t.job_stream_max_bytes > 0
    /\ t.dlq_stream_max_bytes > 0
    /\ t.advisory_stream_max_bytes > 0
    /\ t.stream_replicas \in 1 .. 5
    /\ t.dlq_retention # 0
    /\ t.advisory_retention # 0
    /\ t.ack_wait # 0
    /\ t.max_deliver >= 2
    /\ t.max_ack_pending > 0
    /\ t.pull_batch_size > 0

\* FairQueue::new.
FairQueueAccepts(c) ==
    /\ c.buffer_size # 0
    /\ c.interactive_weight # 0
    /\ c.batch_weight # 0
    /\ c.interactive_weight + c.batch_weight <= 1024
    /\ c.batch_aging # 0

\* The worker deliveries of the last attempt and the one the scheduler keeps for
\* the dead letter: max_deliver leaves exactly one beyond max_run_attempts, and
\* it fits the u32 that recover_stale_job and the dispatcher compare with.
SpareDelivery(c) ==
    /\ TopologyOf(c).max_deliver = c.max_run_attempts + 1
    /\ TopologyOf(c).max_deliver \in 2 .. MaxU32

\* What may be unacknowledged at once fits in the queue, so that a message that
\* was fetched can always be pushed or put back.
BufferSuffices(c) ==
    /\ c.pull_batch_size <= c.buffer_size
    /\ \A held \in 0 .. c.max_ack_pending : held <= c.buffer_size

=============================================================================
