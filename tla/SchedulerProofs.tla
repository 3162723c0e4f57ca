---------------------------- MODULE SchedulerProofs ---------------------------
(***************************************************************************)
(* What the scheduler relies on: accepted settings, provisioned streams,   *)
(* the fair queue and the reports of the workers, for every environment,   *)
(* every set of jobs, projects and schedulers, and all limits.             *)
(***************************************************************************)
EXTENDS FairQueue, ControlPlane, Topology, Settings,
        FiniteSetTheorems, SequenceTheorems, WellFoundedInduction, TLAPS

-------------------------------------------------------------------------------
(* Settings.                                                               *)

\* The fields the arithmetic below is about are integers.
LEMMA SettingsAreNumbers ==
    ASSUME NEW c \in SchedulerSettings
    PROVE  /\ c.pull_batch_size \in Nat
           /\ c.max_ack_pending \in Int
           /\ c.max_ack_pending <= MaxI64
           /\ c.buffer_size \in Nat
           /\ c.max_run_attempts \in 0 .. MaxU32
  BY WidthAssumption DEF SchedulerSettings, Seconds

\* Settings that from_map accepts convert into a TopologyConfig that
\* validate_config accepts: provisioning never fails on its configuration.
THEOREM AcceptedProvisions ==
    ASSUME NEW c \in SchedulerSettings, Accepted(c)
    PROVE  ConvertsToTopology(c) /\ ValidateConfig(TopologyOf(c))
<1>1. ConvertsToTopology(c)
  <2>1. c.pull_batch_size <= c.max_ack_pending
    BY DEF Accepted, BatchAccepted
  <2> QED BY <2>1, WidthAssumption, SettingsAreNumbers DEF ConvertsToTopology
<1>2. c.pull_batch_size > 0 /\ c.max_ack_pending > 0
  BY SettingsAreNumbers DEF Accepted, BatchAccepted
<1>3. c.max_run_attempts + 1 >= 2
  BY SettingsAreNumbers DEF Accepted, AttemptsAccepted
<1>4. c.ack_wait # 0
  BY DEF Accepted, TimingAccepted
<1> QED BY <1>1, <1>2, <1>3, <1>4
        DEF Accepted, StreamsAccepted, ValidateConfig, TopologyOf

\* And FairQueue::new accepts its part of them, with a buffer that holds
\* everything the consumer may leave unacknowledged.
THEOREM AcceptedQueues ==
    ASSUME NEW c \in SchedulerSettings, Accepted(c)
    PROVE  FairQueueAccepts(c) /\ BufferSuffices(c)
<1>1. /\ c.pull_batch_size <= c.max_ack_pending
      /\ c.max_ack_pending > 0
      /\ c.buffer_size >= c.max_ack_pending
  BY DEF Accepted, BatchAccepted
<1>2. c.buffer_size # 0 /\ BufferSuffices(c)
  BY <1>1, SettingsAreNumbers DEF BufferSuffices
<1> QED BY <1>2 DEF Accepted, WeightsAccepted, FairQueueAccepts

\* The server delivers a message exactly once more than a job may be attempted,
\* and the count still fits the scheduler's u32 (why u32::MAX is refused).
THEOREM AcceptedLeavesSpareDelivery ==
    ASSUME NEW c \in SchedulerSettings, Accepted(c)
    PROVE  SpareDelivery(c)
<1>1. c.max_run_attempts \notin {0, MaxU32}
  BY DEF Accepted, AttemptsAccepted
<1> QED BY <1>1, WidthAssumption, SettingsAreNumbers DEF SpareDelivery, TopologyOf

-------------------------------------------------------------------------------
(* Topology.                                                               *)

Value == {"none", "as_built", "other", "default", "tuned", "unset", "server_default"}
            \cup {SettingsOf[l] : l \in Provisioners}

Config == [purpose : Value, limits : Value, delivery : Value, rest : Value]

Progress == [at : 0 .. 11, read : Config, alone : BOOLEAN]

\* A resource is what a process wants of it.
Fits(config, r, settings) ==
    /\ config.purpose = "as_built"
    /\ config.limits = settings
    /\ config.delivery = IF r = "advisory_stream" THEN "server_default" ELSE settings

\* A process that nobody disturbed has put in order every resource it is past,
\* and what it has read of the next one is what the server holds.  The server
\* never stores a field that is left out, so a comparison with one that is
\* always asks for the update.
Provisioning ==
    /\ server \in [1 .. 5 -> Config]
    /\ prov \in [Provisioners -> Progress]
    /\ \A i \in 1 .. 5 : server[i].delivery # "unset"
    /\ \A l \in Provisioners : prov[l].alone =>
          \A i \in 1 .. 5 :
             /\ 2 * i < prov[l].at => Fits(server[i], Resources[i], SettingsOf[l])
             /\ 2 * i = prov[l].at => prov[l].read = server[i]

LEMMA ResourceOrder ==
    /\ DOMAIN Resources = 1 .. 5
    /\ \A i \in 1 .. 5 : Resources[i] = "advisory_stream" <=> i = 3
BY DEF Resources

LEMMA MissingConfig == Missing \in Config /\ Missing.delivery # "unset"
BY DEF Missing, Config, Value

\* What a creation stores is what was wanted.
LEMMA StoredDesired ==
    ASSUME NEW l \in Provisioners, NEW r
    PROVE  /\ Stored(Desired(r, SettingsOf[l])) \in Config
           /\ Stored(Desired(r, SettingsOf[l])).delivery # "unset"
           /\ Fits(Stored(Desired(r, SettingsOf[l])), r, SettingsOf[l])
<1> DEFINE d == Desired(r, SettingsOf[l])
<1>1. /\ d = [purpose |-> "as_built", limits |-> SettingsOf[l],
              delivery |-> IF r = "advisory_stream" THEN "unset" ELSE SettingsOf[l],
              rest |-> "default"]
      /\ SettingsOf[l] # "unset"
  BY TopologyAssumption DEF Desired
<1>2. d \in Config
  BY <1>1 DEF Config, Value
<1>3. Stored(d) = [purpose |-> "as_built", limits |-> SettingsOf[l],
                   delivery |-> IF r = "advisory_stream" THEN "server_default" ELSE SettingsOf[l],
                   rest |-> "default"]
  BY <1>1 DEF Stored
<1> HIDE DEF d
<1>4. Stored(d) \in Config
  BY <1>3 DEF Config, Value
<1>5. Fits(Stored(d), r, SettingsOf[l]) /\ Stored(d).delivery # "unset"
  BY <1>1, <1>3 DEF Fits
<1> QED BY <1>4, <1>5 DEF d

\* What an update stores is what was wanted, if the purpose is right.
LEMMA StoredUpdate ==
    ASSUME NEW l \in Provisioners, NEW r, NEW read \in Config,
           ~Incompatible(read, Desired(r, SettingsOf[l]))
    PROVE  /\ Stored(Updated(r, read, Desired(r, SettingsOf[l]))) \in Config
           /\ Stored(Updated(r, read, Desired(r, SettingsOf[l]))).delivery # "unset"
           /\ Fits(Stored(Updated(r, read, Desired(r, SettingsOf[l]))), r, SettingsOf[l])
<1> DEFINE d == Desired(r, SettingsOf[l])
           u == Updated(r, read, d)
<1>1. /\ d = [purpose |-> "as_built", limits |-> SettingsOf[l],
              delivery |-> IF r = "advisory_stream" THEN "unset" ELSE SettingsOf[l],
              rest |-> "default"]
      /\ SettingsOf[l] # "unset"
  BY TopologyAssumption DEF Desired
<1>2. d \in Config
  BY <1>1 DEF Config, Value
<1> HIDE DEF d
<1>3. /\ u \in Config /\ u.purpose = "as_built" /\ u.limits = SettingsOf[l]
      /\ u.delivery = IF r = "advisory_stream" THEN "unset" ELSE SettingsOf[l]
  <2>1. CASE r \notin Stream
    BY <1>1, <1>2, <2>1 DEF Updated
  <2>2. CASE r \in Stream
    <3>1. u = [d EXCEPT !.purpose = read.purpose, !.rest = read.rest]
      BY <2>2 DEF Updated
    <3>2. /\ read.purpose = "as_built" /\ read.purpose \in Value /\ read.rest \in Value
      BY <1>1 DEF Incompatible, Config, d
    <3>3. /\ [d EXCEPT !.purpose = read.purpose, !.rest = read.rest] \in Config
          /\ [d EXCEPT !.purpose = read.purpose, !.rest = read.rest].purpose = read.purpose
          /\ [d EXCEPT !.purpose = read.purpose, !.rest = read.rest].limits = d.limits
          /\ [d EXCEPT !.purpose = read.purpose, !.rest = read.rest].delivery = d.delivery
      BY <1>2, <3>2 DEF Config
    <3> HIDE DEF u
    <3> QED BY <1>1, <3>1, <3>2, <3>3
  <2> QED BY <2>1, <2>2
<1> HIDE DEF u
<1>4. /\ Stored(u) \in Config /\ Stored(u).purpose = u.purpose /\ Stored(u).limits = u.limits
      /\ Stored(u).delivery = IF u.delivery = "unset" THEN "server_default" ELSE u.delivery
  <2>1. (IF u.delivery = "unset" THEN "server_default" ELSE u.delivery) \in Value
    BY <1>3 DEF Config, Value
  <2> QED BY <1>3, <2>1 DEF Config, Stored
<1>5. Fits(Stored(u), r, SettingsOf[l]) /\ Stored(u).delivery # "unset"
  BY <1>1, <1>3, <1>4 DEF Fits
<1> QED BY <1>4, <1>5 DEF d, u

\* One call further.
LEMMA NextCall ==
    ASSUME NEW p \in Progress, NEW n \in 0 .. 11, p.at + 1 = n, NEW c \in Config
    PROVE  /\ [p EXCEPT !.at = @ + 1, !.read = c] \in Progress
           /\ [p EXCEPT !.at = @ + 1, !.read = c].at = n
           /\ [p EXCEPT !.at = @ + 1, !.read = c].read = c
           /\ [p EXCEPT !.at = @ + 1, !.read = c].alone = p.alone
BY DEF Progress

\* A write that fits, by a process that is at this resource.
LEMMA WriteKeeps ==
    ASSUME Provisioning, NEW l \in Provisioners, NEW i \in 1 .. 5, NEW config \in Config,
           NEW next \in Progress, Write(l, i, config, next),
           config.delivery # "unset",
           next.alone = prov[l].alone,
           \/ next.at = 2 * i /\ next.read = config /\ prov[l].at = 2 * i - 1
           \/ /\ next.at = 2 * i + 1 /\ prov[l].at = 2 * i
              /\ Fits(config, Resources[i], SettingsOf[l])
    PROVE  Provisioning'
<1>1. /\ server' = [server EXCEPT ![i] = config]
      /\ prov' = [k \in Provisioners |-> IF k = l THEN next
                                         ELSE [prov[k] EXCEPT !.alone = FALSE]]
  BY DEF Write
<1>2. /\ server \in [1 .. 5 -> Config] /\ prov \in [Provisioners -> Progress]
  BY DEF Provisioning
<1>3. /\ server' \in [1 .. 5 -> Config] /\ server'[i] = config
      /\ \A m \in 1 .. 5 : m # i => server'[m] = server[m]
  BY <1>1, <1>2
<1>4. \A k \in Provisioners : [prov[k] EXCEPT !.alone = FALSE] \in Progress
                              /\ ~[prov[k] EXCEPT !.alone = FALSE].alone
  BY <1>2 DEF Progress
<1>5. /\ prov' \in [Provisioners -> Progress] /\ prov'[l] = next
      /\ \A k \in Provisioners : k # l => ~prov'[k].alone
  BY <1>1, <1>4
<1>6. ASSUME prov'[l].alone, NEW m \in 1 .. 5
      PROVE  /\ 2 * m < prov'[l].at => Fits(server'[m], Resources[m], SettingsOf[l])
             /\ 2 * m = prov'[l].at => prov'[l].read = server'[m]
  <2>1. /\ 2 * m < prov[l].at => Fits(server[m], Resources[m], SettingsOf[l])
    BY <1>5, <1>6 DEF Provisioning
  <2>2. prov[l].at \in 0 .. 11
    BY <1>2 DEF Progress
  <2> QED BY <1>3, <1>5, <2>1, <2>2
<1> QED BY <1>3, <1>5, <1>6 DEF Provisioning

\* A process that writes nothing.
LEMMA QuietKeeps ==
    ASSUME Provisioning, NEW l \in Provisioners, NEW next \in Progress,
           prov' = [prov EXCEPT ![l] = next], UNCHANGED server,
           next.alone => \A i \in 1 .. 5 :
              /\ 2 * i < next.at => Fits(server[i], Resources[i], SettingsOf[l])
              /\ 2 * i = next.at => next.read = server[i]
    PROVE  Provisioning'
<1>1. /\ prov' \in [Provisioners -> Progress] /\ prov'[l] = next
      /\ \A k \in Provisioners : k # l => prov'[k] = prov[k]
  BY DEF Provisioning
<1> QED BY <1>1 DEF Provisioning

LEMMA ProvisioningStep ==
    ASSUME Provisioning, [TopologyNext]_topologyVars
    PROVE  Provisioning'
<1>t. /\ server \in [1 .. 5 -> Config] /\ prov \in [Provisioners -> Progress]
      /\ \A l \in Provisioners : /\ prov[l].at \in 0 .. 11
                                 /\ prov[l].read \in Config /\ prov[l].alone \in BOOLEAN
  BY DEF Provisioning, Progress
<1>r. AtRest \in Progress /\ ~AtRest.alone
  BY MissingConfig DEF AtRest, Progress
<1>1. ASSUME NEW l \in Provisioners, Begin(l) PROVE Provisioning'
  <2>1. CASE SettingsOf[l] \in Rejected
    BY <1>1, <1>r, <2>1, QuietKeeps DEF Begin
  <2>2. CASE SettingsOf[l] \notin Rejected
    <3> DEFINE next == [at |-> 1, read |-> Missing, alone |-> TRUE]
    <3>1. next \in Progress /\ next.at = 1
      BY MissingConfig DEF Progress
    <3>2. prov' = [prov EXCEPT ![l] = next] /\ UNCHANGED server
      BY <1>1, <2>2 DEF Begin
    <3>3. \A i \in 1 .. 5 : ~(2 * i < 1) /\ ~(2 * i = 1)
      OBVIOUS
    <3> HIDE DEF next
    <3> QED BY <3>1, <3>2, <3>3, QuietKeeps
  <2> QED BY <2>1, <2>2
<1>2. ASSUME NEW l \in Provisioners, GetOrCreate(l) PROVE Provisioning'
  <2> DEFINE i == Position(l)
             created == Stored(Target(l))
  <2>1. i \in 1 .. 5 /\ prov[l].at = 2 * i - 1
    BY <1>2, <1>t DEF GetOrCreate, Position
  <2>2. CASE /\ server[i] = Missing
             /\ Write(l, i, created, [prov[l] EXCEPT !.at = @ + 1, !.read = created])
    <3> DEFINE next == [prov[l] EXCEPT !.at = @ + 1, !.read = created]
    <3>1. created \in Config /\ created.delivery # "unset"
      BY StoredDesired DEF Target
    <3>2. /\ next \in Progress /\ next.at = 2 * i /\ next.read = created
          /\ next.alone = prov[l].alone
      <4>1. prov[l] \in Progress /\ 2 * i \in 0 .. 11 /\ prov[l].at + 1 = 2 * i
        <5> HIDE DEF i
        <5> QED BY <1>t, <2>1
      <4>2. PICK c \in Config : c = created
        BY <3>1
      <4>3. /\ [prov[l] EXCEPT !.at = @ + 1, !.read = c] \in Progress
            /\ [prov[l] EXCEPT !.at = @ + 1, !.read = c].at = 2 * i
            /\ [prov[l] EXCEPT !.at = @ + 1, !.read = c].read = c
            /\ [prov[l] EXCEPT !.at = @ + 1, !.read = c].alone = prov[l].alone
        <5> HIDE DEF i, created, next
        <5> QED BY <4>1, NextCall
      <4> HIDE DEF i, created
      <4> QED BY <4>2, <4>3, Zenon
    <3> HIDE DEF next, created, i
    <3> QED BY <2>1, <2>2, <3>1, <3>2, WriteKeeps DEF next
  <2>3. CASE /\ prov' = [prov EXCEPT ![l].at = @ + 1, ![l].read = server[i]]
             /\ UNCHANGED server
    <3> DEFINE next == [prov[l] EXCEPT !.at = @ + 1, !.read = server[i]]
    <3>1. server[i] \in Config
      BY <1>t, <2>1
    <3>2. /\ next \in Progress /\ next.at = 2 * i /\ next.read = server[i]
          /\ next.alone = prov[l].alone
      <4>1. prov[l] \in Progress /\ 2 * i \in 0 .. 11 /\ prov[l].at + 1 = 2 * i
        <5> HIDE DEF i
        <5> QED BY <1>t, <2>1
      <4> HIDE DEF i
      <4> QED BY <3>1, <4>1, NextCall, ZenonT(30)
    <3>3. prov' = [prov EXCEPT ![l] = next]
      BY <2>3
    <3>4. next.alone => \A m \in 1 .. 5 :
              /\ 2 * m < next.at => Fits(server[m], Resources[m], SettingsOf[l])
              /\ 2 * m = next.at => next.read = server[m]
      <4> HIDE DEF next, i
      <4>1. ASSUME next.alone, NEW m \in 1 .. 5, 2 * m < next.at
            PROVE  Fits(server[m], Resources[m], SettingsOf[l])
        <5>1. 2 * m < prov[l].at
          BY <2>1, <3>2, <4>1
        <5> QED BY <3>2, <4>1, <5>1 DEF Provisioning
      <4>2. ASSUME NEW m \in 1 .. 5, 2 * m = next.at PROVE m = i
        BY <2>1, <3>2, <4>2
      <4> QED BY <3>2, <4>1, <4>2
    <3> HIDE DEF next, i
    <3> QED BY <2>3, <3>2, <3>3, <3>4, QuietKeeps
  <2> QED BY <1>2, <2>2, <2>3 DEF GetOrCreate
<1>3. ASSUME NEW l \in Provisioners, Reconcile(l) PROVE Provisioning'
  <2> DEFINE i == Position(l)
             read == prov[l].read
             next == [prov[l] EXCEPT !.at = @ + 1, !.read = Missing]
             update == Stored(Updated(Resources[i], read, Target(l)))
  <2>1. i \in 1 .. 5 /\ prov[l].at = 2 * i /\ read \in Config
    BY <1>3, <1>t DEF Reconcile, Position
  <2>2. /\ next \in Progress /\ next.at = 2 * i + 1 /\ next.alone = prov[l].alone
    <3>1. prov[l] \in Progress /\ 2 * i + 1 \in 0 .. 11 /\ prov[l].at + 1 = 2 * i + 1
      <4> HIDE DEF i
      <4> QED BY <1>t, <2>1
    <3> HIDE DEF i
    <3> QED BY <3>1, NextCall, MissingConfig, ZenonT(30)
  <2>3. CASE Incompatible(read, Target(l))
    BY <1>3, <1>r, <2>3, QuietKeeps DEF Reconcile
  <2>4. CASE ~Incompatible(read, Target(l)) /\ NeedsUpdate(read, Target(l))
    <3>1. /\ update \in Config /\ update.delivery # "unset"
          /\ Fits(update, Resources[i], SettingsOf[l])
      BY <2>1, <2>4, StoredUpdate DEF Target
    <3>2. Write(l, i, update, next)
      BY <1>3, <2>4 DEF Reconcile
    <3> HIDE DEF next, update, i
    <3> QED BY <2>1, <2>2, <3>1, <3>2, WriteKeeps
  <2>5. CASE ~Incompatible(read, Target(l)) /\ ~NeedsUpdate(read, Target(l))
    <3>1. prov' = [prov EXCEPT ![l] = next] /\ UNCHANGED server
      BY <1>3, <2>5 DEF Reconcile
    <3>2. ASSUME prov[l].alone PROVE Fits(server[i], Resources[i], SettingsOf[l])
      <4>1. read = server[i] /\ server[i].delivery # "unset"
        BY <2>1, <3>2 DEF Provisioning
      <4>2. /\ read.purpose = "as_built" /\ read.limits = SettingsOf[l]
            /\ read.delivery = IF Resources[i] = "advisory_stream" THEN "unset" ELSE SettingsOf[l]
        BY <2>5 DEF Incompatible, NeedsUpdate, Target, Desired
      <4> QED BY <4>1, <4>2 DEF Fits
    <3>3. next.alone => \A m \in 1 .. 5 :
              /\ 2 * m < next.at => Fits(server[m], Resources[m], SettingsOf[l])
              /\ 2 * m = next.at => next.read = server[m]
      <4> HIDE DEF next, i, read
      <4>1. ASSUME next.alone, NEW m \in 1 .. 5, 2 * m < next.at
            PROVE  Fits(server[m], Resources[m], SettingsOf[l])
        <5>1. m = i \/ 2 * m < prov[l].at
          BY <2>1, <2>2, <4>1
        <5> QED BY <2>2, <3>2, <4>1, <5>1 DEF Provisioning
      <4>2. ASSUME NEW m \in 1 .. 5 PROVE 2 * m # next.at
        BY <2>1, <2>2
      <4> QED BY <4>1, <4>2
    <3> HIDE DEF next
    <3> QED BY <2>2, <3>1, <3>3, QuietKeeps
  <2> QED BY <2>3, <2>4, <2>5
<1>4. ASSUME NEW l \in Provisioners, ProvisionFails(l) PROVE Provisioning'
  BY <1>4, <1>r, QuietKeeps DEF ProvisionFails
<1>5. CASE UNCHANGED topologyVars
  BY <1>5 DEF Provisioning, topologyVars
<1> QED BY <1>1, <1>2, <1>3, <1>4, <1>5 DEF TopologyNext

LEMMA ProvisioningInit == TopologyInit => Provisioning
<1> SUFFICES ASSUME TopologyInit PROVE Provisioning
  OBVIOUS
<1>1. AtRest \in Progress /\ ~AtRest.alone
  BY MissingConfig DEF AtRest, Progress
<1>2. prov \in [Provisioners -> Progress] /\ \A l \in Provisioners : ~prov[l].alone
  BY <1>1 DEF TopologyInit
<1>3. server \in [1 .. 5 -> Config] /\ \A i \in 1 .. 5 : server[i].delivery # "unset"
  <2>1. CASE server = [r \in DOMAIN Resources |-> Missing]
    BY <2>1, ResourceOrder, MissingConfig
  <2>2. ASSUME NEW l \in {k \in Provisioners : SettingsOf[k] \notin Rejected},
               NEW i \in Drifted,
               NEW changed \in [purpose : {"as_built", "other"},
                          limits : {SettingsOf[l], "other"},
                          delivery : {SettingsOf[l], "other"},
                          rest : {"default", "tuned"}],
               server = [r \in DOMAIN Resources |->
                IF r = i THEN changed
                ELSE Stored(Desired(Resources[r], SettingsOf[l]))]
        PROVE  server \in [1 .. 5 -> Config] /\ \A m \in 1 .. 5 : server[m].delivery # "unset"
    <3>1. changed \in Config /\ changed.delivery # "unset"
      BY TopologyAssumption DEF Config, Value
    <3> QED BY <2>2, <3>1, ResourceOrder, StoredDesired
  <2> QED BY <2>1, <2>2 DEF TopologyInit
<1> QED BY <1>2, <1>3 DEF Provisioning

\* provision_topology: a leader that nobody disturbed while it provisioned works
\* on five resources that are its own settings, whatever it found.
THEOREM TopologyProvisioned == TopologySpec => []ProvisionedAsDesired
<1>1. Provisioning /\ [TopologyNext]_topologyVars => Provisioning'
  BY ProvisioningStep
<1>2. Provisioning => ProvisionedAsDesired
  <2> SUFFICES ASSUME Provisioning, NEW l \in Provisioners,
                      prov[l].at = 11, prov[l].alone, NEW i \in 1 .. 5
               PROVE  [server[i] EXCEPT !.rest = "default"]
                         = Stored(Desired(Resources[i], SettingsOf[l]))
    BY ResourceOrder, Zenon DEF ProvisionedAsDesired
  <2>1. Fits(server[i], Resources[i], SettingsOf[l]) /\ server[i] \in Config
    <3>1. 2 * i < 11
      OBVIOUS
    <3> QED BY <3>1 DEF Provisioning
  <2>2. [server[i] EXCEPT !.rest = "default"]
           = [purpose |-> "as_built", limits |-> SettingsOf[l],
              delivery |-> IF Resources[i] = "advisory_stream" THEN "server_default" ELSE SettingsOf[l],
              rest |-> "default"]
    BY <2>1 DEF Fits, Config
  <2>3. Stored(Desired(Resources[i], SettingsOf[l]))
           = [purpose |-> "as_built", limits |-> SettingsOf[l],
              delivery |-> IF Resources[i] = "advisory_stream" THEN "server_default" ELSE SettingsOf[l],
              rest |-> "default"]
    BY TopologyAssumption DEF Stored, Desired
  <2> QED BY <2>2, <2>3
<1> QED BY <1>1, <1>2, ProvisioningInit, PTL DEF TopologySpec

-------------------------------------------------------------------------------
(* Fair queue.                                                             *)

\* Batch slots of the schedule that lie behind the cursor, since the last
\* interactive slot.
Behind(c) ==
    IF c = 0 THEN BatchWeight
    ELSE IF c > InteractiveWeight THEN c - InteractiveWeight ELSE 0

\* How often a lane was passed over follows from where the cursor stands:
\* batch work by one pop for each interactive slot behind it, interactive work
\* by one pop for each batch slot and one override before each of them.
CursorTells ==
    /\ passed \in [Lane -> Nat]
    /\ cursor \in 0 .. (Weight - 1)
    /\ passed["batch"] > 0
          => passed["batch"] <= cursor /\ cursor <= InteractiveWeight
    /\ passed["interactive"] <= 2 * Behind(cursor) + (IF forced THEN 1 ELSE 0)

\* Behind counts slots of the cycle, BatchWeight of them at most.
LEMMA BehindType ==
    ASSUME NEW c \in 0 .. (Weight - 1)
    PROVE  Behind(c) \in Nat /\ Behind(c) <= BatchWeight
BY FairAssumption DEF Behind, Weight

\* The cursor wraps once at most.
LEMMA WrapsOnce ==
    ASSUME NEW w \in Nat \ {0}, NEW c \in 0 .. (2 * w - 1)
    PROVE  c % w = IF c < w THEN c ELSE c - w
<1>1. CASE c < w
  BY <1>1, SMT
<1>2. CASE c >= w
  <2>1. c - w \in 0 .. (w - 1) /\ c = 1 * w + (c - w)
    BY <1>2, SMT
  <2> QED BY <2>1, <1>2, SMT
<1> QED BY <1>1, <1>2

\* A pop of either kind counts against a lane that waits, and only against it.
LEMMA PassedAfterPop ==
    ASSUME passed \in [Lane -> Nat], NEW lane \in Lane, PopLane(lane)
    PROVE  /\ passed' \in [Lane -> Nat]
           /\ passed'[lane] = 0
           /\ \A l \in Lane : l # lane =>
                 passed'[l] = IF Waiting(l) THEN passed[l] + 1 ELSE 0
BY DEF PopLane, Lane

\* Where both lanes wait, the slot under the cursor is served.
LEMMA ScheduledPop ==
    ASSUME CursorTells, PopScheduled
    PROVE  \E lane \in Lane :
              /\ PopLane(lane)
              /\ cursor' \in 0 .. (Weight - 1)
              /\ Waiting("interactive") /\ Waiting("batch")
                   => /\ lane = Slot(cursor)
                      /\ cursor' = IF cursor + 1 = Weight THEN 0 ELSE cursor + 1
<1>1. Weight \in Nat \ {0} /\ cursor \in 0 .. (Weight - 1)
  BY FairAssumption DEF Weight, CursorTells
<1>2. PICK n \in 0 .. (Weight - 1) :
         /\ \A k \in 0 .. (n - 1) : ~Waiting(Slot((cursor + k) % Weight))
         /\ PopLane(Slot((cursor + n) % Weight))
         /\ cursor' = CursorAfter(n)
  BY DEF PopScheduled
<1>w. \A m \in 0 .. (2 * Weight - 1) :
         m % Weight = IF m < Weight THEN m ELSE m - Weight
  BY <1>1, WrapsOnce
<1> DEFINE lane == Slot((cursor + n) % Weight)
<1>3. lane \in Lane
  BY DEF Slot, Lane
<1>4. cursor' \in 0 .. (Weight - 1)
  <2> DEFINE m == cursor + n + 1
  <2>1. m \in 0 .. (2 * Weight - 1) /\ cursor' = m % Weight
    BY <1>1, <1>2 DEF CursorAfter
  <2> HIDE DEF m
  <2>2. m % Weight = IF m < Weight THEN m ELSE m - Weight
    BY <1>w, <2>1
  <2> QED BY <1>1, <2>1, <2>2
<1>5. ASSUME Waiting("interactive"), Waiting("batch")
      PROVE  /\ lane = Slot(cursor)
             /\ cursor' = IF cursor + 1 = Weight THEN 0 ELSE cursor + 1
  <2>1. n = 0
    <3>1. Waiting(Slot((cursor + 0) % Weight))
      BY <1>5 DEF Slot
    <3>2. n # 0 => 0 \in 0 .. (n - 1)
      BY <1>1
    <3> QED BY <1>2, <3>1, <3>2, Zenon
  <2>2. cursor + n = cursor /\ cursor + n + 1 = cursor + 1
    BY <1>1, <2>1
  <2>3. cursor % Weight = cursor
    BY <1>1, <1>w
  <2> DEFINE m == cursor + 1
  <2>4. m \in 0 .. (2 * Weight - 1)
    BY <1>1
  <2>5. lane = Slot(cursor) /\ cursor' = m % Weight
    BY <1>2, <2>2, <2>3, Zenon DEF CursorAfter
  <2>6. m % Weight = IF m < Weight THEN m ELSE m - Weight
    <3> HIDE DEF m
    <3> QED BY <1>w, <2>4
  <2>7. cursor' = IF m < Weight THEN m ELSE m - Weight
    <3> HIDE DEF m
    <3> QED BY <2>5, <2>6
  <2> QED BY <1>1, <2>5, <2>7
<1> QED BY <1>2, <1>3, <1>4, <1>5

\* Every step keeps the counts in line with the cursor.
LEMMA CursorTellsStep ==
    ASSUME CursorTells, [Next]_vars
    PROVE  CursorTells'
<1> USE FairAssumption DEF Lane
<1>1. CASE passed' = passed /\ cursor' = cursor /\ forced' = forced
  BY <1>1 DEF CursorTells, Behind
<1>2. CASE PopAged
  <2>1. PopLane("batch") /\ forced' = TRUE /\ cursor' = cursor /\ ~forced
    BY <1>2 DEF PopAged, AgingOverride
  <2>2. /\ passed' \in [Lane -> Nat]
        /\ passed'["batch"] = 0
        /\ passed'["interactive"] <= passed["interactive"] + 1
    BY <2>1, PassedAfterPop DEF CursorTells
  <2>3. passed["interactive"] <= 2 * Behind(cursor)
    BY <2>1, BehindType DEF CursorTells
  <2>4. Behind(cursor)' = Behind(cursor) /\ Behind(cursor) \in Nat
    BY <2>1, BehindType DEF Behind, CursorTells
  <2>5. passed["interactive"] \in Nat /\ passed'["interactive"] \in Nat
    BY <2>2 DEF CursorTells
  <2>6. passed'["interactive"] <= 2 * Behind(cursor)' + 1
    BY <2>2, <2>3, <2>4, <2>5
  <2> QED BY <2>1, <2>2, <2>6 DEF CursorTells
<1>3. CASE PopScheduled
  <2>1. PICK lane \in Lane :
              /\ PopLane(lane)
              /\ cursor' \in 0 .. (Weight - 1)
              /\ Waiting("interactive") /\ Waiting("batch")
                   => /\ lane = Slot(cursor)
                      /\ cursor' = IF cursor + 1 = Weight THEN 0 ELSE cursor + 1
    BY <1>3, ScheduledPop
  <2>2. forced' = FALSE
    BY <1>3 DEF PopScheduled
  <2>3. Waiting(lane)
    BY <2>1 DEF PopLane
  <2>4. /\ passed' \in [Lane -> Nat]
        /\ passed'[lane] = 0
        /\ \A l \in Lane : l # lane =>
              passed'[l] = IF Waiting(l) THEN passed[l] + 1 ELSE 0
    BY <2>1, PassedAfterPop DEF CursorTells
  <2>5. Behind(cursor) \in Nat /\ Behind(cursor)' \in Nat
    <3>1. Behind(cursor)' = Behind(cursor')
      BY DEF Behind
    <3> QED BY <2>1, <3>1, BehindType DEF CursorTells
  <2>6. CASE lane = "interactive" /\ Waiting("batch")
    <3>1. cursor < InteractiveWeight
      BY <2>1, <2>3, <2>6 DEF Slot
    <3>2. cursor' = cursor + 1
      BY <2>1, <2>3, <2>6, <3>1 DEF CursorTells, Weight
    <3>3. passed'["batch"] = passed["batch"] + 1 /\ passed'["interactive"] = 0
      BY <2>4, <2>6
    <3>4. passed'["batch"] <= cursor' /\ cursor' <= InteractiveWeight
      BY <3>1, <3>2, <3>3 DEF CursorTells, Weight
    <3>5. 0 <= 2 * Behind(cursor)' + (IF forced' THEN 1 ELSE 0)
      BY <2>2, <2>5
    <3> QED BY <2>1, <2>2, <2>4, <3>3, <3>4, <3>5 DEF CursorTells
  <2>7. CASE lane = "batch" /\ Waiting("interactive")
    <3>1. cursor >= InteractiveWeight
      BY <2>1, <2>3, <2>7 DEF Slot, CursorTells, Weight
    <3>2. cursor' = IF cursor + 1 = Weight THEN 0 ELSE cursor + 1
      BY <2>1, <2>3, <2>7
    <3>3. passed'["interactive"] = passed["interactive"] + 1 /\ passed'["batch"] = 0
      BY <2>4, <2>7
    <3>4. Behind(cursor)' = Behind(cursor) + 1
      BY <3>1, <3>2 DEF Behind, CursorTells, Weight
    <3>5. passed["interactive"] <= 2 * Behind(cursor) + 1
      BY <2>5 DEF CursorTells
    <3>6. passed["interactive"] \in Nat
      BY DEF CursorTells
    <3>7. passed'["interactive"] <= 2 * Behind(cursor)'
      BY <3>3, <3>4, <3>5, <3>6, <2>5
    <3>8. passed'["interactive"] <= 2 * Behind(cursor)' + (IF forced' THEN 1 ELSE 0)
      BY <2>2, <2>5, <3>7
    <3> QED BY <2>1, <2>2, <2>4, <3>3, <3>8 DEF CursorTells
  <2>8. CASE ~Waiting("batch") \/ ~Waiting("interactive")
    <3>1. passed'["batch"] = 0 /\ passed'["interactive"] = 0
      BY <2>3, <2>4, <2>8
    <3>2. 0 <= 2 * Behind(cursor)' + (IF forced' THEN 1 ELSE 0)
      BY <2>2, <2>5
    <3> QED BY <2>1, <2>2, <2>4, <3>1, <3>2 DEF CursorTells
  <2> QED BY <2>3, <2>6, <2>7, <2>8
<1> QED BY <1>1, <1>2, <1>3 DEF Next, Accept, StartPass, Pop, Settle, Requeue, Age,
        vars

\* Neither lane starves: waiting batch work is passed over by at most
\* InteractiveWeight pops of FairQueue::pop, waiting interactive work by at most
\* 2 * BatchWeight + 1, whatever is pushed, requeued or aged in between.
THEOREM LaneWaitAlwaysBounded == Spec => []LaneWaitBounded
<1>1. Init => CursorTells
  <2> SUFFICES ASSUME Init PROVE CursorTells
    OBVIOUS
  <2>1. Weight \in Nat \ {0} /\ Behind(cursor) \in Nat
    BY FairAssumption DEF Weight, Behind, Init
  <2>2. 0 <= 2 * Behind(cursor) + (IF forced THEN 1 ELSE 0)
    BY <2>1 DEF Init
  <2> QED BY <2>1, <2>2 DEF Init, CursorTells, Lane
<1>2. CursorTells /\ [Next]_vars => CursorTells'
  BY CursorTellsStep
<1>3. CursorTells => LaneWaitBounded
  <2> SUFFICES ASSUME CursorTells PROVE LaneWaitBounded
    OBVIOUS
  <2>1. passed["batch"] \in Nat /\ passed["interactive"] \in Nat
    BY DEF CursorTells, Lane
  <2>2. Behind(cursor) \in Nat /\ Behind(cursor) <= BatchWeight
    BY BehindType DEF CursorTells
  <2>3. passed["interactive"] <= 2 * Behind(cursor) + 1
    BY <2>1, <2>2 DEF CursorTells
  <2> QED BY <2>1, <2>2, <2>3, FairAssumption DEF LaneWaitBounded, CursorTells
<1> QED BY <1>1, <1>2, <1>3, PTL DEF Spec

-------------------------------------------------------------------------------
(* The dispatcher's own state: one entry in hand, and room for it.         *)

RoomKept == len \in Int /\ len <= Capacity /\ RequeueFits

\* A popped entry can always go back to the buffer: FairQueue::push in
\* Dispatcher::requeue fails neither as a duplicate nor for want of room.
THEOREM RequeueAlwaysFits == Spec => []RequeueFits
<1> USE FairAssumption
<1>1. Init => RoomKept
  BY DEF Init, RoomKept, RequeueFits
<1>2. RoomKept /\ [Next]_vars => RoomKept'
  <2> SUFFICES ASSUME RoomKept, [Next]_vars PROVE RoomKept'
    OBVIOUS
  <2>1. CASE UNCHANGED <<len, jobIds, hand>>
    BY <2>1 DEF RoomKept, RequeueFits
  <2>2. ASSUME NEW lane, PopLane(lane), hand = NoJob PROVE RoomKept'
    BY <2>2 DEF RoomKept, RequeueFits, PopLane
  <2>3. ASSUME NEW j \in Jobs, Accept(j) PROVE RoomKept'
    BY <2>3 DEF Accept, LoopIdle, Push, RoomKept, RequeueFits
  <2>4. CASE Requeue
    BY <2>4 DEF Requeue, Push, RoomKept, RequeueFits
  <2>5. CASE Settle
    BY <2>5 DEF Settle, RoomKept, RequeueFits
  <2> QED BY <2>1, <2>2, <2>3, <2>4, <2>5
          DEF Next, StartPass, Pop, PopAged, PopScheduled, Age, vars
<1>3. RoomKept => RequeueFits
  BY DEF RoomKept
<1> QED BY <1>1, <1>2, <1>3, PTL DEF Spec

-------------------------------------------------------------------------------
(* The buckets and the rings.                                              *)

\* The jobs of jobIds that belong to a lane and a project.
Home(lane, p) == {j \in jobIds : LaneOf[j] = lane /\ ProjectOf[j] = p}

\* Entries by rank, so none twice.
Sorted(s) == \A i, k \in DOMAIN s : i < k => s[i] < s[k]

Distinct(s) == \A i, k \in DOMAIN s : s[i] = s[k] => i = k

\* The buckets hold what job_ids says, each entry where it belongs.
BucketsOk ==
    /\ bucket \in [Lane -> [Projects -> Seq(Jobs)]]
    /\ jobIds \in SUBSET Jobs
    /\ \A lane \in Lane, p \in Projects :
          /\ Sorted(bucket[lane][p])
          /\ Range(bucket[lane][p]) = Home(lane, p)

\* A ring names the projects that have a bucket, each once, and the further
\* back a project stands, the less it has been passed over.
RingsOk ==
    /\ ring \in [Lane -> Seq(Projects)]
    /\ turns \in [Lane -> [Projects -> Nat]]
    /\ \A lane \in Lane :
          /\ Distinct(ring[lane])
          /\ Range(ring[lane]) = {p \in Projects : bucket[lane][p] # <<>>}
          /\ \A i \in DOMAIN ring[lane] :
                turns[lane][ring[lane][i]] + i <= Cardinality(Projects)
          /\ \A p \in Projects : bucket[lane][p] = <<>> => turns[lane][p] = 0

CountsOk ==
    /\ IsFiniteSet(jobIds)
    /\ len = Cardinality(jobIds)
    /\ budget \in Nat
    /\ budget <= len
    /\ hand \in Jobs \cup {NoJob}

QueueOk == BucketsOk /\ RingsOk /\ CountsOk

-------------------------------------------------------------------------------
(* Sequences without duplicates.                                           *)

\* A finite set of numbers has a largest one: a number with the fewest above it.
LEMMA LargestOf ==
    ASSUME NEW K \in SUBSET Nat, IsFiniteSet(K), K # {}
    PROVE  \E j \in K : \A k \in K : k <= j
<1> DEFINE Above(j) == {k \in K : k > j}
           T == {Above(j) : j \in K}
<1>1. T \subseteq FiniteSubsetsOf(K) /\ T # {}
  <2>1. \A j \in K : Above(j) \in SUBSET K
    OBVIOUS
  <2>2. \A j \in K : Above(j) \in FiniteSubsetsOf(K)
    BY <2>1, FS_Subset DEF FiniteSubsetsOf
  <2> QED BY <2>2
<1>2. PICK x \in T : \A y \in T : ~(<<y, x>> \in StrictSubsetOrdering(K))
  <2> HIDE DEF T
  <2> QED BY <1>1, FS_StrictSubsetOrderingWellFounded, WFMin
<1>3. PICK j \in K : x = Above(j)
  OBVIOUS
<1>4. ASSUME NEW k \in K, k > j PROVE FALSE
  <2>1. Above(k) \subseteq Above(j) /\ Above(k) # Above(j)
    <3>1. k \in Above(j) /\ k \notin Above(k)
      BY <1>4
    <3>2. \A i \in Above(k) : i \in Above(j)
      BY <1>4
    <3> QED BY <3>1, <3>2
  <2>2. Above(k) \in T /\ <<Above(k), x>> \in StrictSubsetOrdering(K)
    BY <1>3, <2>1 DEF StrictSubsetOrdering
  <2> QED BY <1>2, <2>2
<1> QED BY <1>4

\* The first of a sequence is taken.
LEMMA TakenFirst ==
    ASSUME NEW S, NEW s \in Seq(S), s # <<>>, Distinct(s)
    PROVE  /\ Head(s) \in S /\ Head(s) \in Range(s)
           /\ Tail(s) \in Seq(S)
           /\ Distinct(Tail(s))
           /\ Range(Tail(s)) = Range(s) \ {Head(s)}
<1>1. /\ Len(s) \in Nat \ {0} /\ DOMAIN s = 1 .. Len(s) /\ Head(s) = s[1]
      /\ 1 \in DOMAIN s
  OBVIOUS
<1>2. /\ Tail(s) \in Seq(S) /\ DOMAIN Tail(s) = 1 .. (Len(s) - 1)
      /\ \A i \in DOMAIN Tail(s) : i + 1 \in DOMAIN s /\ Tail(s)[i] = s[i + 1]
  BY <1>1
<1>3. Distinct(Tail(s))
  BY <1>2 DEF Distinct
<1>4. ASSUME NEW i \in DOMAIN s, i # 1
      PROVE  i - 1 \in DOMAIN Tail(s) /\ Tail(s)[i - 1] = s[i]
  BY <1>1, <1>2, <1>4
<1>5. \A i \in DOMAIN Tail(s) : Tail(s)[i] # Head(s)
  BY <1>1, <1>2 DEF Distinct
<1>6. Range(Tail(s)) \subseteq Range(s) \ {Head(s)}
  BY <1>2, <1>5 DEF Range
<1>7. Range(s) \ {Head(s)} \subseteq Range(Tail(s))
  BY <1>1, <1>4 DEF Range
<1>8. Head(s) \in Range(s) /\ Head(s) \in S
  BY <1>1 DEF Range
<1> QED BY <1>2, <1>3, <1>6, <1>7, <1>8

\* A new element goes to the end.
LEMMA AddedLast ==
    ASSUME NEW S, NEW s \in Seq(S), NEW e \in S, e \notin Range(s), Distinct(s)
    PROVE  /\ Append(s, e) \in Seq(S)
           /\ Append(s, e) # <<>>
           /\ DOMAIN Append(s, e) = 1 .. (Len(s) + 1)
           /\ Append(s, e)[Len(s) + 1] = e
           /\ \A i \in DOMAIN s : Append(s, e)[i] = s[i]
           /\ Distinct(Append(s, e))
           /\ Range(Append(s, e)) = Range(s) \cup {e}
<1> DEFINE t == Append(s, e)
<1>1. /\ t \in Seq(S) /\ t # <<>> /\ Len(s) \in Nat
      /\ DOMAIN s = 1 .. Len(s) /\ DOMAIN t = 1 .. (Len(s) + 1)
      /\ t[Len(s) + 1] = e
      /\ \A i \in DOMAIN s : t[i] = s[i]
  BY AppendProperties
<1> HIDE DEF t
<1>2. \A i \in DOMAIN t : i \in DOMAIN s \/ i = Len(s) + 1
  BY <1>1
<1>3. Len(s) + 1 \in DOMAIN t /\ \A i \in DOMAIN s : i \in DOMAIN t /\ s[i] # e
  BY <1>1 DEF Range
<1>4. Distinct(t)
  BY <1>1, <1>2, <1>3 DEF Distinct
<1>5. Range(t) = Range(s) \cup {e}
  BY <1>1, <1>2, <1>3 DEF Range
<1> QED BY <1>1, <1>4, <1>5 DEF t

\* It is as long as the set of its elements is large.
LEMMA LengthOfDistinct ==
    ASSUME NEW S, IsFiniteSet(S), NEW s \in Seq(S), Distinct(s)
    PROVE  Len(s) = Cardinality(Range(s)) /\ Len(s) <= Cardinality(S)
           /\ Cardinality(S) \in Nat
<1>1. Len(s) \in Nat /\ DOMAIN s = 1 .. Len(s) /\ Range(s) \subseteq S
  BY DEF Range
<1>2. IsFiniteSet(Range(s)) /\ Cardinality(Range(s)) <= Cardinality(S)
      /\ Cardinality(S) \in Nat /\ Cardinality(Range(s)) \in Nat
  BY <1>1, FS_Subset, FS_CardinalityType
<1>3. IsFiniteSet(1 .. Len(s)) /\ Cardinality(1 .. Len(s)) = Len(s)
  BY <1>1, FS_Interval
<1>4. s \in Injection(1 .. Len(s), Range(s)) /\ s \in Surjection(1 .. Len(s), Range(s))
  BY <1>1 DEF Injection, Surjection, IsInjective, Range, Distinct
<1>5. Cardinality(1 .. Len(s)) = Cardinality(Range(s))
  BY <1>2, <1>4, FS_Injection
<1> QED BY <1>2, <1>3, <1>5

\* InsertByRank keeps a bucket sorted and adds the entry.
LEMMA InsertedByRank ==
    ASSUME NEW s \in Seq(Jobs), NEW j \in Jobs, Sorted(s), j \notin Range(s)
    PROVE  /\ InsertByRank(s, j) \in Seq(Jobs)
           /\ InsertByRank(s, j) # <<>>
           /\ Sorted(InsertByRank(s, j))
           /\ Range(InsertByRank(s, j)) = Range(s) \cup {j}
<1> DEFINE K == {i \in DOMAIN s : s[i] < j}
           n == Cardinality(K)
           t == InsertByRank(s, j)
<1>1. Len(s) \in Nat /\ DOMAIN s = 1 .. Len(s) /\ j \in Nat
      /\ \A i \in DOMAIN s : s[i] \in Nat /\ s[i] # j
  <2>1. Jobs \subseteq Nat
    BY FairAssumption
  <2>2. Len(s) \in Nat /\ DOMAIN s = 1 .. Len(s) /\ \A i \in DOMAIN s : s[i] \in Jobs
    OBVIOUS
  <2>3. \A i \in DOMAIN s : s[i] # j
    BY DEF Range
  <2> QED BY <2>1, <2>2, <2>3
<1>2. n \in 0 .. Len(s) /\ K = 1 .. n
  <2>1. CASE K = {}
    <3>1. n = 0
      BY <2>1, FS_EmptySet
    <3>2. K = 1 .. 0 /\ 0 \in 0 .. Len(s)
      BY <1>1, <2>1
    <3> QED BY <3>1, <3>2
  <2>2. CASE K # {}
    <3>1. IsFiniteSet(1 .. Len(s))
      BY <1>1, FS_Interval
    <3>2. K \in SUBSET (1 .. Len(s)) /\ K \in SUBSET Nat
      BY <1>1
    <3>3. IsFiniteSet(K)
      <4> HIDE DEF K
      <4> QED BY <3>1, <3>2, FS_Subset
    <3>4. PICK m \in K : \A i \in K : i <= m
      <4> HIDE DEF K
      <4> QED BY <2>2, <3>2, <3>3, LargestOf
    <3>5. m \in 1 .. Len(s) /\ s[m] < j
      BY <1>1
    <3>6. \A i \in 1 .. m : i \in K
      BY <1>1, <3>5 DEF Sorted
    <3>7. K = 1 .. m
      BY <1>1, <3>4, <3>5, <3>6
    <3>8. Cardinality(1 .. m) = m
      BY <3>5, FS_Interval
    <3>9. n = m
      <4> HIDE DEF K
      <4> QED BY <3>7, <3>8
    <3>10. m \in 0 .. Len(s)
      BY <1>1, <3>5
    <3> HIDE DEF n, K
    <3> QED BY <3>7, <3>9, <3>10
  <2> QED BY <2>1, <2>2
<1>3. t = SubSeq(s, 1, n) \o <<j>> \o SubSeq(s, n + 1, Len(s))
  BY DEF InsertByRank
<1>4. \A i \in DOMAIN s : (i <= n <=> s[i] < j) /\ (i > n <=> s[i] > j)
  BY <1>1, <1>2
<1> HIDE DEF n, K
<1>5. /\ SubSeq(s, 1, n) \in Seq(Jobs) /\ Len(SubSeq(s, 1, n)) = n
      /\ \A i \in 1 .. n : SubSeq(s, 1, n)[i] = s[i]
  BY <1>1, <1>2
<1>6. /\ SubSeq(s, n + 1, Len(s)) \in Seq(Jobs)
      /\ Len(SubSeq(s, n + 1, Len(s))) = Len(s) - n
      /\ \A i \in 1 .. (Len(s) - n) : SubSeq(s, n + 1, Len(s))[i] = s[n + i]
  <2>n. n \in Nat /\ Len(s) \in Nat /\ n <= Len(s)
    BY <1>1, <1>2
  <2>1. n + 1 \in Int /\ Len(s) \in Int /\ \A i \in (n + 1) .. Len(s) : s[i] \in Jobs
    BY <1>1, <1>2
  <2>2. /\ SubSeq(s, n + 1, Len(s)) \in Seq(Jobs)
        /\ Len(SubSeq(s, n + 1, Len(s)))
              = IF n + 1 <= Len(s) THEN Len(s) - (n + 1) + 1 ELSE 0
        /\ \A i \in 1 .. Len(s) - (n + 1) + 1 :
              SubSeq(s, n + 1, Len(s))[i] = s[(n + 1) + i - 1]
    BY <2>1, SubSeqProperties
  <2>3. Len(s) - (n + 1) + 1 = Len(s) - n /\ \A i \in Nat : (n + 1) + i - 1 = n + i
    BY <2>n
  <2>4. (IF n + 1 <= Len(s) THEN Len(s) - n ELSE 0) = Len(s) - n
    BY <2>n
  <2>5. \A i \in 1 .. Len(s) - n : i \in Nat
    BY <2>n
  <2> QED BY <2>2, <2>3, <2>4, <2>5
<1>7. /\ t \in Seq(Jobs) /\ DOMAIN t = 1 .. (Len(s) + 1)
      /\ \A i \in 1 .. n : t[i] = s[i]
      /\ t[n + 1] = j
      /\ \A i \in (n + 1) .. Len(s) : t[i + 1] = s[i]
  <2> DEFINE u == SubSeq(s, 1, n) \o <<j>>
             v == SubSeq(s, n + 1, Len(s))
  <2>1. /\ u \in Seq(Jobs) /\ Len(u) = n + 1
        /\ u[n + 1] = j /\ \A i \in 1 .. n : u[i] = s[i]
    BY <1>2, <1>5
  <2> HIDE DEF t, u, v
  <2>2. t = u \o v /\ v \in Seq(Jobs) /\ Len(v) = Len(s) - n
        /\ \A i \in 1 .. (Len(s) - n) : v[i] = s[n + i]
    BY <1>3, <1>6 DEF u, v
  <2>3. /\ t \in Seq(Jobs) /\ Len(t) = Len(u) + Len(v)
        /\ \A i \in 1 .. Len(u) + Len(v) :
              t[i] = IF i <= Len(u) THEN u[i] ELSE v[i - Len(u)]
    BY <2>1, <2>2, ConcatProperties
  <2>4. Len(u) + Len(v) = Len(s) + 1
    BY <1>1, <1>2, <2>1, <2>2
  <2>5. \A i \in (n + 1) .. Len(s) : t[i + 1] = s[i]
    <3> SUFFICES ASSUME NEW i \in (n + 1) .. Len(s) PROVE t[i + 1] = s[i]
      OBVIOUS
    <3>1. i + 1 \in 1 .. Len(u) + Len(v) /\ ~(i + 1 <= Len(u))
      BY <1>1, <1>2, <2>1, <2>4
    <3>2. (i + 1) - Len(u) = i - n /\ i - n \in 1 .. (Len(s) - n) /\ n + (i - n) = i
      BY <1>1, <1>2, <2>1
    <3> QED BY <2>2, <2>3, <3>1, <3>2
  <2>6. DOMAIN t = 1 .. (Len(s) + 1)
    BY <2>3, <2>4
  <2>7. \A i \in 1 .. (n + 1) : i \in 1 .. Len(u) + Len(v) /\ i <= Len(u)
    BY <1>1, <1>2, <2>1, <2>4
  <2>8. \A i \in 1 .. (n + 1) : t[i] = u[i]
    BY <2>3, <2>7
  <2>9. (\A i \in 1 .. n : i \in 1 .. (n + 1)) /\ n + 1 \in 1 .. (n + 1)
    BY <1>2
  <2> QED BY <2>1, <2>3, <2>5, <2>6, <2>8, <2>9
<1> HIDE DEF t
<1>8. \A i \in DOMAIN t : \/ i <= n /\ i \in DOMAIN s /\ t[i] = s[i] /\ s[i] < j
                          \/ i = n + 1 /\ t[i] = j
                          \/ /\ i > n + 1 /\ i - 1 \in DOMAIN s /\ i - 1 > n
                             /\ t[i] = s[i - 1] /\ s[i - 1] > j
  BY <1>1, <1>2, <1>4, <1>7
<1>9. Sorted(t)
  <2> SUFFICES ASSUME NEW i \in DOMAIN t, NEW k \in DOMAIN t, i < k PROVE t[i] < t[k]
    BY DEF Sorted
  <2>1. i \in Nat /\ k \in Nat /\ n \in Nat
    BY <1>2, <1>7
  <2>2. CASE k <= n
    <3>1. i \in DOMAIN s /\ k \in DOMAIN s /\ t[i] = s[i] /\ t[k] = s[k]
      BY <1>8, <2>1, <2>2
    <3> QED BY <3>1 DEF Sorted
  <2>3. CASE i <= n /\ k > n
    <3>1. i \in DOMAIN s /\ t[i] = s[i] /\ s[i] < j
      BY <1>8, <2>1, <2>3
    <3>2. t[k] = j \/ (k - 1 \in DOMAIN s /\ t[k] = s[k - 1] /\ s[k - 1] > j)
      BY <1>8, <2>1, <2>3
    <3> QED BY <1>1, <3>1, <3>2
  <2>4. CASE i > n
    <3>1. k - 1 \in DOMAIN s /\ t[k] = s[k - 1] /\ s[k - 1] > j
      BY <1>8, <2>1, <2>4
    <3>2. t[i] = j \/ (i - 1 \in DOMAIN s /\ t[i] = s[i - 1])
      BY <1>8, <2>1, <2>4
    <3>3. i - 1 < k - 1
      BY <2>1
    <3>4. i - 1 \in DOMAIN s => s[i - 1] < s[k - 1]
      BY <3>1, <3>3 DEF Sorted
    <3> QED BY <1>1, <3>1, <3>2, <3>4
  <2> QED BY <2>1, <2>2, <2>3, <2>4
<1>10. Range(t) = Range(s) \cup {j}
  <2>1. Range(t) \subseteq Range(s) \cup {j}
    BY <1>8 DEF Range
  <2>2. ASSUME NEW i \in DOMAIN s PROVE \E k \in DOMAIN t : t[k] = s[i]
    <3>1. CASE i <= n
      BY <1>1, <1>2, <1>7, <3>1
    <3>2. CASE i > n
      <4>1. i \in (n + 1) .. Len(s) /\ i + 1 \in DOMAIN t
        BY <1>1, <1>2, <1>7, <3>2
      <4> QED BY <1>7, <4>1
    <3> QED BY <1>1, <1>2, <3>1, <3>2
  <2>3. j \in Range(t)
    BY <1>1, <1>2, <1>7 DEF Range
  <2> QED BY <2>1, <2>2, <2>3 DEF Range
<1>11. t # <<>>
  BY <1>1, <1>7
<1> QED BY <1>7, <1>9, <1>10, <1>11 DEF t

-------------------------------------------------------------------------------
(* Pushing and popping.                                                    *)

\* What a push may assume of the bucket it adds to.
LEMMA BucketFacts ==
    ASSUME BucketsOk, NEW lane \in Lane, NEW p \in Projects
    PROVE  /\ bucket[lane][p] \in Seq(Jobs)
           /\ Sorted(bucket[lane][p])
           /\ Distinct(bucket[lane][p])
           /\ Range(bucket[lane][p]) = Home(lane, p)
<1>1. /\ bucket[lane][p] \in Seq(Jobs) /\ Sorted(bucket[lane][p])
      /\ Range(bucket[lane][p]) = Home(lane, p)
  BY DEF BucketsOk
<1>2. \A i \in DOMAIN bucket[lane][p] : i \in Nat /\ bucket[lane][p][i] \in Nat
  <2>1. Jobs \subseteq Nat
    BY FairAssumption
  <2>2. \A i \in DOMAIN bucket[lane][p] : i \in Nat /\ bucket[lane][p][i] \in Jobs
    BY <1>1
  <2> QED BY <2>1, <2>2
<1>3. \A i, k \in DOMAIN bucket[lane][p] : i = k \/ i < k \/ k < i
  BY <1>2
<1>4. Distinct(bucket[lane][p])
  BY <1>1, <1>2, <1>3 DEF Sorted, Distinct
<1> QED BY <1>1, <1>4

LEMMA PushKeepsBuckets ==
    ASSUME BucketsOk, NEW j \in Jobs, Push(j)
    PROVE  BucketsOk' /\ bucket'[LaneOf[j]][ProjectOf[j]] # <<>>
<1> DEFINE lane == LaneOf[j]
           p == ProjectOf[j]
<1>1. lane \in Lane /\ p \in Projects
  BY FairAssumption
<1>2. /\ j \notin jobIds /\ jobIds' = jobIds \cup {j}
      /\ bucket' = [bucket EXCEPT ![lane][p] = InsertByRank(@, j)]
  BY DEF Push
<1>3. PICK s : s = InsertByRank(bucket[lane][p], j)
  OBVIOUS
<1>4. j \notin Range(bucket[lane][p])
  BY <1>1, <1>2, BucketFacts DEF Home
<1>5. s \in Seq(Jobs) /\ s # <<>> /\ Sorted(s) /\ Range(s) = Range(bucket[lane][p]) \cup {j}
  BY <1>1, <1>3, <1>4, BucketFacts, InsertedByRank
<1>6. bucket \in [Lane -> [Projects -> Seq(Jobs)]] /\ jobIds \in SUBSET Jobs
  BY DEF BucketsOk
<1>7. /\ bucket' \in [Lane -> [Projects -> Seq(Jobs)]]
      /\ bucket'[lane][p] = s
      /\ \A l \in Lane, q \in Projects :
            l # lane \/ q # p => bucket'[l][q] = bucket[l][q]
  BY <1>1, <1>2, <1>3, <1>5, <1>6
<1>8. \A l \in Lane, q \in Projects :
        Home(l, q)' = IF l = lane /\ q = p THEN Home(l, q) \cup {j} ELSE Home(l, q)
  BY <1>2 DEF Home
<1>9. ASSUME NEW l \in Lane, NEW q \in Projects
      PROVE  Sorted(bucket'[l][q]) /\ Range(bucket'[l][q]) = Home(l, q)'
  <2>1. Sorted(bucket[l][q]) /\ Range(bucket[l][q]) = Home(l, q)
    BY BucketFacts
  <2>2. CASE l = lane /\ q = p
    BY <1>5, <1>7, <1>8, <2>1, <2>2
  <2>3. CASE l # lane \/ q # p
    <3>1. bucket'[l][q] = bucket[l][q] /\ Home(l, q)' = Home(l, q)
      BY <1>7, <1>8, <2>3
    <3> QED BY <2>1, <3>1
  <2> QED BY <2>2, <2>3
<1>10. jobIds' \in SUBSET Jobs
  BY <1>2, <1>6
<1> QED BY <1>5, <1>7, <1>9, <1>10 DEF BucketsOk

\* Only the projects that have a bucket, and who waits behind whom, matter to
\* the rings.
LEMMA PushKeepsRings ==
    ASSUME BucketsOk, RingsOk, NEW j \in Jobs, Push(j), UNCHANGED turns
    PROVE  RingsOk'
<1> DEFINE lane == LaneOf[j]
           p == ProjectOf[j]
<1>1. lane \in Lane /\ p \in Projects /\ IsFiniteSet(Projects)
  BY FairAssumption
<1>2. /\ bucket' = [bucket EXCEPT ![lane][p] = InsertByRank(@, j)]
      /\ ring' = IF bucket[lane][p] = <<>>
                 THEN [ring EXCEPT ![lane] = Append(@, p)] ELSE ring
  BY DEF Push, BackOfRing
<1>3. bucket'[lane][p] # <<>>
  BY PushKeepsBuckets
<1>4. \A l \in Lane, q \in Projects :
        l # lane \/ q # p => bucket'[l][q] = bucket[l][q]
  BY <1>1, <1>2 DEF BucketsOk
<1>5. /\ ring \in [Lane -> Seq(Projects)] /\ turns \in [Lane -> [Projects -> Nat]]
      /\ \A l \in Lane :
            /\ Distinct(ring[l])
            /\ Range(ring[l]) = {q \in Projects : bucket[l][q] # <<>>}
            /\ \A i \in DOMAIN ring[l] : turns[l][ring[l][i]] + i <= Cardinality(Projects)
            /\ \A q \in Projects : bucket[l][q] = <<>> => turns[l][q] = 0
  BY DEF RingsOk
<1>6. \A l \in Lane, q \in Projects : bucket'[l][q] = <<>> => turns[l][q] = 0
  BY <1>3, <1>4, <1>5, ZenonT(30)
<1>7. \A l \in Lane : l # lane =>
        {q \in Projects : bucket'[l][q] # <<>>} = {q \in Projects : bucket[l][q] # <<>>}
  BY <1>4
<1>8. {q \in Projects : bucket'[lane][q] # <<>>}
        = {q \in Projects : bucket[lane][q] # <<>>} \cup {p}
  BY <1>1, <1>3, <1>4
<1>9. CASE bucket[lane][p] # <<>>
  <2>1. ring' = ring
    BY <1>2, <1>9
  <2>2. {q \in Projects : bucket'[lane][q] # <<>>}
          = {q \in Projects : bucket[lane][q] # <<>>}
    BY <1>1, <1>8, <1>9
  <2> QED BY <1>5, <1>6, <1>7, <2>1, <2>2 DEF RingsOk
<1>10. CASE bucket[lane][p] = <<>>
  <2>1. p \notin Range(ring[lane]) /\ turns[lane][p] = 0
    BY <1>1, <1>5, <1>10
  <2>2. ring[lane] \in Seq(Projects) /\ Distinct(ring[lane])
    BY <1>1, <1>5
  <2>3. PICK r : r = Append(ring[lane], p)
    OBVIOUS
  <2>4. /\ r \in Seq(Projects)
        /\ DOMAIN r = 1 .. (Len(ring[lane]) + 1)
        /\ r[Len(ring[lane]) + 1] = p
        /\ \A i \in DOMAIN ring[lane] : r[i] = ring[lane][i]
        /\ Distinct(r)
        /\ Range(r) = Range(ring[lane]) \cup {p}
    BY <1>1, <2>1, <2>2, <2>3, AddedLast
  <2>5. ring' = [ring EXCEPT ![lane] = r]
    BY <1>1, <1>2, <1>5, <1>10, <2>3
  <2>6. /\ ring' \in [Lane -> Seq(Projects)] /\ ring'[lane] = r
        /\ \A l \in Lane : l # lane => ring'[l] = ring[l]
    BY <1>1, <1>5, <2>4, <2>5
  <2>7. Len(ring[lane]) + 1 <= Cardinality(Projects)
    <3>1. Len(r) <= Cardinality(Projects)
      BY <1>1, <2>4, LengthOfDistinct
    <3>2. Len(r) = Len(ring[lane]) + 1
      BY <2>2, <2>4
    <3> QED BY <3>1, <3>2
  <2>8. \A i \in DOMAIN r : turns[lane][r[i]] + i <= Cardinality(Projects)
    <3> SUFFICES ASSUME NEW i \in DOMAIN r
                 PROVE  turns[lane][r[i]] + i <= Cardinality(Projects)
      OBVIOUS
    <3>1. CASE i = Len(ring[lane]) + 1
      <4>1. turns[lane][r[i]] = 0 /\ i \in Nat
        BY <2>1, <2>2, <2>4, <3>1
      <4> QED BY <2>7, <3>1, <4>1
    <3>2. CASE i # Len(ring[lane]) + 1
      <4>1. i \in DOMAIN ring[lane]
        BY <2>2, <2>4, <3>2
      <4> QED BY <1>1, <1>5, <2>4, <4>1
    <3> QED BY <3>1, <3>2
  <2>9. ASSUME NEW l \in Lane
        PROVE  /\ Distinct(ring'[l])
               /\ Range(ring'[l]) = {q \in Projects : bucket'[l][q] # <<>>}
               /\ \A i \in DOMAIN ring'[l] :
                    turns[l][ring'[l][i]] + i <= Cardinality(Projects)
    <3>1. CASE l = lane
      BY <1>1, <1>5, <1>8, <2>4, <2>6, <2>8, <3>1
    <3>2. CASE l # lane
      BY <1>5, <1>7, <2>6, <3>2
    <3> QED BY <3>1, <3>2
  <2> QED BY <1>5, <1>6, <2>6, <2>9 DEF RingsOk
<1> QED BY <1>9, <1>10

\* What a pop may assume of the lane it takes from.
LEMMA PopFacts ==
    ASSUME BucketsOk, RingsOk, NEW lane \in Lane, PopLane(lane)
    PROVE  LET p == Head(ring[lane])
               j == Head(bucket[lane][p])
           IN  /\ p \in Projects /\ ring[lane] # <<>> /\ bucket[lane][p] # <<>>
               /\ j \in Jobs /\ j \in Home(lane, p)
               /\ \A i \in Home(lane, p) : j <= i
               /\ Tail(bucket[lane][p]) \in Seq(Jobs)
               /\ Sorted(Tail(bucket[lane][p]))
               /\ Range(Tail(bucket[lane][p])) = Home(lane, p) \ {j}
<1> DEFINE p == Head(ring[lane])
           s == bucket[lane][p]
<1>1. ring[lane] # <<>> /\ ring[lane] \in Seq(Projects)
  BY DEF PopLane, Waiting, RingsOk
<1>2. p \in Projects /\ p \in Range(ring[lane])
  BY <1>1, TakenFirst DEF RingsOk
<1>3. s # <<>>
  BY <1>2 DEF RingsOk
<1>4. s \in Seq(Jobs) /\ Sorted(s) /\ Distinct(s) /\ Range(s) = Home(lane, p)
  BY <1>2, BucketFacts
<1> HIDE DEF s
<1>5. /\ Head(s) \in Jobs /\ Head(s) \in Range(s) /\ Tail(s) \in Seq(Jobs)
      /\ Range(Tail(s)) = Range(s) \ {Head(s)}
  BY <1>3, <1>4, TakenFirst
<1>6. Sorted(Tail(s))
  <2>1. DOMAIN s = 1 .. Len(s) /\ Len(s) \in Nat \ {0}
    BY <1>3, <1>4
  <2>2. DOMAIN Tail(s) = 1 .. (Len(s) - 1)
        /\ \A i \in DOMAIN Tail(s) : i + 1 \in DOMAIN s /\ Tail(s)[i] = s[i + 1]
    BY <1>3, <1>4, <2>1
  <2>3. \A i, k \in DOMAIN Tail(s) : i < k => i + 1 < k + 1
    BY <2>2
  <2> QED BY <1>4, <2>2, <2>3 DEF Sorted
<1>7. \A i \in Home(lane, p) : Head(s) <= i
  <2> SUFFICES ASSUME NEW k \in DOMAIN s PROVE s[1] <= s[k]
    BY <1>3, <1>4 DEF Range
  <2>1. Jobs \subseteq Nat
    BY FairAssumption
  <2>2. 1 \in DOMAIN s /\ (k = 1 \/ 1 < k) /\ s[1] \in Jobs /\ s[k] \in Jobs
    BY <1>3, <1>4
  <2>3. 1 < k => s[1] < s[k]
    BY <1>4, <2>2 DEF Sorted
  <2>4. s[1] \in Nat /\ s[k] \in Nat
    BY <2>1, <2>2
  <2> QED BY <2>2, <2>3, <2>4
<1> QED BY <1>1, <1>2, <1>3, <1>4, <1>5, <1>6, <1>7 DEF s

LEMMA PopKeepsBuckets ==
    ASSUME BucketsOk, RingsOk, NEW lane \in Lane, PopLane(lane)
    PROVE  BucketsOk'
<1> DEFINE p == Head(ring[lane])
           s == bucket[lane][p]
           j == Head(s)
<1>1. /\ p \in Projects /\ j \in Jobs /\ j \in Home(lane, p)
      /\ Tail(s) \in Seq(Jobs) /\ Sorted(Tail(s))
      /\ Range(Tail(s)) = Home(lane, p) \ {j}
  BY PopFacts
<1>2. /\ bucket' = [bucket EXCEPT ![lane][p] = Tail(s)] /\ jobIds' = jobIds \ {j}
  BY DEF PopLane
<1>3. bucket \in [Lane -> [Projects -> Seq(Jobs)]] /\ jobIds \in SUBSET Jobs
  BY DEF BucketsOk
<1>4. PICK t : t = Tail(s)
  OBVIOUS
<1>5. PICK q : q = p
  OBVIOUS
<1>6. PICK i : i = j
  OBVIOUS
<1>7. /\ bucket' \in [Lane -> [Projects -> Seq(Jobs)]]
      /\ bucket'[lane][q] = t
      /\ \A l \in Lane, r \in Projects : l # lane \/ r # q => bucket'[l][r] = bucket[l][r]
  BY <1>1, <1>2, <1>3, <1>4, <1>5
<1>8. \A l \in Lane, r \in Projects :
        Home(l, r)' = IF l = lane /\ r = q THEN Home(l, r) \ {i} ELSE Home(l, r)
  BY <1>1, <1>2, <1>5, <1>6 DEF Home
<1>9. ASSUME NEW l \in Lane, NEW r \in Projects
      PROVE  Sorted(bucket'[l][r]) /\ Range(bucket'[l][r]) = Home(l, r)'
  <2>1. Sorted(t) /\ Range(t) = Home(lane, q) \ {i}
    BY <1>1, <1>4, <1>5, <1>6
  <2>2. Sorted(bucket[l][r]) /\ Range(bucket[l][r]) = Home(l, r)
    BY BucketFacts
  <2> QED BY <1>7, <1>8, <2>1, <2>2
<1>10. jobIds' \in SUBSET Jobs
  BY <1>2, <1>3
<1> QED BY <1>7, <1>9, <1>10 DEF BucketsOk

\* The project that was served goes to the end, or leaves; all others of the
\* lane come one place forward and have been passed over once more.
LEMMA PopKeepsRings ==
    ASSUME BucketsOk, RingsOk, NEW lane \in Lane, PopLane(lane)
    PROVE  RingsOk'
<1> DEFINE s == ring[lane]
           rest == Tail(bucket[lane][Head(s)])
<1>1. PICK p \in Projects : p = Head(s)
  BY PopFacts
<1>2. PICK r : r = RingAfter(s, p, rest)
  OBVIOUS
<1>3. /\ ring \in [Lane -> Seq(Projects)] /\ turns \in [Lane -> [Projects -> Nat]]
      /\ bucket \in [Lane -> [Projects -> Seq(Jobs)]]
      /\ \A l \in Lane :
            /\ Distinct(ring[l])
            /\ Range(ring[l]) = {q \in Projects : bucket[l][q] # <<>>}
            /\ \A i \in DOMAIN ring[l] : turns[l][ring[l][i]] + i <= Cardinality(Projects)
            /\ \A q \in Projects : bucket[l][q] = <<>> => turns[l][q] = 0
  BY DEF RingsOk, BucketsOk
<1>4. /\ bucket' = [bucket EXCEPT ![lane][p] = rest]
      /\ ring' = [ring EXCEPT ![lane] = r]
      /\ turns' = [turns EXCEPT ![lane] = [q \in Projects |->
              IF q # p /\ bucket[lane][q] # <<>> THEN @[q] + 1 ELSE 0]]
  BY <1>1, <1>2, <1>3 DEF PopLane
<1>5. s # <<>> /\ s \in Seq(Projects) /\ Distinct(s)
  BY <1>3, PopFacts
<1>6. /\ Tail(s) \in Seq(Projects) /\ Distinct(Tail(s))
      /\ Range(Tail(s)) = Range(s) \ {p} /\ p \in Range(s)
  BY <1>1, <1>5, TakenFirst
<1>7. /\ Len(s) \in Nat \ {0} /\ DOMAIN s = 1 .. Len(s)
      /\ DOMAIN Tail(s) = 1 .. (Len(s) - 1) /\ Len(Tail(s)) = Len(s) - 1
      /\ \A i \in DOMAIN Tail(s) : i \in Nat /\ i + 1 \in DOMAIN s /\ Tail(s)[i] = s[i + 1]
  BY <1>5
<1>8. /\ bucket'[lane][p] = rest
      /\ \A l \in Lane, q \in Projects : l # lane \/ q # p => bucket'[l][q] = bucket[l][q]
  BY <1>3, <1>4
<1>9. /\ r \in Seq(Projects) /\ Distinct(r)
      /\ Range(r) = IF rest = <<>> THEN Range(s) \ {p} ELSE Range(s)
      /\ \A i \in DOMAIN r : \/ i \in DOMAIN Tail(s) /\ r[i] = s[i + 1] /\ r[i] # p
                             \/ i = Len(s) /\ r[i] = p
  <2>1. \A i \in DOMAIN Tail(s) : Tail(s)[i] # p
    BY <1>6 DEF Range
  <2>2. CASE rest = <<>>
    <3>1. r = Tail(s)
      BY <1>2, <2>2 DEF RingAfter
    <3> QED BY <1>6, <1>7, <2>1, <2>2, <3>1
  <2>3. CASE rest # <<>>
    <3>1. r = Append(Tail(s), p) /\ p \notin Range(Tail(s))
      BY <1>2, <1>6, <2>3 DEF RingAfter, BackOfRing
    <3>2. /\ r \in Seq(Projects)
          /\ DOMAIN r = 1 .. (Len(Tail(s)) + 1)
          /\ r[Len(Tail(s)) + 1] = p
          /\ \A i \in DOMAIN Tail(s) : r[i] = Tail(s)[i]
          /\ Distinct(r)
          /\ Range(r) = Range(Tail(s)) \cup {p}
      <4>1. PICK t : t = Tail(s)
        OBVIOUS
      <4>2. t \in Seq(Projects) /\ Distinct(t) /\ p \notin Range(t)
        BY <1>6, <3>1, <4>1
      <4>3. r = Append(t, p)
        BY <3>1, <4>1
      <4>4. /\ Append(t, p) \in Seq(Projects)
            /\ DOMAIN Append(t, p) = 1 .. (Len(t) + 1)
            /\ Append(t, p)[Len(t) + 1] = p
            /\ \A i \in DOMAIN t : Append(t, p)[i] = t[i]
            /\ Distinct(Append(t, p))
            /\ Range(Append(t, p)) = Range(t) \cup {p}
        BY <4>2, AddedLast
      <4> QED BY <4>1, <4>3, <4>4
    <3>3. Range(r) = Range(s)
      BY <1>6, <3>2
    <3>4. \A i \in DOMAIN r : i \in DOMAIN Tail(s) \/ i = Len(s)
      BY <1>7, <3>2
    <3>5. Len(Tail(s)) + 1 = Len(s)
      BY <1>7
    <3> QED BY <1>7, <2>1, <2>3, <3>2, <3>3, <3>4, <3>5
  <2> QED BY <2>2, <2>3
<1>10. /\ ring' \in [Lane -> Seq(Projects)] /\ ring'[lane] = r
       /\ \A l \in Lane : l # lane => ring'[l] = ring[l]
  BY <1>3, <1>4, <1>9
<1>11. /\ turns' \in [Lane -> [Projects -> Nat]]
       /\ \A q \in Projects : turns'[lane][q]
             = IF q # p /\ bucket[lane][q] # <<>> THEN turns[lane][q] + 1 ELSE 0
       /\ \A l \in Lane : l # lane => turns'[l] = turns[l]
  BY <1>3, <1>4
<1>12. Len(s) <= Cardinality(Projects) /\ Cardinality(Projects) \in Nat
  BY <1>5, LengthOfDistinct, FairAssumption
<1>13. {q \in Projects : bucket'[lane][q] # <<>>}
         = IF rest = <<>> THEN Range(s) \ {p} ELSE Range(s)
  <2>1. Range(s) = {q \in Projects : bucket[lane][q] # <<>>}
    BY <1>3
  <2> HIDE DEF s, rest
  <2> QED BY <1>6, <1>8, <2>1
<1>14. ASSUME NEW i \in DOMAIN r
       PROVE  turns'[lane][r[i]] + i <= Cardinality(Projects)
  <2>1. CASE i \in DOMAIN Tail(s) /\ r[i] = s[i + 1] /\ r[i] # p
    <3>1. i + 1 \in DOMAIN s /\ i \in Nat /\ s[i + 1] \in Projects
      BY <1>5, <1>7, <2>1
    <3>2. turns[lane][s[i + 1]] + (i + 1) <= Cardinality(Projects)
          /\ bucket[lane][s[i + 1]] # <<>>
      BY <1>3, <3>1 DEF Range
    <3>3. turns'[lane][r[i]] = turns[lane][s[i + 1]] + 1
      BY <1>11, <2>1, <3>1, <3>2
    <3>4. turns[lane][s[i + 1]] \in Nat
      BY <1>3, <3>1
    <3> QED BY <1>12, <3>1, <3>2, <3>3, <3>4
  <2>2. CASE i = Len(s) /\ r[i] = p
    <3>1. turns'[lane][r[i]] = 0
      BY <1>11, <2>2
    <3> QED BY <1>7, <1>12, <2>2, <3>1
  <2> QED BY <1>9, <2>1, <2>2
<1>15. ASSUME NEW l \in Lane, NEW q \in Projects, bucket'[l][q] = <<>>
       PROVE  turns'[l][q] = 0
  <2>1. CASE l = lane
    <3>1. q = p \/ bucket[lane][q] = <<>>
      BY <1>8, <1>15, <2>1
    <3> QED BY <1>11, <2>1, <3>1
  <2>2. CASE l # lane
    BY <1>3, <1>8, <1>11, <1>15, <2>2
  <2> QED BY <2>1, <2>2
<1>16. ASSUME NEW l \in Lane
       PROVE  /\ Distinct(ring'[l])
              /\ Range(ring'[l]) = {q \in Projects : bucket'[l][q] # <<>>}
              /\ \A i \in DOMAIN ring'[l] :
                   turns'[l][ring'[l][i]] + i <= Cardinality(Projects)
  <2>1. CASE l = lane
    BY <1>9, <1>10, <1>13, <1>14, <2>1
  <2>2. CASE l # lane
    <3>1. {q \in Projects : bucket'[l][q] # <<>>} = {q \in Projects : bucket[l][q] # <<>>}
      BY <1>8, <2>2
    <3>2. ring'[l] = ring[l] /\ turns'[l] = turns[l]
      BY <1>10, <1>11, <2>2
    <3> QED BY <1>3, <3>1, <3>2
  <2> QED BY <2>1, <2>2
<1> QED BY <1>10, <1>11, <1>15, <1>16 DEF RingsOk

-------------------------------------------------------------------------------
(* The dispatcher's steps.                                                 *)

LEMMA QueueInit == Init => QueueOk
<1> SUFFICES ASSUME Init PROVE QueueOk
  OBVIOUS
<1>1. <<>> \in Seq(Jobs) /\ <<>> \in Seq(Projects) /\ DOMAIN <<>> = {} /\ 0 \in Nat
  OBVIOUS
<1>2. Range(<<>>) = {} /\ Sorted(<<>>) /\ Distinct(<<>>)
  BY <1>1 DEF Range, Sorted, Distinct
<1>3. /\ \A lane \in Lane : ring[lane] = <<>>
      /\ \A lane \in Lane, p \in Projects : bucket[lane][p] = <<>> /\ turns[lane][p] = 0
      /\ jobIds = {} /\ len = 0 /\ budget = 0 /\ hand = NoJob
  BY DEF Init
<1>4. /\ ring \in [Lane -> Seq(Projects)]
      /\ bucket \in [Lane -> [Projects -> Seq(Jobs)]]
      /\ turns \in [Lane -> [Projects -> Nat]]
  BY <1>1 DEF Init
<1>5. BucketsOk
  BY <1>2, <1>3, <1>4 DEF BucketsOk, Home
<1>6. RingsOk
  BY <1>1, <1>2, <1>3, <1>4 DEF RingsOk
<1>7. CountsOk
  BY <1>3, FS_EmptySet, 0 \in Nat DEF CountsOk
<1> QED BY <1>5, <1>6, <1>7 DEF QueueOk

\* A push adds one to what is buffered, a pop takes one.
LEMMA PushCounts ==
    ASSUME QueueOk, NEW j \in Jobs, Push(j)
    PROVE  /\ IsFiniteSet(jobIds') /\ len' = Cardinality(jobIds')
           /\ len \in Nat /\ len' = len + 1
<1>1. IsFiniteSet(jobIds) /\ len = Cardinality(jobIds)
  BY DEF QueueOk, CountsOk
<1>2. j \notin jobIds /\ jobIds' = jobIds \cup {j} /\ len' = len + 1
  BY DEF Push
<1> QED BY <1>1, <1>2, FS_AddElement, FS_CardinalityType

LEMMA PopCounts ==
    ASSUME QueueOk, NEW lane \in Lane, PopLane(lane)
    PROVE  /\ IsFiniteSet(jobIds') /\ len' = Cardinality(jobIds')
           /\ len \in Nat \ {0} /\ len' = len - 1 /\ hand' \in Jobs
<1>1. IsFiniteSet(jobIds) /\ len = Cardinality(jobIds)
  BY DEF QueueOk, CountsOk
<1>2. PICK j \in Jobs : j = Head(bucket[lane][Head(ring[lane])]) /\ j \in jobIds
  BY PopFacts DEF QueueOk, Home
<1>3. jobIds' = jobIds \ {j} /\ len' = len - 1 /\ hand' = j
  BY <1>2 DEF PopLane
<1>4. Cardinality(jobIds) \in Nat /\ Cardinality(jobIds) # 0
  BY <1>1, <1>2, FS_CardinalityType, FS_EmptySet
<1> QED BY <1>1, <1>2, <1>3, <1>4, FS_RemoveElement

LEMMA QueueStep == QueueOk /\ [Next]_vars => QueueOk'
<1> SUFFICES ASSUME QueueOk, [Next]_vars PROVE QueueOk'
  OBVIOUS
<1>1. ASSUME UNCHANGED <<ring, bucket, jobIds, len, turns>>,
             budget' \in Nat, budget' <= len, hand' \in Jobs \cup {NoJob}
      PROVE  QueueOk'
  BY <1>1 DEF QueueOk, BucketsOk, RingsOk, CountsOk, Home
<1>2. ASSUME NEW j \in Jobs, Push(j), UNCHANGED <<budget, turns>>,
             hand' \in Jobs \cup {NoJob}
      PROVE  QueueOk'
  <2>1. BucketsOk' /\ RingsOk'
    BY <1>2, PushKeepsBuckets, PushKeepsRings DEF QueueOk
  <2>2. CountsOk'
    BY <1>2, PushCounts DEF QueueOk, CountsOk
  <2> QED BY <2>1, <2>2 DEF QueueOk
<1>3. ASSUME NEW lane \in Lane, PopLane(lane), budget > 0, budget' = budget - 1
      PROVE  QueueOk'
  <2>1. BucketsOk' /\ RingsOk'
    BY <1>3, PopKeepsBuckets, PopKeepsRings DEF QueueOk
  <2>2. CountsOk'
    BY <1>3, PopCounts DEF QueueOk, CountsOk
  <2> QED BY <2>1, <2>2 DEF QueueOk
<1>4. CASE UNCHANGED vars
  BY <1>1, <1>4 DEF vars, QueueOk, CountsOk
<1>5. ASSUME NEW j \in Jobs, Accept(j) PROVE QueueOk'
  BY <1>2, <1>5 DEF Accept, LoopIdle, QueueOk, CountsOk
<1>6. ASSUME NEW j \in Jobs, Age(j) PROVE QueueOk'
  BY <1>1, <1>6 DEF Age, QueueOk, CountsOk
<1>7. CASE StartPass
  <2>1. len \in Nat /\ PullBatch \in Nat
    BY FairAssumption, FS_CardinalityType DEF QueueOk, CountsOk
  <2> QED BY <1>1, <1>7, <2>1 DEF StartPass, QueueOk, CountsOk
<1>8. CASE PopAged
  BY <1>3, <1>8 DEF PopAged, Lane
<1>9. CASE PopScheduled
  <2>1. PICK n \in 0 .. (Weight - 1) : PopLane(Slot((cursor + n) % Weight))
    BY <1>9 DEF PopScheduled
  <2>2. Slot((cursor + n) % Weight) \in Lane
    BY DEF Slot, Lane
  <2> QED BY <1>3, <1>9, <2>1, <2>2 DEF PopScheduled
<1>10. CASE Settle
  BY <1>1, <1>10 DEF Settle, QueueOk, CountsOk
<1>11. CASE Requeue
  <2>1. hand \in Jobs
    BY <1>11 DEF Requeue, QueueOk, CountsOk
  <2> QED BY <1>2, <1>11, <2>1 DEF Requeue
<1> QED BY <1>4, <1>5, <1>6, <1>7, <1>8, <1>9, <1>10, <1>11 DEF Next, Pop

LEMMA QueueImplies == QueueOk => Synchronized /\ ProjectWaitBounded
<1> SUFFICES ASSUME QueueOk PROVE Synchronized /\ ProjectWaitBounded
  OBVIOUS
<1>1. BucketsOk /\ RingsOk /\ CountsOk /\ IsFiniteSet(Projects)
  BY FairAssumption DEF QueueOk
<1>2. ASSUME NEW lane \in Lane
      PROVE  /\ Range(ring[lane]) = {p \in Projects : bucket[lane][p] # <<>>}
             /\ Len(ring[lane]) = Cardinality(Range(ring[lane]))
  BY <1>1, LengthOfDistinct DEF RingsOk
<1>3. jobIds = Buffered("interactive") \cup Buffered("batch")
  <2>1. \A lane \in Lane : Buffered(lane) = UNION {Home(lane, p) : p \in Projects}
    BY <1>1, BucketFacts DEF Buffered
  <2>2. \A lane \in Lane : Buffered(lane) = {j \in jobIds : LaneOf[j] = lane}
    <3>1. jobIds \subseteq Jobs
      BY <1>1 DEF BucketsOk
    <3>2. \A j \in jobIds : ProjectOf[j] \in Projects
      BY <3>1, FairAssumption
    <3>3. ASSUME NEW lane \in Lane
          PROVE  UNION {Home(lane, p) : p \in Projects}
                    = {j \in jobIds : LaneOf[j] = lane}
      BY <3>2 DEF Home
    <3> QED BY <2>1, <3>3
  <2>3. \A j \in jobIds : LaneOf[j] = "interactive" \/ LaneOf[j] = "batch"
    BY <1>1, FairAssumption DEF BucketsOk, Lane
  <2> QED BY <2>2, <2>3 DEF Lane
<1>4. Synchronized
  BY <1>1, <1>2, <1>3 DEF Synchronized, CountsOk
<1>5. ASSUME NEW lane \in Lane, NEW p \in Projects, bucket[lane][p] # <<>>
      PROVE  turns[lane][p] < Cardinality(Projects)
  <2>1. p \in Range(ring[lane])
    BY <1>2, <1>5
  <2>2. PICK i \in DOMAIN ring[lane] : ring[lane][i] = p
    BY <2>1 DEF Range
  <2>3. turns[lane][p] + i <= Cardinality(Projects) /\ turns[lane][p] \in Nat
    BY <1>1, <2>2 DEF RingsOk
  <2>4. i \in Nat \ {0} /\ Cardinality(Projects) \in Nat
    BY <1>1, FS_CardinalityType DEF RingsOk
  <2> QED BY <2>3, <2>4
<1> QED BY <1>4, <1>5 DEF ProjectWaitBounded

\* "project ring and buckets stay synchronized": the expect of LaneQueue::pop
\* cannot panic, no entry is out of reach, job_ids and len tell what is buffered.
THEOREM AlwaysSynchronized == Spec => []Synchronized
BY QueueInit, QueueStep, QueueImplies, PTL DEF Spec

\* Within a lane the round-robin of LaneQueue::pop passes a waiting project over
\* at most once for each other project, whatever is pushed and requeued.
THEOREM ProjectWaitAlwaysBounded == Spec => []ProjectWaitBounded
BY QueueInit, QueueStep, QueueImplies, PTL DEF Spec

\* Of the entries of one lane and project LaneQueue::pop returns the one of the
\* lowest rank, in whatever order LaneQueue::push was called.
THEOREM AlwaysServedInOrder == Spec => ServedInOrder
<1> DEFINE InOrder == hand' # hand /\ hand' # NoJob
              => \A j \in jobIds : LaneOf[j] = LaneOf[hand'] /\ ProjectOf[j] = ProjectOf[hand']
                                      => hand' <= j
<1>1. QueueOk /\ [Next]_vars => [InOrder]_vars
  <2> SUFFICES ASSUME QueueOk, Next PROVE InOrder
    BY DEF vars
  <2>1. ASSUME NEW lane \in Lane, PopLane(lane) PROVE InOrder
    <3>1. PICK p \in Projects : /\ hand' \in Home(lane, p)
                                /\ \A i \in Home(lane, p) : hand' <= i
      BY <2>1, PopFacts DEF PopLane, QueueOk
    <3> QED BY <3>1 DEF Home
  <2>2. CASE hand' = hand \/ hand' = NoJob
    BY <2>2
  <2>3. CASE PopAged
    BY <2>1, <2>3 DEF PopAged, Lane
  <2>4. CASE PopScheduled
    <3>1. PICK n \in 0 .. (Weight - 1) : PopLane(Slot((cursor + n) % Weight))
      BY <2>4 DEF PopScheduled
    <3>2. Slot((cursor + n) % Weight) \in Lane
      BY DEF Slot, Lane
    <3> QED BY <2>1, <3>1, <3>2
  <2> QED BY <2>2, <2>3, <2>4
          DEF Next, Accept, Age, StartPass, Pop, Settle, Requeue
<1>2. ServedInOrder <=> [][InOrder]_vars
  BY PTL DEF ServedInOrder
<1> QED BY <1>1, <1>2, QueueInit, QueueStep, PTL DEF Spec

-------------------------------------------------------------------------------
(* Control plane.                                                          *)

JobRun ==
    [state : JobState, lease : 0 .. MaxLeases, owner : {"worker", "none"},
     attempts : 1 .. MaxLeases, pending : Outcome \cup {NoOutcome},
     done : SUBSET Evidence, endedBy : 0 .. MaxLeases]

ControlRequest ==
    [kind : {"none", "result", "transition"}, lease : 0 .. MaxLeases,
     from : JobState, to : JobState, outcome : Outcome \cup {NoOutcome},
     done : SUBSET Evidence]

ControlHandler ==
    [at : {"idle", "record", "update", "classify", "drive", "reread", "confirm"},
     req : ControlRequest, state : JobState, rounds : Nat]

\* How far a run is once its worker knows the outcome.
Rank(s) ==
    IF s \in Outcome THEN 4
    ELSE IF s = "cleaning_up" THEN 3
    ELSE IF s = "collecting_artifacts" THEN 2
    ELSE IF s = "debug_available" THEN 1 ELSE 0

\* The run can be closed from here with this outcome.
Closable(s, outcome) ==
    \/ s \in FinalizingState
    \/ ValidTransition(s, "collecting_artifacts", [pending |-> outcome, done |-> {}])

\* The holder of the lease cannot write its outcome any more.
Shut(r, lap, ver) == lap \/ r.pending \notin {NoOutcome, ver[r.lease]}

\* The row: a lease is the last one given out and its run is open; a job that a
\* request ended ended as that request's worker reported.
RowOk(r, lap, ver, fen) ==
    /\ r.lease # Unleased =>
          /\ r.lease = r.attempts /\ r.owner = "worker" /\ r.endedBy = Unleased
          /\ r.state \in RunningState \cup FinalizingState
          /\ ver[r.lease] # NoOutcome => Closable(r.state, ver[r.lease])
    /\ r.endedBy # Unleased =>
          /\ r.endedBy = r.attempts /\ r.owner = "worker"
          /\ r.state = ver[r.endedBy] /\ Terminal(r.state)
    /\ r.state = "queued" => r.attempts < MaxLeases
    /\ r.state \in FinalizingState => r.pending \in Outcome
    /\ \A l \in Lease : ver[l] # NoOutcome => l <= r.attempts
    /\ fen => /\ r.lease # Unleased /\ ver[r.lease] # NoOutcome
              /\ Shut(r, lap, ver)

\* A handler: its request is its lease's report; one that was refused its record
\* is shut out while the lease lasts; one that drives a run has its outcome
\* recorded, is no further than the row, and has used no more rounds than the
\* row has advanced.
HandlerOk(x, r, lap, ver) ==
    /\ x.at # "idle" =>
          /\ x.req.lease \in Lease /\ x.req.kind \in {"result", "transition"}
          /\ x.req.outcome \in Outcome /\ ver[x.req.lease] = x.req.outcome
          /\ x.req.kind = "transition" =>
                <<x.req.from, x.req.to>> \in ClosingEdge(x.req.outcome)
    /\ x.at = "update" => x.req.kind = "transition"
    /\ x.at \in {"record", "drive", "reread"} => x.req.kind = "result"
    /\ x.at = "confirm" =>
          /\ Terminal(r.state)
          /\ r.state = IF x.req.kind = "result" THEN x.req.outcome ELSE x.req.to
    /\ (x.at = "classify" /\ x.req.kind = "result" /\ x.req.lease = r.lease)
          => Shut(r, lap, ver)
    /\ (x.at = "drive" /\ Terminal(x.state)) => r.state = x.state /\ x.state = x.req.outcome
    /\ (x.at \in {"drive", "reread"} /\ x.req.lease = r.lease)
          => r.pending = x.req.outcome
    /\ (x.at \in {"drive", "reread"} /\ x.req.lease \in {r.lease, r.endedBy}) =>
          /\ Terminal(x.state) \/ Closable(x.state, x.req.outcome)
          /\ r.state = x.state \/ Rank(x.state) < Rank(r.state)
          /\ lap \/ x.rounds <= Rank(x.state)
    /\ (x.at = "reread" /\ x.req.lease = r.lease /\ ~lap) => r.state # x.state

AnswersSound ==
    /\ run \in JobRun
    /\ lapsed \in BOOLEAN /\ fenced \in BOOLEAN
    /\ verdict \in [Lease -> Outcome \cup {NoOutcome}]
    /\ handler \in [Handlers -> ControlHandler]
    /\ RowOk(run, lapsed, verdict, fenced)
    /\ \A h \in Handlers : HandlerOk(handler[h], run, lapsed, verdict)

\* The row changes in a way that leaves no handler's lease in it.
LEMMA StrangerKeeps ==
    ASSUME NEW x \in ControlHandler, NEW r \in JobRun, NEW s \in JobRun,
           NEW lap, NEW lap2, NEW ver,
           HandlerOk(x, r, lap, ver), ~Terminal(r.state),
           x.at # "idle" => x.req.lease \notin {s.lease, s.endedBy}
    PROVE  HandlerOk(x, s, lap2, ver)
BY DEF HandlerOk

\* record_job_result.
LEMMA RecordedKeeps ==
    ASSUME NEW r \in JobRun, NEW s \in JobRun, NEW lap \in BOOLEAN, NEW fen \in BOOLEAN,
           NEW ver \in [Lease -> Outcome \cup {NoOutcome}],
           RowOk(r, lap, ver, fen),
           r.lease \in Lease, ~lap, ver[r.lease] \in Outcome,
           r.pending \in {NoOutcome, ver[r.lease]},
           s.pending = ver[r.lease], s.state = r.state, s.lease = r.lease,
           s.owner = r.owner, s.attempts = r.attempts, s.endedBy = r.endedBy
    PROVE  /\ RowOk(s, lap, ver, fen)
           /\ \A x \in ControlHandler : HandlerOk(x, r, lap, ver) => HandlerOk(x, s, lap, ver)
<1>1. r.lease # 0 /\ NoOutcome \notin Outcome
  BY DEF Lease, Outcome, NoOutcome
<1>2. ~Shut(r, lap, ver)
  BY DEF Shut
<1>3. RowOk(s, lap, ver, fen)
  BY <1>1, <1>2 DEF RowOk, Unleased
<1>4. ASSUME NEW x \in ControlHandler, HandlerOk(x, r, lap, ver)
      PROVE  HandlerOk(x, s, lap, ver)
  BY <1>1, <1>2, <1>4 DEF HandlerOk
<1> QED BY <1>3, <1>4

\* transition_job_state under the row's lease.
LEMMA MovedKeeps ==
    ASSUME NEW r \in JobRun, NEW s \in JobRun, NEW lap \in BOOLEAN, NEW fen \in BOOLEAN,
           NEW ver \in [Lease -> Outcome \cup {NoOutcome}],
           RowOk(r, lap, ver, fen),
           r.lease \in Lease, ~lap, ver[r.lease] \in Outcome,
           r.pending \in {NoOutcome, ver[r.lease]},
           s.pending = ver[r.lease], s.owner = r.owner, s.attempts = r.attempts,
           Rank(r.state) < Rank(s.state),
           \/ /\ s.state = ver[r.lease] /\ s.lease = Unleased /\ s.endedBy = r.lease
           \/ /\ s.state \in {"debug_available"} \cup FinalizingState
              /\ s.lease = r.lease /\ s.endedBy = r.endedBy
    PROVE  /\ RowOk(s, lap, ver, fen)
           /\ \A x \in ControlHandler : HandlerOk(x, r, lap, ver) => HandlerOk(x, s, lap, ver)
<1>1. /\ r.lease # 0 /\ NoOutcome \notin Outcome
      /\ Outcome \cap (RunningState \cup FinalizingState) = {}
      /\ "queued" \notin Outcome \cup RunningState \cup FinalizingState
  BY DEF Lease, Outcome, NoOutcome, RunningState, FinalizingState
<1>2. ~Shut(r, lap, ver) /\ ~fen
  BY <1>1 DEF Shut, RowOk, Unleased
<1>3. ~Terminal(r.state) /\ r.endedBy = 0
  BY <1>1 DEF RowOk, Terminal, Unleased
<1>4. s.state \in {"debug_available"} \cup FinalizingState => Closable(s.state, ver[r.lease])
  BY DEF Closable, ValidTransition
<1>5. CASE /\ s.state = ver[r.lease] /\ s.lease = Unleased /\ s.endedBy = r.lease
  <2>1. RowOk(s, lap, ver, fen)
    BY <1>1, <1>2, <1>3, <1>5 DEF RowOk, Unleased, Terminal
  <2>2. ASSUME NEW x \in ControlHandler, HandlerOk(x, r, lap, ver)
        PROVE  HandlerOk(x, s, lap, ver)
    <3>1. x.rounds \in Nat /\ Rank(x.state) \in 0 .. 4 /\ Rank(r.state) \in 0 .. 4 /\ Rank(s.state) = 4
      BY <1>5 DEF Rank, ControlHandler
    <3>2. ASSUME x.at \in {"drive", "reread"}, x.req.lease = r.lease
          PROVE  Rank(x.state) < Rank(s.state)
      BY <2>2, <3>1, <3>2 DEF HandlerOk
    <3> QED BY <1>1, <1>3, <1>5, <2>2, <3>2 DEF HandlerOk, Unleased, Lease
  <2> QED BY <2>1, <2>2
<1>6. CASE /\ s.state \in {"debug_available"} \cup FinalizingState
           /\ s.lease = r.lease /\ s.endedBy = r.endedBy
  <2>0. s.state \in RunningState \cup FinalizingState
    BY <1>6 DEF RunningState
  <2>1. RowOk(s, lap, ver, fen)
    BY <1>1, <1>2, <1>3, <1>4, <1>6, <2>0 DEF RowOk, Unleased, Terminal
  <2>2. ASSUME NEW x \in ControlHandler, HandlerOk(x, r, lap, ver)
        PROVE  HandlerOk(x, s, lap, ver)
    <3>1. x.rounds \in Nat /\ Rank(x.state) \in 0 .. 4 /\ Rank(r.state) \in 0 .. 4 /\ Rank(s.state) \in 0 .. 4
      BY DEF Rank, ControlHandler
    <3>2. ASSUME x.at \in {"drive", "reread"}, x.req.lease = r.lease
          PROVE  Rank(x.state) < Rank(s.state) /\ x.state # s.state
      BY <2>2, <3>1, <3>2 DEF HandlerOk
    <3> QED BY <1>1, <1>2, <1>3, <1>6, <2>2, <3>2 DEF HandlerOk, Unleased, Lease
  <2> QED BY <2>1, <2>2
<1> QED BY <1>5, <1>6

\* A step of the other writers: no handler moves.
LEMMA WritersKeep ==
    ASSUME AnswersSound,
           RunAdvances \/ RunCancelled \/ LeaseLapses \/ RunRecovered
             \/ RunFinalized \/ RunClaimed
    PROVE  AnswersSound'
<1>t. /\ run \in JobRun /\ lapsed \in BOOLEAN /\ fenced \in BOOLEAN
      /\ verdict \in [Lease -> Outcome \cup {NoOutcome}]
      /\ handler \in [Handlers -> ControlHandler]
      /\ RowOk(run, lapsed, verdict, fenced)
      /\ \A h \in Handlers : HandlerOk(handler[h], run, lapsed, verdict)
  BY DEF AnswersSound
<1>n. NoOutcome \notin Outcome /\ MaxLeases \in Nat \ {0} /\ Stages \subseteq RunningState
  BY ControlAssumption DEF NoOutcome, Outcome
<1>s. /\ Outcome \cap (RunningState \cup FinalizingState) = {}
      /\ RunningState \cap FinalizingState = {}
      /\ "queued" \notin Outcome \cup RunningState \cup FinalizingState
      /\ {"queued"} \cup RunningState \cup FinalizingState \cup Outcome = JobState
  BY DEF Outcome, RunningState, FinalizingState, JobState
<1>f. /\ run.lease \in 0 .. MaxLeases /\ run.attempts \in 1 .. MaxLeases
      /\ run.endedBy \in 0 .. MaxLeases /\ run.state \in JobState
      /\ run.pending \in Outcome \cup {NoOutcome} /\ run.done \in SUBSET Evidence
  BY <1>t DEF JobRun
<1>h. ASSUME NEW h \in Handlers, handler[h].at # "idle"
      PROVE  /\ handler[h].req.lease \in Lease /\ handler[h].req.lease # 0
             /\ verdict[handler[h].req.lease] # NoOutcome
  <2>1. HandlerOk(handler[h], run, lapsed, verdict)
    BY <1>t
  <2>2. /\ handler[h].req.lease \in Lease /\ handler[h].req.outcome \in Outcome
        /\ verdict[handler[h].req.lease] = handler[h].req.outcome
    BY <1>h, <2>1 DEF HandlerOk
  <2> QED BY <1>n, <2>2 DEF Lease
<1>q. ASSUME handler' = handler, verdict' = verdict, run' \in JobRun,
             lapsed' \in BOOLEAN, fenced' \in BOOLEAN,
             RowOk(run', lapsed', verdict, fenced'),
             \A h \in Handlers : HandlerOk(handler[h], run', lapsed', verdict)
      PROVE  AnswersSound'
  BY <1>q, <1>t DEF AnswersSound
<1>1. CASE RunAdvances
  <2>1. /\ Held(run.lease) /\ verdict[run.lease] = NoOutcome
        /\ lapsed' = lapsed /\ verdict' = verdict /\ handler' = handler /\ fenced' = fenced
    BY <1>1 DEF RunAdvances
  <2>2. PICK c \in Stages : run' = [run EXCEPT !.state = c]
    BY <1>1 DEF RunAdvances
  <2>3. /\ run' \in JobRun /\ run'.state = c /\ run'.lease = run.lease
        /\ run'.attempts = run.attempts /\ run'.owner = run.owner
        /\ run'.endedBy = run.endedBy /\ run'.pending = run.pending
    BY <1>t, <1>n, <1>s, <2>2 DEF JobRun
  <2>4. /\ run.lease # 0 /\ ~Terminal(run.state) /\ run.endedBy = 0
        /\ c \in RunningState /\ ~Terminal(c)
    BY <1>t, <1>n, <1>s, <2>1, <2>2 DEF Held, RowOk, Unleased, Terminal
  <2>5. RowOk(run', lapsed', verdict, fenced')
    BY <1>t, <1>s, <2>1, <2>3, <2>4 DEF RowOk, Unleased
  <2>6. ASSUME NEW h \in Handlers PROVE HandlerOk(handler[h], run', lapsed', verdict)
    <3>1. handler[h].at # "idle" => handler[h].req.lease \notin {run'.lease, run'.endedBy}
      BY <1>h, <2>1, <2>3, <2>4
    <3> QED BY <1>t, <2>3, <2>4, <3>1, StrangerKeeps
  <2> QED BY <1>q, <1>t, <2>1, <2>3, <2>5, <2>6
<1>2. CASE RunCancelled
  <2>1. /\ ~Terminal(run.state) /\ run.pending = NoOutcome
        /\ run' = [run EXCEPT !.state = "collecting_artifacts", !.pending = "cancelled"]
        /\ lapsed' = lapsed /\ verdict' = verdict /\ handler' = handler /\ fenced' = fenced
    BY <1>2 DEF RunCancelled
  <2>2. "collecting_artifacts" \in FinalizingState /\ "cancelled" \in Outcome
    BY DEF FinalizingState, Outcome
  <2>3. /\ run' \in JobRun /\ run'.state = "collecting_artifacts" /\ run'.lease = run.lease
        /\ run'.attempts = run.attempts /\ run'.owner = run.owner
        /\ run'.endedBy = run.endedBy /\ run'.pending = "cancelled"
    BY <1>t, <1>s, <2>1, <2>2 DEF JobRun
  <2>4. run.endedBy = 0
    BY <1>t, <2>1 DEF RowOk, Unleased
  <2>5. RowOk(run', lapsed', verdict, fenced')
    BY <1>t, <1>s, <2>1, <2>2, <2>3, <2>4 DEF RowOk, Unleased, Shut, Closable
  <2>6. ASSUME NEW h \in Handlers PROVE HandlerOk(handler[h], run', lapsed', verdict)
    BY <1>t, <1>n, <2>1, <2>3, <2>4 DEF HandlerOk, Shut, Lease
  <2> QED BY <1>q, <1>t, <2>1, <2>3, <2>5, <2>6
<1>3. CASE LeaseLapses
  <2>1. /\ lapsed' = TRUE /\ run' = run
        /\ verdict' = verdict /\ handler' = handler /\ fenced' = fenced
    BY <1>3 DEF LeaseLapses
  <2>2. RowOk(run', lapsed', verdict, fenced')
    BY <1>t, <2>1 DEF RowOk, Shut
  <2>3. ASSUME NEW h \in Handlers PROVE HandlerOk(handler[h], run', lapsed', verdict)
    BY <1>t, <2>1 DEF HandlerOk, Shut
  <2> QED BY <1>q, <1>t, <2>1, <2>2, <2>3
<1>4. CASE RunRecovered
  <2>1. /\ run.lease # 0 /\ lapsed' = FALSE /\ fenced' = FALSE
        /\ verdict' = verdict /\ handler' = handler
    BY <1>4 DEF RunRecovered, Unleased
  <2>2. ~Terminal(run.state) /\ run.endedBy = 0
    BY <1>t, <1>s, <2>1 DEF RowOk, Unleased, Terminal
  <2> DEFINE closed == [run EXCEPT
                 !.state = IF @ = "cleaning_up" THEN @ ELSE "collecting_artifacts",
                 !.done = IF run.state = "cleaning_up" THEN @ ELSE {},
                 !.lease = Unleased, !.owner = "none"]
             fresh == [run EXCEPT !.state = "queued", !.lease = Unleased,
                                  !.owner = "none", !.pending = NoOutcome, !.done = {}]
  <2>3. /\ closed \in JobRun /\ closed.state \in FinalizingState /\ closed.lease = 0
        /\ closed.endedBy = 0 /\ closed.attempts = run.attempts
        /\ closed.pending = run.pending
    <3>1. (IF run.state = "cleaning_up" THEN run.state ELSE "collecting_artifacts")
            \in FinalizingState
      BY DEF FinalizingState
    <3>2. (IF run.state = "cleaning_up" THEN run.done ELSE {}) \in SUBSET Evidence
      BY <1>f
    <3>3. 0 \in 0 .. MaxLeases
      BY <1>n
    <3> QED BY <1>t, <1>s, <2>2, <3>1, <3>2, <3>3 DEF JobRun, Unleased
  <2>4. /\ fresh \in JobRun /\ fresh.state = "queued" /\ fresh.lease = 0
        /\ fresh.endedBy = 0 /\ fresh.attempts = run.attempts
    <3>1. 0 \in 0 .. MaxLeases
      BY <1>n
    <3> QED BY <1>t, <1>s, <2>2, <3>1 DEF JobRun, Unleased
  <2>5. run' = IF run.pending = "cancelled" THEN closed
               ELSE IF run.attempts < MaxLeases THEN fresh
               ELSE [closed EXCEPT !.pending = "infra_failed"]
    BY <1>4, Zenon DEF RunRecovered
  <2>6. /\ [closed EXCEPT !.pending = "infra_failed"] \in JobRun
        /\ [closed EXCEPT !.pending = "infra_failed"].state = closed.state
        /\ [closed EXCEPT !.pending = "infra_failed"].lease = 0
        /\ [closed EXCEPT !.pending = "infra_failed"].endedBy = 0
        /\ [closed EXCEPT !.pending = "infra_failed"].attempts = run.attempts
        /\ [closed EXCEPT !.pending = "infra_failed"].pending = "infra_failed"
    <3>1. "infra_failed" \in Outcome
      BY DEF Outcome
    <3> HIDE DEF closed
    <3> QED BY <2>3, <3>1 DEF JobRun
  <2> HIDE DEF closed, fresh
  <2>7. /\ run' \in JobRun /\ run'.lease = 0 /\ run'.endedBy = 0
        /\ run'.attempts = run.attempts
        /\ \/ run'.state = "queued" /\ run.attempts < MaxLeases
           \/ run'.state \in FinalizingState /\ run'.pending \in Outcome
    BY <2>3, <2>4, <2>5, <2>6 DEF Outcome
  <2>8. RowOk(run', lapsed', verdict, fenced')
    BY <1>t, <1>s, <2>1, <2>7 DEF RowOk, Unleased
  <2>9. ASSUME NEW h \in Handlers PROVE HandlerOk(handler[h], run', lapsed', verdict)
    <3>1. handler[h].at # "idle" => handler[h].req.lease \notin {run'.lease, run'.endedBy}
      BY <1>h, <2>7
    <3> QED BY <1>t, <2>2, <2>7, <3>1, StrangerKeeps
  <2> QED BY <1>q, <1>t, <2>1, <2>7, <2>8, <2>9
<1>5. CASE RunFinalized
  <2>1. /\ run.state \in FinalizingState /\ run.lease = 0
        /\ lapsed' = lapsed /\ verdict' = verdict /\ handler' = handler /\ fenced' = fenced
    BY <1>5 DEF RunFinalized, Unleased
  <2>2. ~Terminal(run.state) /\ run.endedBy = 0 /\ run.pending \in Outcome /\ ~fenced
    BY <1>t, <1>s, <2>1 DEF RowOk, Unleased, Terminal
  <2>3. /\ run' \in JobRun /\ run'.lease = 0 /\ run'.endedBy = 0
        /\ run'.attempts = run.attempts /\ run'.pending = run.pending
        /\ run'.state \in FinalizingState \cup Outcome
    <3>1. CASE run.state = "collecting_artifacts"
      <4>1. run' = [run EXCEPT !.state = "cleaning_up",
                               !.done = @ \cup {"artifacts_finalized"}]
        BY <1>5, <3>1 DEF RunFinalized
      <4>2. "cleaning_up" \in FinalizingState /\ run.done \cup {"artifacts_finalized"} \in SUBSET Evidence
        BY <1>f DEF FinalizingState, Evidence
      <4> QED BY <1>t, <1>s, <2>1, <2>2, <4>1, <4>2 DEF JobRun
    <3>2. CASE run.state # "collecting_artifacts"
      <4>1. run' = [run EXCEPT !.state = run.pending, !.done = Evidence]
        BY <1>5, <3>2 DEF RunFinalized
      <4> QED BY <1>t, <1>s, <2>1, <2>2, <4>1 DEF JobRun
    <3> QED BY <3>1, <3>2
  <2>4. RowOk(run', lapsed', verdict, fenced')
    BY <1>t, <1>s, <2>1, <2>2, <2>3 DEF RowOk, Unleased
  <2>5. ASSUME NEW h \in Handlers PROVE HandlerOk(handler[h], run', lapsed', verdict)
    <3>1. handler[h].at # "idle" => handler[h].req.lease \notin {run'.lease, run'.endedBy}
      BY <1>h, <2>3
    <3> QED BY <1>t, <2>2, <2>3, <3>1, StrangerKeeps
  <2> QED BY <1>q, <1>t, <2>1, <2>3, <2>4, <2>5
<1>6. CASE RunClaimed
  <2>1. /\ run.state = "queued"
        /\ run' = [run EXCEPT !.state = "claimed", !.lease = run.attempts + 1,
                              !.attempts = run.attempts + 1, !.owner = "worker"]
        /\ lapsed' = lapsed /\ verdict' = verdict /\ handler' = handler /\ fenced' = fenced
    BY <1>6 DEF RunClaimed
  <2>2. /\ ~Terminal(run.state) /\ run.endedBy = 0 /\ run.lease = 0 /\ ~fenced
        /\ run.attempts < MaxLeases
    BY <1>t, <1>s, <2>1 DEF RowOk, Unleased, Terminal
  <2>3. /\ run.attempts + 1 \in 0 .. MaxLeases /\ run.attempts + 1 \in 1 .. MaxLeases
        /\ run.attempts + 1 \in Lease /\ "claimed" \in RunningState
    BY <1>f, <1>n, <2>2 DEF Lease, RunningState
  <2>4. /\ run' \in JobRun /\ run'.lease = run.attempts + 1 /\ run'.endedBy = 0
        /\ run'.attempts = run.attempts + 1 /\ run'.owner = "worker"
        /\ run'.state = "claimed"
    BY <1>t, <1>s, <2>1, <2>2, <2>3 DEF JobRun
  <2>5. verdict[run.attempts + 1] = NoOutcome
    BY <1>t, <1>f, <2>3 DEF RowOk
  <2>6. /\ \A l \in Lease : verdict[l] # NoOutcome => l <= run'.attempts
    BY <1>t, <1>f, <1>n, <2>4 DEF RowOk, Lease
  <2>7. RowOk(run', lapsed', verdict, fenced')
    BY <1>s, <2>1, <2>2, <2>3, <2>4, <2>5, <2>6 DEF RowOk, Unleased
  <2>8. ASSUME NEW h \in Handlers PROVE HandlerOk(handler[h], run', lapsed', verdict)
    <3>1. handler[h].at # "idle" => handler[h].req.lease \notin {run'.lease, run'.endedBy}
      BY <1>h, <2>4, <2>5
    <3> QED BY <1>t, <2>2, <2>4, <3>1, StrangerKeeps
  <2> QED BY <1>q, <1>t, <2>1, <2>4, <2>7, <2>8
<1> QED BY <1>1, <1>2, <1>3, <1>4, <1>5, <1>6

\* One handler moves and the row goes from `run' to `run'''.
LEMMA HandlerMoves ==
    ASSUME AnswersSound, NEW h \in Handlers, NEW y \in ControlHandler,
           handler' = [handler EXCEPT ![h] = y], run' \in JobRun, lapsed' = lapsed,
           verdict' \in [Lease -> Outcome \cup {NoOutcome}], fenced' \in BOOLEAN,
           RowOk(run', lapsed, verdict', fenced'), HandlerOk(y, run', lapsed, verdict'),
           \A x \in ControlHandler :
              HandlerOk(x, run, lapsed, verdict) => HandlerOk(x, run', lapsed, verdict')
    PROVE  AnswersSound'
<1>1. /\ handler' \in [Handlers -> ControlHandler] /\ handler'[h] = y
      /\ \A k \in Handlers : k # h => handler'[k] = handler[k] /\ handler[k] \in ControlHandler
  BY DEF AnswersSound
<1> QED BY <1>1 DEF AnswersSound

\* What is known of a handler at work.
LEMMA Working ==
    ASSUME AnswersSound, NEW h \in Handlers, handler[h].at # "idle"
    PROVE  /\ handler[h] \in ControlHandler /\ handler[h].req \in ControlRequest
           /\ HandlerOk(handler[h], run, lapsed, verdict)
           /\ handler[h].req.lease \in Lease /\ handler[h].req.lease # 0
           /\ handler[h].req.outcome \in Outcome
           /\ verdict[handler[h].req.lease] = handler[h].req.outcome
           /\ NoOutcome \notin Outcome
           /\ run \in JobRun /\ lapsed \in BOOLEAN /\ fenced \in BOOLEAN
           /\ verdict \in [Lease -> Outcome \cup {NoOutcome}]
           /\ RowOk(run, lapsed, verdict, fenced)
<1>1. /\ handler[h] \in ControlHandler
      /\ HandlerOk(handler[h], run, lapsed, verdict)
      /\ run \in JobRun /\ lapsed \in BOOLEAN /\ fenced \in BOOLEAN
      /\ verdict \in [Lease -> Outcome \cup {NoOutcome}]
      /\ RowOk(run, lapsed, verdict, fenced)
  BY DEF AnswersSound
<1>2. /\ handler[h].req.lease \in Lease /\ handler[h].req.outcome \in Outcome
      /\ verdict[handler[h].req.lease] = handler[h].req.outcome
  BY <1>1 DEF HandlerOk
<1> QED BY <1>1, <1>2 DEF ControlHandler, Lease, NoOutcome, Outcome

\* An answer of StaleLease to a result of the row's lease is given only when that
\* lease is shut out.
LEMMA AnswerKeeps ==
    ASSUME AnswersSound, NEW h \in Handlers, NEW answer, Answer(h, answer),
           handler[h].at # "idle", run' \in JobRun, lapsed' = lapsed, verdict' = verdict,
           RowOk(run', lapsed, verdict, fenced),
           \A x \in ControlHandler :
              HandlerOk(x, run, lapsed, verdict) => HandlerOk(x, run', lapsed, verdict),
           (/\ answer = "stale_lease" /\ handler[h].req.kind = "result"
            /\ handler[h].req.lease \in {run.lease, run.endedBy})
              => /\ run' = run /\ handler[h].req.lease = run.lease
                 /\ Shut(run, lapsed, verdict)
    PROVE  AnswersSound'
<1>1. Resting \in ControlHandler /\ Resting.at = "idle"
  <2>1. Mute \in ControlRequest
    BY ControlAssumption DEF Mute, ControlRequest, Unleased, JobState
  <2> QED BY <2>1 DEF Resting, ControlHandler, JobState
<1>2. HandlerOk(Resting, run', lapsed, verdict)
  BY <1>1 DEF HandlerOk
<1>3. handler' = [handler EXCEPT ![h] = Resting]
  BY DEF Answer
<1>4. fenced' \in BOOLEAN /\ RowOk(run', lapsed, verdict, fenced')
  <2>1. CASE fenced' = fenced
    BY <2>1, Working
  <2>2. CASE fenced' # fenced
    <3>1. /\ fenced' = TRUE
          /\ answer = "stale_lease" /\ handler[h].req.kind = "result"
          /\ handler[h].req.lease \in {run.lease, run.endedBy}
      BY <2>2, Working DEF Answer
    <3>2. /\ run' = run /\ run.lease # 0 /\ verdict[run.lease] # NoOutcome
          /\ Shut(run, lapsed, verdict)
      BY <3>1, Working
    <3> QED BY <3>1, <3>2 DEF RowOk, Unleased
  <2> QED BY <2>1, <2>2
<1>5. verdict \in [Lease -> Outcome \cup {NoOutcome}]
  BY Working
<1> QED BY <1>1, <1>2, <1>3, <1>4, <1>5, HandlerMoves

\* A handler goes to confirm_ack once the job has ended as its request says.
LEMMA ConfirmKeeps ==
    ASSUME AnswersSound, NEW h \in Handlers, Confirm(h), handler[h].at # "idle",
           run' \in JobRun, lapsed' = lapsed, verdict' = verdict,
           RowOk(run', lapsed, verdict, fenced),
           \A x \in ControlHandler :
              HandlerOk(x, run, lapsed, verdict) => HandlerOk(x, run', lapsed, verdict),
           Terminal(run'.state),
           run'.state = IF handler[h].req.kind = "result"
                        THEN handler[h].req.outcome ELSE handler[h].req.to
    PROVE  AnswersSound'
<1> DEFINE y == [Resting EXCEPT !.at = "confirm", !.req = handler[h].req]
<1>1. Resting \in ControlHandler
  <2>1. Mute \in ControlRequest
    BY ControlAssumption DEF Mute, ControlRequest, Unleased, JobState
  <2> QED BY <2>1 DEF Resting, ControlHandler, JobState
<1>2. handler[h].req \in ControlRequest
  BY Working
<1>3. y \in ControlHandler /\ y.at = "confirm" /\ y.req = handler[h].req
  BY <1>1, <1>2 DEF ControlHandler
<1>4. handler' = [handler EXCEPT ![h] = y] /\ fenced' = fenced
  BY DEF Confirm
<1> HIDE DEF y
<1>5. HandlerOk(y, run', lapsed, verdict)
  BY <1>3, Working DEF HandlerOk
<1>6. verdict \in [Lease -> Outcome \cup {NoOutcome}] /\ fenced \in BOOLEAN
  BY Working
<1> QED BY <1>3, <1>4, <1>5, <1>6, HandlerMoves

\* A handler starts a round from a state that it has just seen in the row.
LEMMA DriveKeeps ==
    ASSUME AnswersSound, NEW h \in Handlers, NEW state \in JobState, NEW rounds \in Nat,
           Drive(h, state, rounds), handler[h].at # "idle", handler[h].req.kind = "result",
           run' \in JobRun, lapsed' = lapsed, verdict' = verdict,
           RowOk(run', lapsed, verdict, fenced),
           \A x \in ControlHandler :
              HandlerOk(x, run, lapsed, verdict) => HandlerOk(x, run', lapsed, verdict),
           run'.state = state, Terminal(state) => state = handler[h].req.outcome,
           handler[h].req.lease = run'.lease => run'.pending = handler[h].req.outcome,
           handler[h].req.lease \in {run'.lease, run'.endedBy} =>
              /\ Terminal(state) \/ Closable(state, handler[h].req.outcome)
              /\ lapsed \/ rounds <= Rank(state)
    PROVE  AnswersSound'
<1> DEFINE y == [handler[h] EXCEPT !.at = "drive", !.state = state, !.rounds = rounds]
<1>1. handler[h] \in ControlHandler
  BY Working
<1>2. /\ y \in ControlHandler /\ y.at = "drive" /\ y.req = handler[h].req
      /\ y.state = state /\ y.rounds = rounds
  BY <1>1 DEF ControlHandler
<1>3. handler' = [handler EXCEPT ![h] = y] /\ fenced' = fenced
  BY DEF Drive
<1> HIDE DEF y
<1>4. HandlerOk(y, run', lapsed, verdict)
  BY <1>2, Working DEF HandlerOk
<1>5. verdict \in [Lease -> Outcome \cup {NoOutcome}] /\ fenced \in BOOLEAN
  BY Working
<1> QED BY <1>2, <1>3, <1>4, <1>5, HandlerMoves

\* A handler that was refused goes to read the row again.
LEMMA EnterKeeps ==
    ASSUME AnswersSound, NEW h \in Handlers, NEW to \in {"classify", "reread"},
           Enter(h, to), handler[h].at # "idle", UNCHANGED <<run, lapsed, verdict>>,
           (/\ to = "classify" /\ handler[h].req.kind = "result"
            /\ handler[h].req.lease = run.lease) => Shut(run, lapsed, verdict),
           to = "reread" =>
              /\ handler[h].at = "drive"
              /\ (handler[h].req.lease = run.lease /\ ~lapsed)
                    => run.state # handler[h].state
    PROVE  AnswersSound'
<1> DEFINE y == [handler[h] EXCEPT !.at = to]
<1>1. handler[h] \in ControlHandler
  BY Working
<1>2. /\ y \in ControlHandler /\ y.at = to /\ y.req = handler[h].req
      /\ y.state = handler[h].state /\ y.rounds = handler[h].rounds
  BY <1>1 DEF ControlHandler
<1>3. handler' = [handler EXCEPT ![h] = y] /\ fenced' = fenced
  BY DEF Enter
<1> HIDE DEF y
<1>4. HandlerOk(y, run, lapsed, verdict)
  <2>1. CASE to = "classify"
    BY <1>2, <2>1, Working DEF HandlerOk
  <2>2. CASE to = "reread"
    BY <1>2, <2>2, Working DEF HandlerOk
  <2> QED BY <2>1, <2>2
<1>5. /\ verdict \in [Lease -> Outcome \cup {NoOutcome}] /\ fenced \in BOOLEAN
      /\ run \in JobRun /\ RowOk(run, lapsed, verdict, fenced)
  BY Working
<1> QED BY <1>2, <1>3, <1>4, <1>5, HandlerMoves

\* record_job_result, or the refusal that sends the handler to the row.
LEMMA RecordKeeps ==
    ASSUME AnswersSound, NEW h \in Handlers, Record(h)
    PROVE  AnswersSound'
<1> DEFINE req == handler[h].req
<1>0. handler[h].at = "record" /\ handler[h].at # "idle" /\ req.kind = "result"
  BY Working DEF Record, HandlerOk
<1>1. lapsed' = lapsed /\ verdict' = verdict
  BY DEF Record
<1>2. CASE /\ Held(req.lease) /\ ~Terminal(run.state) /\ Agrees(req.outcome)
           /\ run' = [run EXCEPT !.pending = req.outcome, !.done = @ \cup req.done]
           /\ Drive(h, run.state, 0)
  <2>1. /\ run.lease = req.lease /\ ~lapsed /\ run.pending \in {NoOutcome, req.outcome}
    BY <1>2 DEF Held, Agrees
  <2>2. /\ run' \in JobRun /\ run'.state = run.state /\ run'.lease = run.lease
        /\ run'.owner = run.owner /\ run'.attempts = run.attempts
        /\ run'.endedBy = run.endedBy /\ run'.pending = req.outcome
    <3>1. /\ run \in JobRun /\ req.outcome \in Outcome /\ req.done \in SUBSET Evidence
      BY <1>0, Working DEF ControlRequest
    <3>2. run.done \cup req.done \in SUBSET Evidence
      BY <3>1 DEF JobRun
    <3> HIDE DEF req
    <3> QED BY <1>2, <3>1, <3>2 DEF JobRun
  <2>3. /\ RowOk(run', lapsed, verdict, fenced)
        /\ \A x \in ControlHandler :
              HandlerOk(x, run, lapsed, verdict) => HandlerOk(x, run', lapsed, verdict)
    <3> HIDE DEF req
    <3> QED BY <1>0, <2>1, <2>2, Working, RecordedKeeps DEF req
  <2>4. /\ run.state \in JobState /\ 0 \in Nat /\ 0 <= Rank(run.state)
        /\ Closable(run.state, req.outcome)
    BY <1>0, <2>1, Working DEF JobRun, Rank, RowOk, Unleased
  <2> QED BY <1>0, <1>1, <1>2, <2>2, <2>3, <2>4, DriveKeeps
<1>3. CASE /\ ~Held(req.lease) \/ Terminal(run.state) \/ ~Agrees(req.outcome)
           /\ Enter(h, "classify") /\ UNCHANGED run
  <2>1. ASSUME req.lease = run.lease PROVE Shut(run, lapsed, verdict)
    <3>1. ~Terminal(run.state) /\ run.lease # Unleased
      <4>1. run.lease # Unleased /\ RowOk(run, lapsed, verdict, fenced)
        BY <1>0, <2>1, Working DEF Unleased
      <4> QED BY <4>1 DEF RowOk, Terminal, Outcome, RunningState, FinalizingState
    <3> QED BY <1>0, <1>3, <2>1, <3>1, Working DEF Shut, Held, Agrees
  <2> QED BY <1>0, <1>1, <1>3, <2>1, EnterKeeps
<1> QED BY <1>2, <1>3 DEF Record

\* The row tells a handler that its own lease ended the job.
LEMMA EndedByOwn ==
    ASSUME AnswersSound, NEW h \in Handlers, handler[h].at # "idle",
           handler[h].req.kind = "result", handler[h].req.lease = run.endedBy
    PROVE  EndedAlike(handler[h].req)
<1>1. run.endedBy # Unleased /\ verdict[run.endedBy] = handler[h].req.outcome
  BY Working DEF Unleased
<1> QED BY <1>1, Working DEF RowOk, EndedAlike

\* A row that is leased has not ended.
LEMMA LeasedIsOpen ==
    ASSUME AnswersSound, run.lease # Unleased
    PROVE  ~Terminal(run.state) /\ run.endedBy = Unleased
BY DEF AnswersSound, RowOk, Terminal, Outcome, RunningState, FinalizingState

\* Nothing changes but the handler.
LEMMA SameRow ==
    ASSUME AnswersSound, UNCHANGED <<run, lapsed, verdict>>
    PROVE  /\ run' \in JobRun /\ lapsed' = lapsed /\ verdict' = verdict
           /\ RowOk(run', lapsed, verdict, fenced)
           /\ \A x \in ControlHandler :
                 HandlerOk(x, run, lapsed, verdict) => HandlerOk(x, run', lapsed, verdict)
BY DEF AnswersSound

\* classify_replayed_result.
LEMMA ClassifyResultKeeps ==
    ASSUME AnswersSound, NEW h \in Handlers, ClassifyResult(h)
    PROVE  AnswersSound'
<1> DEFINE req == handler[h].req
<1>0. handler[h].at = "classify" /\ handler[h].at # "idle" /\ req.kind = "result"
  BY DEF ClassifyResult
<1>1. UNCHANGED <<run, lapsed, verdict>>
  BY DEF ClassifyResult
<1>2. CASE EndedAlike(req) /\ Confirm(h)
  BY <1>0, <1>1, <1>2, SameRow, ConfirmKeeps DEF EndedAlike
<1>3. CASE /\ ~EndedAlike(req) /\ StillPending(req) /\ Drive(h, run.state, 0)
  <2>1. run.lease = req.lease /\ run.pending = req.outcome /\ run.lease # Unleased
    BY <1>0, <1>3, Working DEF StillPending, Unleased
  <2>2. /\ run.state \in JobState /\ 0 \in Nat /\ 0 <= Rank(run.state)
        /\ Closable(run.state, req.outcome) /\ ~Terminal(run.state)
    BY <1>0, <2>1, Working, LeasedIsOpen DEF JobRun, Rank, RowOk
  <2> QED BY <1>0, <1>1, <1>3, <2>1, <2>2, SameRow, DriveKeeps
<1>4. CASE ~EndedAlike(req) /\ ~StillPending(req) /\ Answer(h, "stale_lease")
  <2>1. req.lease \in {run.lease, run.endedBy} => req.lease = run.lease
    BY <1>0, <1>4, EndedByOwn
  <2>2. req.lease = run.lease => Shut(run, lapsed, verdict)
    BY <1>0, Working DEF HandlerOk
  <2> QED BY <1>0, <1>1, <1>4, <2>1, <2>2, SameRow, AnswerKeeps
<1> QED BY <1>2, <1>3, <1>4 DEF ClassifyResult

\* The round lost its compare-and-swap.
LEMMA RereadKeeps ==
    ASSUME AnswersSound, NEW h \in Handlers, Reread(h)
    PROVE  AnswersSound'
<1> DEFINE req == handler[h].req
<1>0. handler[h].at = "reread" /\ handler[h].at # "idle" /\ req.kind = "result"
  BY Working DEF Reread, HandlerOk
<1>1. UNCHANGED <<run, lapsed, verdict>>
  BY DEF Reread
<1>2. CASE EndedAlike(req) /\ Confirm(h)
  BY <1>0, <1>1, <1>2, SameRow, ConfirmKeeps DEF EndedAlike
<1>3. CASE /\ ~Terminal(run.state) /\ StillPending(req)
           /\ Drive(h, run.state, handler[h].rounds + 1)
  <2>1. run.lease = req.lease /\ run.pending = req.outcome /\ run.lease # Unleased
    BY <1>0, <1>3, Working DEF StillPending, Unleased
  <2>2. /\ run.state \in JobState /\ handler[h].rounds \in Nat
        /\ Closable(run.state, req.outcome)
    BY <1>0, <2>1, Working DEF JobRun, ControlHandler, RowOk
  <2>3. lapsed \/ handler[h].rounds + 1 <= Rank(run.state)
    <3>1. /\ run.state = handler[h].state \/ Rank(handler[h].state) < Rank(run.state)
          /\ lapsed \/ handler[h].rounds <= Rank(handler[h].state)
          /\ ~lapsed => run.state # handler[h].state
      BY <1>0, <2>1, Working DEF HandlerOk
    <3>2. Rank(handler[h].state) \in Int /\ Rank(run.state) \in Int
      BY DEF Rank
    <3> QED BY <2>2, <3>1, <3>2
  <2>4. handler[h].rounds + 1 \in Nat
    BY <2>2
  <2> QED BY <1>0, <1>1, <1>3, <2>1, <2>2, <2>3, <2>4, SameRow, DriveKeeps
<1>4. CASE /\ ~EndedAlike(req)
           /\ Terminal(run.state) \/ ~StillPending(req)
           /\ Answer(h, "stale_lease")
  <2>1. ASSUME req.lease = run.lease PROVE FALSE
    <3>1. run.pending = req.outcome /\ run.lease # Unleased
      BY <1>0, <2>1, Working DEF HandlerOk, Unleased
    <3> QED BY <1>4, <2>1, <3>1, LeasedIsOpen DEF StillPending
  <2>2. req.lease \notin {run.lease, run.endedBy}
    BY <1>0, <1>4, <2>1, EndedByOwn
  <2> QED BY <1>0, <1>1, <1>4, <2>2, SameRow, AnswerKeeps
<1> QED BY <1>2, <1>3, <1>4 DEF Reread

\* A result that is not done has a valid edge ahead of it.
LEMMA NextEdge ==
    ASSUME NEW state \in JobState, NEW req \in ControlRequest, req.outcome \in Outcome,
           ~Terminal(state), NextResultState(state, req) # "none"
    PROVE  /\ NextResultState(state, req) \in FinalizingState \cup {req.outcome}
           /\ Rank(state) < Rank(NextResultState(state, req))
           /\ Closable(state, req.outcome) =>
                 ValidTransition(state, NextResultState(state, req), Claimed(req))
<1>1. Claimed(req).pending = req.outcome /\ Claimed(req).done = req.done
  BY DEF Claimed
<1>2. CASE state \in {"queued"} \cup RunningState
  <2>1. NextResultState(state, req) = "collecting_artifacts"
    BY <1>2 DEF NextResultState, RunningState
  <2>2. Rank(state) < Rank("collecting_artifacts")
    BY <1>2 DEF Rank, RunningState, Outcome
  <2>3. Closable(state, req.outcome) =>
           ValidTransition(state, "collecting_artifacts", Claimed(req))
    BY <1>1, <1>2 DEF Closable, ValidTransition, ForwardEdge, FinalizingState, RunningState
  <2> QED BY <2>1, <2>2, <2>3 DEF FinalizingState
<1>3. CASE state = "collecting_artifacts"
  <2>1. NextResultState(state, req) = "cleaning_up" /\ "artifacts_finalized" \in req.done
    BY <1>3 DEF NextResultState, RunningState
  <2> QED BY <1>1, <1>3, <2>1 DEF FinalizingState, Rank, Outcome, ValidTransition
<1>4. CASE state = "cleaning_up"
  <2>1. NextResultState(state, req) = req.outcome /\ "cleanup_completed" \in req.done
    BY <1>4 DEF NextResultState, RunningState
  <2> QED BY <1>1, <1>4, <2>1 DEF Rank, Outcome, ValidTransition, Terminal
<1> QED BY <1>2, <1>3, <1>4 DEF JobState, FinalizingState, Terminal

\* A compare-and-swap that succeeds.
LEMMA SwapKeeps ==
    ASSUME AnswersSound, NEW h \in Handlers, handler[h].at # "idle", NEW from, NEW to,
           Moves(handler[h].req, from), run' = Moved(to, handler[h].req),
           to = handler[h].req.outcome \/ to \in {"debug_available"} \cup FinalizingState,
           Rank(from) < Rank(to)
    PROVE  /\ run' \in JobRun /\ run'.state = to
           /\ RowOk(run', lapsed, verdict, fenced)
           /\ \A x \in ControlHandler :
                 HandlerOk(x, run, lapsed, verdict) => HandlerOk(x, run', lapsed, verdict)
           /\ run'.pending = handler[h].req.outcome
           /\ Terminal(to) <=> to = handler[h].req.outcome
           /\ Terminal(to) \/ Closable(to, handler[h].req.outcome)
           /\ run.lease = handler[h].req.lease /\ ~lapsed
<1>0. PICK req \in ControlRequest : req = handler[h].req
  BY Working
<1>1. /\ run.state = from /\ run.lease = req.lease /\ ~lapsed
      /\ run.pending \in {NoOutcome, req.outcome}
  BY <1>0 DEF Moves, Held, Agrees
<1>2. /\ req.lease \in Lease /\ req.outcome \in Outcome /\ verdict[req.lease] = req.outcome
      /\ run \in JobRun /\ req.done \in SUBSET Evidence
  BY <1>0, Working DEF ControlRequest
<1>3. /\ to \in JobState
      /\ Terminal(to) <=> to = req.outcome
      /\ Terminal(to) \/ Closable(to, req.outcome)
  BY <1>0, <1>2 DEF JobState, RunningState, FinalizingState, Outcome, Terminal, Closable,
                    ValidTransition
<1>4. /\ run' \in JobRun /\ run'.state = to /\ run'.pending = req.outcome
      /\ run'.owner = run.owner /\ run'.attempts = run.attempts
      /\ run'.lease = IF Terminal(to) THEN Unleased ELSE run.lease
      /\ run'.endedBy = IF Terminal(to) THEN req.lease ELSE run.endedBy
  <2>1. PICK lease \in 0 .. MaxLeases : lease = IF Terminal(to) THEN Unleased ELSE run.lease
    BY <1>2, ControlAssumption DEF JobRun, Unleased
  <2>2. PICK ended \in 0 .. MaxLeases : ended = IF Terminal(to) THEN req.lease ELSE run.endedBy
    BY <1>2 DEF JobRun, ControlRequest
  <2>3. run.done \cup req.done \in SUBSET Evidence
    BY <1>2 DEF JobRun
  <2>4. run' = [run EXCEPT !.state = to, !.pending = req.outcome,
                           !.done = run.done \cup req.done, !.lease = lease, !.endedBy = ended]
    BY <1>0, <2>1, <2>2 DEF Moved
  <2> QED BY <1>2, <1>3, <2>1, <2>2, <2>3, <2>4 DEF JobRun
<1>5. /\ lapsed \in BOOLEAN /\ fenced \in BOOLEAN
      /\ verdict \in [Lease -> Outcome \cup {NoOutcome}]
      /\ RowOk(run, lapsed, verdict, fenced)
  BY Working
<1>6. /\ RowOk(run', lapsed, verdict, fenced)
      /\ \A x \in ControlHandler :
            HandlerOk(x, run, lapsed, verdict) => HandlerOk(x, run', lapsed, verdict)
  <2>1. \/ /\ run'.state = verdict[run.lease] /\ run'.lease = Unleased
           /\ run'.endedBy = run.lease
        \/ /\ run'.state \in {"debug_available"} \cup FinalizingState
           /\ run'.lease = run.lease /\ run'.endedBy = run.endedBy
    BY <1>0, <1>1, <1>2, <1>3, <1>4
  <2> QED BY <1>1, <1>2, <1>4, <1>5, <2>1, MovedKeeps
<1> QED BY <1>0, <1>1, <1>3, <1>4, <1>6

\* A round of drive_result_finalizer.
LEMMA RoundKeeps ==
    ASSUME AnswersSound, NEW h \in Handlers, Round(h)
    PROVE  AnswersSound'
<1> DEFINE req == handler[h].req
           state == handler[h].state
           target == NextResultState(state, req)
<1>0. /\ handler[h].at = "drive" /\ handler[h].at # "idle" /\ req.kind = "result"
      /\ lapsed' = lapsed /\ verdict' = verdict
  BY Working DEF Round, HandlerOk
<1>1. /\ state \in JobState /\ handler[h].rounds \in Nat /\ req \in ControlRequest
      /\ req.outcome \in Outcome
  BY <1>0, Working DEF ControlHandler
<1>2. CASE handler[h].rounds = MaxRounds /\ Answer(h, "retry") /\ UNCHANGED run
  BY <1>0, <1>2, SameRow, AnswerKeeps
<1>3. CASE Terminal(state) /\ Confirm(h) /\ UNCHANGED run
  <2>1. run.state = state /\ state = req.outcome
    BY <1>0, <1>3, Working DEF HandlerOk
  <2> QED BY <1>0, <1>3, <2>1, SameRow, ConfirmKeeps
<1>4. CASE target = "none" /\ Answer(h, "accepted") /\ UNCHANGED run
  BY <1>0, <1>4, SameRow, AnswerKeeps
<1>5. CASE /\ ~Terminal(state) /\ target # "none" /\ ~ValidTransition(state, target, Claimed(req))
           /\ Answer(h, "stale_lease") /\ UNCHANGED run
  <2>1. ASSUME req.lease \in {run.lease, run.endedBy} PROVE FALSE
    <3>1. Closable(state, req.outcome)
      BY <1>0, <1>5, <2>1, Working DEF HandlerOk
    <3> QED BY <1>1, <1>5, <3>1, NextEdge
  <2> QED BY <1>0, <1>5, <2>1, SameRow, AnswerKeeps
<1>6. CASE /\ ~Terminal(state) /\ ValidTransition(state, target, Claimed(req))
           /\ Moves(req, state) /\ run' = Moved(target, req)
           /\ Drive(h, target, handler[h].rounds + 1)
  <2>1. target # "none"
    BY <1>6 DEF ValidTransition, ForwardEdge, Terminal, Outcome
  <2>2. target \in FinalizingState \cup {req.outcome} /\ Rank(state) < Rank(target)
    BY <1>1, <1>6, <2>1, NextEdge
  <2> HIDE DEF target
  <2>3. /\ run' \in JobRun /\ run'.state = target
        /\ RowOk(run', lapsed, verdict, fenced)
        /\ \A x \in ControlHandler :
              HandlerOk(x, run, lapsed, verdict) => HandlerOk(x, run', lapsed, verdict)
        /\ run'.pending = req.outcome
        /\ Terminal(target) <=> target = req.outcome
        /\ Terminal(target) \/ Closable(target, req.outcome)
        /\ run.lease = req.lease /\ ~lapsed
    BY <1>0, <1>6, <2>2, SwapKeeps
  <2>4. target \in JobState
    BY <1>1, <2>2 DEF JobState
  <2>5. handler[h].rounds + 1 \in Nat /\ handler[h].rounds + 1 <= Rank(target)
    <3>1. handler[h].rounds <= Rank(state)
      BY <1>0, <2>3, Working DEF HandlerOk
    <3>2. Rank(state) \in Int /\ Rank(target) \in Int
      BY DEF Rank
    <3> QED BY <1>1, <2>2, <3>1, <3>2
  <2> QED BY <1>0, <1>6, <2>3, <2>4, <2>5, DriveKeeps
<1>7. CASE ~Moves(req, state) /\ Enter(h, "reread") /\ UNCHANGED run
  <2>1. ASSUME req.lease = run.lease, ~lapsed PROVE run.state # state
    <3>1. run.pending = req.outcome /\ req.lease # Unleased
      BY <1>0, <2>1, Working DEF HandlerOk, Unleased
    <3> QED BY <1>7, <2>1, <3>1 DEF Moves, Held, Agrees
  <2> QED BY <1>0, <1>7, <2>1, EnterKeeps
<1> QED BY <1>2, <1>3, <1>4, <1>5, <1>6, <1>7 DEF Round

\* transition_job.
LEMMA UpdateKeeps ==
    ASSUME AnswersSound, NEW h \in Handlers, Update(h)
    PROVE  AnswersSound'
<1> DEFINE req == handler[h].req
<1>0. /\ handler[h].at = "update" /\ handler[h].at # "idle" /\ req.kind = "transition"
      /\ lapsed' = lapsed /\ verdict' = verdict
  BY Working DEF Update, HandlerOk
<1>1. CASE /\ Moves(req, req.from) /\ run' = Moved(req.to, req)
           /\ IF Terminal(req.to) THEN Confirm(h) ELSE Answer(h, "accepted")
  <2>1. /\ req.to = req.outcome \/ req.to \in {"debug_available"} \cup FinalizingState
        /\ Rank(req.from) < Rank(req.to)
    <3>1. <<req.from, req.to>> \in ClosingEdge(req.outcome) /\ req.outcome \in Outcome
      BY <1>0, Working DEF HandlerOk
    <3> QED BY <3>1 DEF ClosingEdge, Rank, Outcome
  <2>2. /\ run' \in JobRun /\ run'.state = req.to
        /\ RowOk(run', lapsed, verdict, fenced)
        /\ \A x \in ControlHandler :
              HandlerOk(x, run, lapsed, verdict) => HandlerOk(x, run', lapsed, verdict)
    BY <1>0, <1>1, <2>1, SwapKeeps
  <2> QED BY <1>0, <1>1, <2>2, ConfirmKeeps, AnswerKeeps
<1>2. CASE ~Moves(req, req.from) /\ Enter(h, "classify") /\ UNCHANGED run
  BY <1>0, <1>2, EnterKeeps
<1> QED BY <1>1, <1>2 DEF Update

\* classify_replayed_transition.
LEMMA ClassifyTransitionKeeps ==
    ASSUME AnswersSound, NEW h \in Handlers, ClassifyTransition(h)
    PROVE  AnswersSound'
<1>0. /\ handler[h].at # "idle" /\ handler[h].req.kind = "transition"
      /\ UNCHANGED <<run, lapsed, verdict>>
  BY DEF ClassifyTransition
<1>1. CASE run.state = handler[h].req.to /\ Terminal(handler[h].req.to) /\ Confirm(h)
  BY <1>0, <1>1, SameRow, ConfirmKeeps
<1>2. CASE \E answer : Answer(h, answer)
  BY <1>0, <1>2, SameRow, AnswerKeeps
<1> QED BY <1>1, <1>2 DEF ClassifyTransition

\* confirm_ack: the job has ended, and the lease that ended it was the last.
LEMMA ConfirmAnswerKeeps ==
    ASSUME AnswersSound, NEW h \in Handlers, ConfirmAnswer(h)
    PROVE  AnswersSound'
<1> DEFINE req == handler[h].req
<1>0. /\ handler[h].at = "confirm" /\ handler[h].at # "idle"
      /\ UNCHANGED <<run, lapsed, verdict>>
  BY DEF ConfirmAnswer
<1>1. PICK binding \in {Unleased, run.attempts} :
         Answer(h, IF binding \in {Unleased, req.lease} THEN "accepted" ELSE "stale_lease")
  BY DEF ConfirmAnswer
<1>2. ASSUME req.lease \in {run.lease, run.endedBy} PROVE binding \in {Unleased, req.lease}
  <2>1. Terminal(run.state) /\ req.lease # Unleased /\ RowOk(run, lapsed, verdict, fenced)
    BY <1>0, Working DEF HandlerOk, Unleased
  <2>2. run.lease = Unleased
    BY <2>1, LeasedIsOpen
  <2> QED BY <1>2, <2>1, <2>2 DEF RowOk
<1>3. PICK answer : /\ answer = IF binding \in {Unleased, req.lease} THEN "accepted" ELSE "stale_lease"
                    /\ Answer(h, answer)
  BY <1>1
<1>4. ~(answer = "stale_lease" /\ req.lease \in {run.lease, run.endedBy})
  BY <1>2, <1>3
<1> QED BY <1>0, <1>3, <1>4, SameRow, AnswerKeeps

\* The database or JetStream fails.
LEMMA HandlerFailsKeeps ==
    ASSUME AnswersSound, NEW h \in Handlers, HandlerFails(h)
    PROVE  AnswersSound'
<1>1. handler[h].at # "idle" /\ Answer(h, "retry") /\ UNCHANGED <<run, lapsed, verdict>>
  BY DEF HandlerFails
<1> QED BY <1>1, SameRow, AnswerKeeps

\* A request reaches a handler, and with the first one of a lease its report is
\* settled: the run can be closed with it.
LEMMA TakeRequestKeeps ==
    ASSUME AnswersSound, NEW h \in Handlers, NEW l \in Lease, NEW outcome \in Reports,
           TakeRequest(h, l, outcome)
    PROVE  AnswersSound'
<1>0. /\ run \in JobRun /\ lapsed \in BOOLEAN /\ fenced \in BOOLEAN
      /\ verdict \in [Lease -> Outcome \cup {NoOutcome}]
      /\ RowOk(run, lapsed, verdict, fenced)
  BY DEF AnswersSound
<1>1. /\ outcome \in Outcome /\ NoOutcome \notin Outcome /\ l # 0 /\ l \in 0 .. MaxLeases
  BY ControlAssumption DEF Outcome, NoOutcome, Lease
<1>2. /\ verdict' = [verdict EXCEPT ![l] = outcome]
      /\ run' = run /\ lapsed' = lapsed /\ fenced' = fenced /\ Knowable(l, outcome)
  BY DEF TakeRequest
<1>3. verdict' \in [Lease -> Outcome \cup {NoOutcome}] /\ verdict'[l] = outcome
  BY <1>0, <1>1, <1>2
<1>4. PICK req \in Requests(l, outcome) :
         handler' = [handler EXCEPT ![h] = [Resting EXCEPT
            !.at = IF req.kind = "result" THEN "record" ELSE "update", !.req = req]]
  BY DEF TakeRequest
<1>5. /\ req \in ControlRequest /\ req.lease = l /\ req.outcome = outcome
      /\ req.kind \in {"result", "transition"}
      /\ req.kind = "transition" => <<req.from, req.to>> \in ClosingEdge(outcome)
  <2>1. CASE req \in {ResultOf(l, outcome, done) : done \in Claims}
    <3>1. PICK done \in Claims : req = ResultOf(l, outcome, done)
      BY <2>1
    <3>2. done \in SUBSET Evidence
      BY ControlAssumption
    <3>3. req = [kind |-> "result", lease |-> l, from |-> "queued", to |-> "queued",
                 outcome |-> outcome, done |-> done]
      BY <3>1 DEF ResultOf, Mute
    <3> QED BY <1>1, <3>2, <3>3 DEF ControlRequest, JobState
  <2>2. CASE req \in {TransitionOf(l, e, outcome) : e \in ClosingEdge(outcome)}
    <3>1. PICK e \in ClosingEdge(outcome) : req = TransitionOf(l, e, outcome)
      BY <2>2
    <3>2. e = <<e[1], e[2]>> /\ e[1] \in JobState /\ e[2] \in JobState
      BY <1>1 DEF ClosingEdge, JobState, FinalizingState, RunningState
    <3>3. (IF Terminal(e[2]) THEN Evidence ELSE {}) \in SUBSET Evidence
      OBVIOUS
    <3> QED BY <1>1, <3>1, <3>2, <3>3 DEF TransitionOf, ControlRequest
  <2> QED BY <2>1, <2>2 DEF Requests
<1> DEFINE y == [Resting EXCEPT !.at = IF req.kind = "result" THEN "record" ELSE "update",
                                !.req = req]
<1>6. /\ y \in ControlHandler /\ y.req = req
      /\ y.at = IF req.kind = "result" THEN "record" ELSE "update"
  <2>1. Mute \in ControlRequest
    BY ControlAssumption DEF Mute, ControlRequest, Unleased, JobState
  <2>2. Resting \in ControlHandler
    BY <2>1 DEF Resting, ControlHandler, JobState
  <2> QED BY <1>5, <2>2 DEF ControlHandler
<1>7. handler' = [handler EXCEPT ![h] = y]
  BY <1>4
<1> HIDE DEF y
<1>8. HandlerOk(y, run', lapsed, verdict')
  BY <1>1, <1>3, <1>5, <1>6 DEF HandlerOk
<1>9. CASE verdict[l] = outcome
  <2>1. verdict' = verdict
    BY <1>0, <1>2, <1>9
  <2> QED BY <1>0, <1>2, <1>6, <1>7, <1>8, <2>1, HandlerMoves
<1>10. CASE verdict[l] # outcome
  <2>1. verdict[l] = NoOutcome /\ run.lease = l /\ Closable(run.state, outcome)
    BY <1>2, <1>10 DEF Knowable, Closable
  <2>2. \A k \in Lease : k # l => verdict'[k] = verdict[k]
    BY <1>0, <1>2
  <2>3. run.endedBy = Unleased /\ ~fenced /\ l = run.attempts
    BY <1>0, <1>1, <2>1 DEF RowOk, Unleased
  <2>4. \A k \in Lease : verdict'[k] # NoOutcome => k <= run.attempts
    BY <1>0, <2>2, <2>3 DEF RowOk, Lease
  <2>5. RowOk(run', lapsed, verdict', fenced')
    BY <1>0, <1>1, <1>2, <1>3, <2>1, <2>3, <2>4 DEF RowOk, Unleased
  <2>6. ASSUME NEW x \in ControlHandler, HandlerOk(x, run, lapsed, verdict)
        PROVE  HandlerOk(x, run', lapsed, verdict')
    <3>1. x.at # "idle" => x.req.lease \in Lease /\ x.req.lease # l
      BY <1>1, <2>1, <2>6 DEF HandlerOk
    <3> QED BY <1>2, <2>1, <2>2, <2>6, <3>1 DEF HandlerOk
  <2> QED BY <1>0, <1>2, <1>3, <1>6, <1>7, <1>8, <2>5, <2>6, HandlerMoves
<1> QED BY <1>9, <1>10

\* The claim before any request: nothing is reported, nobody is answered.
LEMMA AnswersSoundInit == ControlInit => AnswersSound
<1> SUFFICES ASSUME ControlInit PROVE AnswersSound
  OBVIOUS
<1>1. MaxLeases \in Nat \ {0} /\ Resting \in ControlHandler /\ Resting.at = "idle"
  <2>1. Mute \in ControlRequest
    BY ControlAssumption DEF Mute, ControlRequest, Unleased, JobState
  <2> QED BY <2>1, ControlAssumption DEF Resting, ControlHandler, JobState
<1>2. /\ run \in JobRun /\ run.lease = 1 /\ run.attempts = 1 /\ run.owner = "worker"
      /\ run.endedBy = 0 /\ run.state = "claimed"
  BY <1>1 DEF ControlInit, JobRun, JobState, RunningState, Unleased
<1>3. /\ verdict \in [Lease -> Outcome \cup {NoOutcome}]
      /\ \A l \in Lease : verdict[l] = NoOutcome
      /\ 1 \in Lease
  BY <1>1 DEF ControlInit, Lease
<1>4. lapsed = FALSE /\ fenced = FALSE /\ handler = [h \in Handlers |-> Resting]
  BY DEF ControlInit
<1>5. RowOk(run, lapsed, verdict, fenced)
  BY <1>2, <1>3, <1>4 DEF RowOk, RunningState, FinalizingState, Unleased
<1>6. HandlerOk(Resting, run, lapsed, verdict)
  BY <1>1 DEF HandlerOk
<1> QED BY <1>1, <1>2, <1>3, <1>4, <1>5, <1>6 DEF AnswersSound

\* Every step of a handler, a message or another writer.
LEMMA AnswersSoundStep == AnswersSound /\ [ControlNext]_controlVars => AnswersSound'
<1> SUFFICES ASSUME AnswersSound, [ControlNext]_controlVars PROVE AnswersSound'
  OBVIOUS
<1>1. CASE UNCHANGED controlVars
  BY <1>1 DEF AnswersSound, controlVars
<1>2. ASSUME NEW h \in Handlers, HandlerStep(h) PROVE AnswersSound'
  BY <1>2, RecordKeeps, ClassifyResultKeeps, RoundKeeps, RereadKeeps, UpdateKeeps,
     ClassifyTransitionKeeps, ConfirmAnswerKeeps, HandlerFailsKeeps DEF HandlerStep
<1>3. ASSUME NEW h \in Handlers, RefuseMessage(h) PROVE AnswersSound'
  BY <1>1, <1>3 DEF RefuseMessage
<1>4. ASSUME NEW h \in Handlers,
             \E l \in Lease, outcome \in Reports : TakeRequest(h, l, outcome)
      PROVE  AnswersSound'
  BY <1>4, TakeRequestKeeps
<1>5. CASE RunAdvances \/ RunCancelled \/ LeaseLapses \/ RunRecovered \/ RunFinalized
             \/ RunClaimed
  BY <1>5, WritersKeep
<1> QED BY <1>1, <1>2, <1>3, <1>4, <1>5 DEF ControlNext

\* AnswersSound holds throughout.
LEMMA AnswersAlwaysSound == ControlSpec => []AnswersSound
BY AnswersSoundInit, AnswersSoundStep, PTL DEF ControlSpec

\* However many handlers hold a worker's requests, and whatever else writes the
\* row between their transactions, one that goes on to confirm the queue message
\* finds the job ended as its request says, and a result that was answered
\* StaleLease under the row's lease never is the one that ended the job.
THEOREM AnswersAlwaysAgree == ControlSpec => []AnswersAgree
<1>1. AnswersSound => AnswersAgree
  <2> SUFFICES ASSUME AnswersSound PROVE AnswersAgree
    OBVIOUS
  <2>1. \A h \in Handlers : HandlerOk(handler[h], run, lapsed, verdict)
    BY DEF AnswersSound
  <2>2. fenced => run.endedBy = Unleased
    BY DEF AnswersSound, RowOk
  <2> QED BY <2>1, <2>2 DEF AnswersAgree, HandlerOk
<1> QED BY <1>1, AnswersAlwaysSound, PTL

\* drive_result_finalizer never runs out of its six rounds while its lease is
\* the row's or ended the job, unless that lease expired.
THEOREM RoundsAlwaysSuffice == ControlSpec => []RoundsSuffice
<1>1. AnswersSound => RoundsSuffice
  <2> SUFFICES ASSUME AnswersSound, NEW h \in Handlers, handler[h].at = "drive",
                      handler[h].rounds = 6,
                      handler[h].req.lease \in {run.lease, run.endedBy}
               PROVE  lapsed
    BY DEF RoundsSuffice, MaxRounds
  <2>1. lapsed \/ handler[h].rounds <= Rank(handler[h].state)
    BY Working DEF HandlerOk
  <2>2. Rank(handler[h].state) \in 0 .. 4
    BY DEF Rank
  <2> QED BY <2>1, <2>2
<1> QED BY <1>1, AnswersAlwaysSound, PTL

===============================================================================
