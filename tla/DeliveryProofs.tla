---------------------------- MODULE DeliveryProofs ----------------------------
(***************************************************************************)
(* Work is never lost, for every number of jobs and of overlapping leaders,*)
(* every number of attempts, every buffer size and every schedule of       *)
(* crashes, expiries, duplicates, strays and failed acknowledgements.      *)
(*                                                                         *)
(* The argument: a good message of a job that waits or runs is removed only*)
(* for a newer good message of that job.  So the newest one is in the      *)
(* stream, and one that has used up its deliveries has its advisory.  What *)
(* has to be invariant besides is why each leader, with its memory of some *)
(* earlier snapshot, is still right to remove what it is about to remove.  *)
(***************************************************************************)
EXTENDS Delivery, FiniteSetTheorems, SequenceTheorems, WellFoundedInduction, TLAPS

-------------------------------------------------------------------------------
(* Types.                                                                  *)

Message ==
    [job : Jobs, good : BOOLEAN, n : Nat, out : BOOLEAN, there : BOOLEAN]

Step ==
    {"buffer", "claim", "claimed", "bind", "end", "redrive", "poison", "letter",
     "ack", "delete", "done", "nak", "retire"}

Tasks == {Idle} \cup [step : Step, job : Jobs, seq : Nat, lease : Nat]

Binding == [lease : Nat, seq : Nat]

Memory ==
    [hand : Tasks, adv : Tasks, rec : Tasks,
     buf : [Jobs -> Nat], reg : [Jobs -> Binding],
     conf : SUBSET [job : Jobs, lease : Nat, acked : Nat],
     exhausted : [Jobs -> Nat], cancelled : [Jobs -> Nat]]

Typed ==
    /\ phase \in [Jobs -> Job!Phase]
    /\ tries \in [Jobs -> Nat]
    /\ row \in [Jobs -> {"none", "pending", "published"}]
    /\ stream \in Seq(Message)
    /\ mem \in [Leaders -> Memory]

-------------------------------------------------------------------------------
(* What the stream and each task of a leader rely on, as predicates of the *)
(* stream st, the phases ph, the redriven sequences red and the advisories *)
(* adv.                                                                    *)

\* s is a message the dispatcher can use for job j.
Good(st, s, j) == s \in DOMAIN st /\ st[s].job = j /\ st[s].good

\* A newer message will do the work of message s.
Covered(st, s) == \E u \in DOMAIN st : u > s /\ Good(st, u, st[s].job)

\* Phases of a job that will not run again.
Over == {"closing", "ended"}

StreamOk(st, ph, red, adv) ==
    /\ \A s \in DOMAIN st :
        /\ st[s].n <= MaxDeliver
        /\ st[s].there /\ ~st[s].out /\ st[s].n = MaxDeliver => s \in adv
        /\ st[s].good /\ ~st[s].there => ph[st[s].job] \in Over \/ Covered(st, s)
    /\ \A s \in red : s \in DOMAIN st /\ Covered(st, s)

\* The task t is about the message it names.
Handles(t, st) == t.seq \in DOMAIN st /\ st[t.seq].job = t.job

\* The dispatcher uses good messages only, and settles a message that is not,
\* or whose job has ended.
HandOk(t, st, ph) ==
    t # Idle =>
        /\ Handles(t, st)
        /\ t.step \in {"buffer", "claim", "claimed", "bind"} => st[t.seq].good
        /\ t.step \in {"redrive", "poison"} => ~st[t.seq].good
        /\ t.step \in {"ack", "letter"} => ~st[t.seq].good \/ ph[t.job] = "ended"

\* The advisory task deletes a source that is not good, that was replaced, or
\* whose job can no longer run; it is done with it when it is gone.
AdvOk(t, st, ph, red) ==
    t # Idle =>
        /\ Handles(t, st)
        /\ t.step = "letter" => ph[t.job] \in Over
        /\ t.step = "poison" => ~st[t.seq].good
        /\ t.step = "delete" => \/ ~st[t.seq].good
                                \/ ph[t.job] \in Over
                                \/ t.seq \in red
        /\ t.step = "done" => ~st[t.seq].there

\* The reconciler retires messages of ended jobs.
RecOk(t, ph) == t.step \in {"letter", "retire"} => ph[t.job] = "ended"

BufOk(buf, st) == \A j \in Jobs : buf[j] # 0 => Good(st, buf[j], j)

RegOk(reg, st) == \A j \in Jobs : reg[j] # NoBinding => Good(st, reg[j].seq, j)

\* So does the control plane.
ConfOk(conf, ph) == \A c \in conf : ph[c.job] = "ended"

MemOk(m, st, ph, red) ==
    /\ HandOk(m.hand, st, ph)
    /\ AdvOk(m.adv, st, ph, red)
    /\ RecOk(m.rec, ph)
    /\ BufOk(m.buf, st)
    /\ RegOk(m.reg, st)
    /\ ConfOk(m.conf, ph)

\* Whose first message the outbox does not hold any more, has one.
QueuedOk(st, ph, r, snt) ==
    \A j \in Jobs :
        /\ ph[j] # "absent" => r[j] = "pending" \/ j \in snt
        /\ j \in snt => \E s \in DOMAIN st : Good(st, s, j)

DeliveryInv ==
    /\ Typed
    /\ StreamOk(stream, phase, redriven, advisories)
    /\ \A l \in Leaders : MemOk(mem[l], stream, phase, redriven)
    /\ QueuedOk(stream, phase, row, sent)

-------------------------------------------------------------------------------
(* How the world moves on under a task that remembers it.                  *)

\* Messages keep their job and payload, new ones follow, none comes back.
Extends(st, st2) ==
    \A s \in DOMAIN st :
        /\ s \in DOMAIN st2
        /\ st2[s].job = st[s].job
        /\ st2[s].good = st[s].good
        /\ st2[s].there => st[s].there

\* A job that is over stays so, and one that ended has ended.
Later(ph, ph2) ==
    \A j \in Jobs : /\ ph[j] = "ended" => ph2[j] = "ended"
                    /\ ph[j] \in Over => ph2[j] \in Over

\* What a task remembers stays true while the world moves on.
LEMMA RemainsOk ==
    ASSUME NEW m \in Memory, NEW st \in Seq(Message), NEW st2 \in Seq(Message),
           NEW ph, NEW ph2, NEW red, NEW red2,
           Extends(st, st2), Later(ph, ph2), red \subseteq red2,
           MemOk(m, st, ph, red)
    PROVE  MemOk(m, st2, ph2, red2)
<1>1. \A s, j : Good(st, s, j) => Good(st2, s, j)
  BY DEF Extends, Good
<1>2. BufOk(m.buf, st2) /\ RegOk(m.reg, st2)
  BY <1>1 DEF MemOk, BufOk, RegOk
<1>3. \A c \in m.conf : c.job \in Jobs
  BY DEF Memory
<1>4. ConfOk(m.conf, ph2)
  BY <1>3 DEF MemOk, ConfOk, Later
<1>5. /\ m.hand # Idle => m.hand.job \in Jobs
      /\ m.adv # Idle => m.adv.job \in Jobs
      /\ m.rec # Idle => m.rec.job \in Jobs
  BY DEF Memory, Tasks
<1>6. RecOk(m.rec, ph2)
  BY <1>5 DEF MemOk, RecOk, Later, Idle
<1>7. HandOk(m.hand, st2, ph2)
  BY <1>5 DEF MemOk, HandOk, Handles, Extends, Later
<1>8. AdvOk(m.adv, st2, ph2, red2)
  BY <1>5 DEF MemOk, AdvOk, Handles, Extends, Later
<1> QED BY <1>2, <1>4, <1>6, <1>7, <1>8 DEF MemOk

\* A step of leader l: what it changes of its memory has to be right, the rest
\* remains so.
LEMMA MemoryStep ==
    ASSUME DeliveryInv, NEW l \in Leaders, mem' \in [Leaders -> Memory],
           stream' \in Seq(Message),
           \A k \in Leaders \ {l} : mem'[k] = mem[k],
           Extends(stream, stream'), Later(phase, phase'), redriven \subseteq redriven',
           mem'[l].hand = mem[l].hand \/ HandOk(mem'[l].hand, stream', phase'),
           mem'[l].adv = mem[l].adv \/ AdvOk(mem'[l].adv, stream', phase', redriven'),
           mem'[l].rec = mem[l].rec \/ RecOk(mem'[l].rec, phase'),
           mem'[l].buf = mem[l].buf \/ BufOk(mem'[l].buf, stream'),
           mem'[l].reg = mem[l].reg \/ RegOk(mem'[l].reg, stream'),
           mem'[l].conf \subseteq mem[l].conf \/ ConfOk(mem'[l].conf, phase')
    PROVE  \A k \in Leaders : MemOk(mem'[k], stream', phase', redriven')
<1>1. \A k \in Leaders : mem[k] \in Memory /\ MemOk(mem[k], stream, phase, redriven)
  BY DEF DeliveryInv, Typed
<1>2. stream \in Seq(Message)
  BY DEF DeliveryInv, Typed
<1>3. \A k \in Leaders : MemOk(mem[k], stream', phase', redriven')
  BY <1>1, <1>2, RemainsOk
<1>4. MemOk(mem'[l], stream', phase', redriven')
  BY <1>3 DEF MemOk, ConfOk
<1> QED BY <1>3, <1>4

\* A step that leaves all memory alone.
LEMMA WorldStep ==
    ASSUME DeliveryInv, UNCHANGED mem, stream' \in Seq(Message),
           Extends(stream, stream'), Later(phase, phase'), redriven \subseteq redriven'
    PROVE  \A k \in Leaders : MemOk(mem'[k], stream', phase', redriven')
<1>1. \A k \in Leaders : mem[k] \in Memory /\ MemOk(mem[k], stream, phase, redriven)
  BY DEF DeliveryInv, Typed
<1>2. stream \in Seq(Message)
  BY DEF DeliveryInv, Typed
<1> QED BY <1>1, <1>2, RemainsOk

-------------------------------------------------------------------------------
(* What happens to the stream.                                             *)

\* A message is replaced in place.
LEMMA Replaced ==
    ASSUME NEW st \in Seq(Message), NEW s \in DOMAIN st, NEW m \in Message,
           NEW st2, st2 = [st EXCEPT ![s] = m]
    PROVE  /\ st2 \in Seq(Message)
           /\ DOMAIN st2 = DOMAIN st
           /\ st2[s] = m
           /\ \A u \in DOMAIN st : u # s => st2[u] = st[u]
BY ExceptSeq

\* Removing a message that is not good, that was replaced, or whose job is over.
LEMMA RemoveOk ==
    ASSUME DeliveryInv, NEW s \in DOMAIN stream,
           \/ ~stream[s].good
           \/ phase[stream[s].job] \in Over
           \/ Covered(stream, s)
    PROVE  /\ Remove(s) \in Seq(Message)
           /\ DOMAIN Remove(s) = DOMAIN stream
           /\ ~Remove(s)[s].there
           /\ Extends(stream, Remove(s))
           /\ StreamOk(Remove(s), phase, redriven, advisories)
<1> DEFINE m == [stream[s] EXCEPT !.there = FALSE, !.out = FALSE]
           st == Remove(s)
<1>1. stream \in Seq(Message) /\ stream[s] \in Message
  BY DEF DeliveryInv, Typed
<1>2. m \in Message /\ m.job = stream[s].job /\ m.good = stream[s].good
      /\ m.n = stream[s].n /\ ~m.there
  BY <1>1 DEF Message
<1>3. st = [stream EXCEPT ![s] = m]
  BY <1>1 DEF Remove, Message
<1> HIDE DEF m, st
<1>4. /\ st \in Seq(Message)
      /\ DOMAIN st = DOMAIN stream
      /\ st[s] = m
      /\ \A u \in DOMAIN stream : u # s => st[u] = stream[u]
  BY <1>1, <1>2, <1>3, Replaced
<1>5. Extends(stream, st)
  BY <1>2, <1>4 DEF Extends
<1>6. \A u \in DOMAIN st : Covered(stream, u) => Covered(st, u)
  BY <1>4, <1>5 DEF Covered, Good, Extends
<1>7. StreamOk(stream, phase, redriven, advisories)
  BY DEF DeliveryInv
<1>8. StreamOk(st, phase, redriven, advisories)
  BY <1>2, <1>4, <1>6, <1>7 DEF StreamOk
<1> QED BY <1>2, <1>4, <1>5, <1>8 DEF st

\* A message is delivered, expires or is handed back: only `out' and `n' change.
LEMMA TouchOk ==
    ASSUME DeliveryInv, NEW s \in DOMAIN stream, NEW m \in Message,
           m.job = stream[s].job, m.good = stream[s].good,
           m.there = stream[s].there, m.n <= MaxDeliver,
           NEW adv, advisories \subseteq adv,
           m.there /\ ~m.out /\ m.n = MaxDeliver => s \in adv,
           NEW st, st = [stream EXCEPT ![s] = m]
    PROVE  /\ st \in Seq(Message)
           /\ DOMAIN st = DOMAIN stream
           /\ Extends(stream, st)
           /\ StreamOk(st, phase, redriven, adv)
<1>1. stream \in Seq(Message)
  BY DEF DeliveryInv, Typed
<1>2. /\ st \in Seq(Message)
      /\ DOMAIN st = DOMAIN stream
      /\ st[s] = m
      /\ \A u \in DOMAIN stream : u # s => st[u] = stream[u]
  BY <1>1, Replaced
<1>3. Extends(stream, st)
  BY <1>2 DEF Extends
<1>4. \A u \in DOMAIN st : Covered(stream, u) => Covered(st, u)
  BY <1>2, <1>3 DEF Covered, Good, Extends
<1>5. StreamOk(stream, phase, redriven, advisories)
  BY DEF DeliveryInv
<1>6. StreamOk(st, phase, redriven, adv)
  BY <1>2, <1>4, <1>5 DEF StreamOk
<1> QED BY <1>2, <1>3, <1>6

\* A message is published.
LEMMA AppendOk ==
    ASSUME DeliveryInv, NEW j \in Jobs, NEW good \in BOOLEAN,
           NEW st, st = Append(stream, NewMessage(j, good))
    PROVE  /\ st \in Seq(Message)
           /\ DOMAIN st = DOMAIN stream \cup {Len(stream) + 1}
           /\ Len(stream) + 1 \notin DOMAIN stream
           /\ st[Len(stream) + 1] = NewMessage(j, good)
           /\ Extends(stream, st)
           /\ StreamOk(st, phase, redriven, advisories)
<1>1. stream \in Seq(Message) /\ MaxTries \in Nat \ {0}
  BY DeliveryAssumption DEF DeliveryInv, Typed
<1>2. NewMessage(j, good) \in Message
  BY DEF NewMessage, Message
<1>3. /\ st \in Seq(Message)
      /\ DOMAIN st = DOMAIN stream \cup {Len(stream) + 1}
      /\ Len(stream) + 1 \notin DOMAIN stream
      /\ st[Len(stream) + 1] = NewMessage(j, good)
      /\ \A u \in DOMAIN stream : st[u] = stream[u]
  BY <1>1, <1>2, AppendProperties
<1>4. Extends(stream, st)
  BY <1>3 DEF Extends
<1>5. \A u \in DOMAIN stream : Covered(stream, u) => Covered(st, u)
  BY <1>3 DEF Covered, Good
<1>6. StreamOk(stream, phase, redriven, advisories)
  BY DEF DeliveryInv
<1>7. /\ NewMessage(j, good).n = 0 /\ NewMessage(j, good).there
      /\ 0 <= MaxDeliver /\ 0 # MaxDeliver
  BY <1>1 DEF NewMessage, MaxDeliver
<1>8. StreamOk(st, phase, redriven, advisories)
  <2> HIDE DEF NewMessage, MaxDeliver
  <2> QED BY <1>3, <1>5, <1>6, <1>7 DEF StreamOk
<1> QED BY <1>3, <1>4, <1>8

-------------------------------------------------------------------------------
(* A step is a move of the world and a justified change of one memory.     *)

WorldMoves ==
    /\ phase' \in [Jobs -> Job!Phase] /\ tries' \in [Jobs -> Nat]
    /\ stream' \in Seq(Message)
    /\ Extends(stream, stream')
    /\ Later(phase, phase')
    /\ redriven \subseteq redriven'
    /\ StreamOk(stream', phase', redriven', advisories')
    /\ \A j \in Jobs : phase'[j] # "absent" => phase[j] # "absent"
    /\ UNCHANGED <<row, sent>>

Justified(l) ==
    /\ mem' \in [Leaders -> Memory]
    /\ \A k \in Leaders \ {l} : mem'[k] = mem[k]
    /\ mem'[l].hand = mem[l].hand \/ HandOk(mem'[l].hand, stream', phase')
    /\ mem'[l].adv = mem[l].adv \/ AdvOk(mem'[l].adv, stream', phase', redriven')
    /\ mem'[l].rec = mem[l].rec \/ RecOk(mem'[l].rec, phase')
    /\ mem'[l].buf = mem[l].buf \/ BufOk(mem'[l].buf, stream')
    /\ mem'[l].reg = mem[l].reg \/ RegOk(mem'[l].reg, stream')
    /\ mem'[l].conf \subseteq mem[l].conf \/ ConfOk(mem'[l].conf, phase')

LEMMA MovesOk ==
    ASSUME DeliveryInv, WorldMoves,
           UNCHANGED mem \/ \E l \in Leaders : Justified(l)
    PROVE  DeliveryInv'
<1>1. QueuedOk(stream', phase', row', sent')
  <2>1. \A s, j : Good(stream, s, j) => Good(stream', s, j)
    BY DEF WorldMoves, Extends, Good
  <2> QED BY <2>1 DEF DeliveryInv, WorldMoves, QueuedOk, Good
<1>2. /\ stream' \in Seq(Message) /\ Extends(stream, stream')
      /\ Later(phase, phase') /\ redriven \subseteq redriven'
      /\ phase' \in [Jobs -> Job!Phase] /\ tries' \in [Jobs -> Nat] /\ row' = row
      /\ StreamOk(stream', phase', redriven', advisories')
  BY DEF WorldMoves
<1>3. row' \in [Jobs -> {"none", "pending", "published"}] /\ mem \in [Leaders -> Memory]
  BY <1>2 DEF DeliveryInv, Typed
<1>4. CASE UNCHANGED mem
  <2>1. \A k \in Leaders : MemOk(mem'[k], stream', phase', redriven')
    BY <1>2, <1>4, WorldStep
  <2> QED BY <1>1, <1>2, <1>3, <1>4, <2>1 DEF DeliveryInv, Typed
<1>5. ASSUME NEW l \in Leaders, Justified(l) PROVE DeliveryInv'
  <2>1. mem' \in [Leaders -> Memory]
    BY <1>5 DEF Justified
  <2>2. \A k \in Leaders : MemOk(mem'[k], stream', phase', redriven')
    BY <1>2, <1>5, MemoryStep DEF Justified
  <2> QED BY <1>1, <1>2, <1>3, <2>1, <2>2 DEF DeliveryInv, Typed
<1> QED BY <1>4, <1>5

\* The messages of the stream.
LEMMA MessageFields ==
    ASSUME DeliveryInv, NEW s \in DOMAIN stream
    PROVE  stream[s] \in Message /\ stream[s].job \in Jobs /\ s \in Nat \ {0}
<1>1. stream \in Seq(Message)
  BY DEF DeliveryInv, Typed
<1>2. stream[s] \in Message /\ s \in Nat \ {0}
  BY <1>1
<1>3. stream[s].job \in Jobs
  BY <1>2 DEF Message
<1> QED BY <1>2, <1>3

\* Nothing outside the memories changes.
LEMMA WorldStands ==
    ASSUME DeliveryInv, UNCHANGED <<phase, tries, row, stream, sent, redriven, advisories>>
    PROVE  WorldMoves
BY DEF DeliveryInv, Typed, WorldMoves, Extends, Later

\* What the contract lets happen to a job that was submitted.
Progress(j) ==
    \/ Job!Cancel(j) \/ Job!Start(j) \/ (\E outcome \in Reported : Job!Report(j, outcome))
    \/ Job!End(j) \/ Job!Retry(j) \/ Job!TakeOver(j) \/ Job!GiveUp(j)

LEMMA JobMoves ==
    ASSUME DeliveryInv, NEW j \in Jobs, Progress(j), UNCHANGED <<natsVars, row>>
    PROVE  WorldMoves
<1>1. /\ phase \in [Jobs -> Job!Phase] /\ tries \in [Jobs -> Nat]
      /\ stream \in Seq(Message)
      /\ StreamOk(stream, phase, redriven, advisories)
  BY DEF DeliveryInv, Typed
<1>2. /\ phase' \in [Jobs -> Job!Phase]
      /\ \A k \in Jobs : phase'[k] # "absent" => phase[k] # "absent"
      /\ Later(phase, phase')
  BY <1>1 DEF Progress, Job!Cancel, Job!Start, Job!Report, Job!End, Job!Retry,
              Job!TakeOver, Job!GiveUp, Job!Phase, Later, Over
<1>3. tries' \in [Jobs -> Nat]
  BY <1>1 DEF Progress, Job!Cancel, Job!Start, Job!Report, Job!End, Job!Retry,
              Job!TakeOver, Job!GiveUp
<1>4. UNCHANGED <<stream, sent, redriven, advisories, row>>
  BY DEF natsVars
<1>5. \A s \in DOMAIN stream : stream[s].job \in Jobs
  BY MessageFields
<1>6. StreamOk(stream', phase', redriven', advisories')
  BY <1>1, <1>2, <1>4, <1>5 DEF StreamOk, Later
<1> QED BY <1>1, <1>2, <1>3, <1>4, <1>6 DEF WorldMoves, Extends

\* A message is removed, for one of the three reasons there are.
LEMMA RemovalMoves ==
    ASSUME DeliveryInv, NEW s \in DOMAIN stream,
           \/ ~stream[s].good
           \/ phase[stream[s].job] \in Over
           \/ Covered(stream, s),
           stream' = Remove(s),
           UNCHANGED <<phase, tries, row, sent, redriven, advisories>>
    PROVE  /\ WorldMoves
           /\ DOMAIN stream' = DOMAIN stream
           /\ ~stream'[s].there
<1>1. /\ Remove(s) \in Seq(Message)
      /\ DOMAIN Remove(s) = DOMAIN stream
      /\ ~Remove(s)[s].there
      /\ Extends(stream, Remove(s))
      /\ StreamOk(Remove(s), phase, redriven, advisories)
  BY RemoveOk
<1>2. phase \in [Jobs -> Job!Phase] /\ tries \in [Jobs -> Nat]
  BY DEF DeliveryInv, Typed
<1> QED BY <1>1, <1>2 DEF WorldMoves, Later

\* A replacement is published, unless there is one.
LEMMA RedriveMoves ==
    ASSUME DeliveryInv, NEW s \in DOMAIN stream, Redrive(s),
           UNCHANGED <<phase, tries, row>>
    PROVE  WorldMoves /\ s \in redriven' /\ Extends(stream, stream')
<1>1. /\ phase \in [Jobs -> Job!Phase] /\ tries \in [Jobs -> Nat]
      /\ stream \in Seq(Message)
      /\ StreamOk(stream, phase, redriven, advisories)
  BY DEF DeliveryInv, Typed
<1>2. redriven' = redriven \cup {s} /\ UNCHANGED <<sent, advisories>>
  BY DEF Redrive
<1>3. CASE s \in redriven
  <2>1. stream' = stream /\ redriven' = redriven
    BY <1>2, <1>3 DEF Redrive
  <2> QED BY <1>1, <1>2, <1>3, <2>1 DEF WorldMoves, Extends, Later
<1>4. CASE s \notin redriven
  <2>1. stream' = Append(stream, NewMessage(stream[s].job, TRUE))
    BY <1>4 DEF Redrive
  <2>2. stream[s].job \in Jobs
    BY MessageFields
  <2>3. /\ stream' \in Seq(Message)
        /\ DOMAIN stream' = DOMAIN stream \cup {Len(stream) + 1}
        /\ stream'[Len(stream) + 1] = NewMessage(stream[s].job, TRUE)
        /\ Extends(stream, stream')
        /\ StreamOk(stream', phase, redriven, advisories)
    BY <2>1, <2>2, AppendOk
  <2>4. Len(stream) + 1 > s
    BY <1>1
  <2>5. Covered(stream', s)
    BY <2>3, <2>4 DEF Covered, Good, NewMessage, Extends
  <2>6. StreamOk(stream', phase, redriven \cup {s}, advisories)
    BY <2>3, <2>5 DEF StreamOk
  <2> QED BY <1>1, <1>2, <2>3, <2>6 DEF WorldMoves, Later
<1> QED BY <1>3, <1>4

\* A message may be delivered again, or gets its advisory.
LEMMA ReturnMoves ==
    ASSUME DeliveryInv, NEW s \in DOMAIN stream, Return(s),
           UNCHANGED <<phase, tries, row, sent, redriven>>
    PROVE  WorldMoves
<1> DEFINE m == [stream[s] EXCEPT !.out = FALSE]
<1>1. /\ phase \in [Jobs -> Job!Phase] /\ tries \in [Jobs -> Nat]
      /\ stream \in Seq(Message) /\ stream[s] \in Message
      /\ StreamOk(stream, phase, redriven, advisories)
  BY DEF DeliveryInv, Typed
<1>2. /\ m \in Message /\ m.job = stream[s].job /\ m.good = stream[s].good
      /\ m.there = stream[s].there /\ m.n = stream[s].n
  BY <1>1 DEF Message
<1>3. stream' = [stream EXCEPT ![s] = m]
  BY DEF Return
<1>4. advisories \subseteq advisories' /\ (m.there /\ m.n = MaxDeliver => s \in advisories')
  BY <1>2 DEF Return
<1>5. m.n <= MaxDeliver
  BY <1>1, <1>2 DEF StreamOk
<1> HIDE DEF m
<1>6. /\ stream' \in Seq(Message)
      /\ Extends(stream, stream')
      /\ StreamOk(stream', phase, redriven, advisories')
  BY <1>2, <1>3, <1>4, <1>5, TouchOk
<1> QED BY <1>1, <1>6 DEF WorldMoves, Later

\* A message is delivered.
LEMMA DeliverMoves ==
    ASSUME DeliveryInv, NEW s \in DOMAIN stream, stream[s].n < MaxDeliver,
           stream' = [stream EXCEPT ![s].out = TRUE, ![s].n = @ + 1],
           UNCHANGED <<phase, tries, row, sent, redriven, advisories>>
    PROVE  WorldMoves /\ DOMAIN stream' = DOMAIN stream
<1> DEFINE m == [stream[s] EXCEPT !.out = TRUE, !.n = @ + 1]
<1>1. /\ phase \in [Jobs -> Job!Phase] /\ tries \in [Jobs -> Nat]
      /\ stream \in Seq(Message) /\ stream[s] \in Message
  BY DEF DeliveryInv, Typed
<1>2. stream[s].n + 1 \in Nat /\ stream[s].n + 1 <= MaxDeliver
  BY <1>1, DeliveryAssumption DEF Message, MaxDeliver
<1>3. /\ m \in Message /\ m.job = stream[s].job /\ m.good = stream[s].good
      /\ m.there = stream[s].there /\ m.n = stream[s].n + 1 /\ m.out
  BY <1>1, <1>2 DEF Message
<1>4. stream' = [stream EXCEPT ![s] = m]
  BY <1>1 DEF Message
<1>5. m.n <= MaxDeliver
  BY <1>2, <1>3
<1> HIDE DEF m
<1>6. /\ stream' \in Seq(Message) /\ DOMAIN stream' = DOMAIN stream
      /\ Extends(stream, stream')
      /\ StreamOk(stream', phase, redriven, advisories)
  BY <1>3, <1>4, <1>5, TouchOk
<1> QED BY <1>1, <1>6 DEF WorldMoves, Later

-------------------------------------------------------------------------------
(* Changes of a leader's memory.                                           *)

LEMMA MemoryFields ==
    ASSUME DeliveryInv, NEW l \in Leaders
    PROVE  /\ mem \in [Leaders -> Memory] /\ mem[l] \in Memory
           /\ mem[l].hand \in Tasks /\ mem[l].adv \in Tasks /\ mem[l].rec \in Tasks
           /\ mem[l].buf \in [Jobs -> Nat] /\ mem[l].reg \in [Jobs -> Binding]
           /\ mem[l].conf \subseteq [job : Jobs, lease : Nat, acked : Nat]
           /\ mem[l].exhausted \in [Jobs -> Nat] /\ mem[l].cancelled \in [Jobs -> Nat]
           /\ MemOk(mem[l], stream, phase, redriven)
<1>1. mem \in [Leaders -> Memory] /\ mem[l] \in Memory
      /\ MemOk(mem[l], stream, phase, redriven)
  BY DEF DeliveryInv, Typed
<1> QED BY <1>1 DEF Memory

\* The memory of l becomes m, with a reason for everything new in it.
LEMMA MemoryBecomes ==
    ASSUME DeliveryInv, NEW l \in Leaders, NEW m \in Memory,
           mem' = [mem EXCEPT ![l] = m],
           m.hand = mem[l].hand \/ HandOk(m.hand, stream', phase'),
           m.adv = mem[l].adv \/ AdvOk(m.adv, stream', phase', redriven'),
           m.rec = mem[l].rec \/ RecOk(m.rec, phase'),
           m.buf = mem[l].buf \/ BufOk(m.buf, stream'),
           m.reg = mem[l].reg \/ RegOk(m.reg, stream'),
           m.conf \subseteq mem[l].conf \/ ConfOk(m.conf, phase')
    PROVE  Justified(l)
<1>1. /\ mem' \in [Leaders -> Memory] /\ mem'[l] = m
      /\ \A k \in Leaders \ {l} : mem'[k] = mem[k]
  BY MemoryFields
<1> QED BY <1>1 DEF Justified

\* The task in hand changes.
LEMMA HandBecomes ==
    ASSUME DeliveryInv, NEW l \in Leaders, NEW t \in Tasks,
           mem' = [mem EXCEPT ![l].hand = t], HandOk(t, stream', phase')
    PROVE  Justified(l)
<1> DEFINE m == [mem[l] EXCEPT !.hand = t]
<1>1. mem' = [mem EXCEPT ![l] = m]
  OBVIOUS
<1>2. /\ m \in Memory /\ m.hand = t /\ m.adv = mem[l].adv /\ m.rec = mem[l].rec
      /\ m.buf = mem[l].buf /\ m.reg = mem[l].reg /\ m.conf = mem[l].conf
  BY MemoryFields DEF Memory
<1> HIDE DEF m
<1> QED BY <1>1, <1>2, MemoryBecomes

LEMMA AdvBecomes ==
    ASSUME DeliveryInv, NEW l \in Leaders, NEW t \in Tasks,
           mem' = [mem EXCEPT ![l].adv = t], AdvOk(t, stream', phase', redriven')
    PROVE  Justified(l)
<1> DEFINE m == [mem[l] EXCEPT !.adv = t]
<1>1. mem' = [mem EXCEPT ![l] = m]
  OBVIOUS
<1>2. /\ m \in Memory /\ m.adv = t /\ m.hand = mem[l].hand /\ m.rec = mem[l].rec
      /\ m.buf = mem[l].buf /\ m.reg = mem[l].reg /\ m.conf = mem[l].conf
  BY MemoryFields DEF Memory
<1> HIDE DEF m
<1> QED BY <1>1, <1>2, MemoryBecomes

LEMMA RecBecomes ==
    ASSUME DeliveryInv, NEW l \in Leaders, NEW t \in Tasks,
           mem' = [mem EXCEPT ![l].rec = t], RecOk(t, phase')
    PROVE  Justified(l)
<1> DEFINE m == [mem[l] EXCEPT !.rec = t]
<1>1. mem' = [mem EXCEPT ![l] = m]
  OBVIOUS
<1>2. /\ m \in Memory /\ m.rec = t /\ m.hand = mem[l].hand /\ m.adv = mem[l].adv
      /\ m.buf = mem[l].buf /\ m.reg = mem[l].reg /\ m.conf = mem[l].conf
  BY MemoryFields DEF Memory
<1> HIDE DEF m
<1> QED BY <1>1, <1>2, MemoryBecomes

\* An entry of the fair buffer and the task in hand change.
LEMMA BufBecomes ==
    ASSUME DeliveryInv, NEW l \in Leaders, NEW t \in Tasks, NEW j \in Jobs, NEW s \in Nat,
           mem' = [mem EXCEPT ![l].buf[j] = s, ![l].hand = t],
           HandOk(t, stream', phase'),
           Extends(stream, stream'),
           s # 0 => Good(stream', s, j)
    PROVE  Justified(l)
<1> DEFINE m == [mem[l] EXCEPT !.buf[j] = s, !.hand = t]
           b == [mem[l].buf EXCEPT ![j] = s]
<1>1. mem' = [mem EXCEPT ![l] = m]
  BY MemoryFields
<1>2. /\ mem[l].buf \in [Jobs -> Nat] /\ BufOk(mem[l].buf, stream)
  BY MemoryFields DEF MemOk
<1>3. b \in [Jobs -> Nat] /\ b[j] = s /\ \A k \in Jobs \ {j} : b[k] = mem[l].buf[k]
  BY <1>2
<1>4. m.buf = b
  BY MemoryFields DEF Memory
<1>5. /\ m \in Memory /\ m.hand = t /\ m.adv = mem[l].adv /\ m.rec = mem[l].rec
      /\ m.reg = mem[l].reg /\ m.conf = mem[l].conf
  BY MemoryFields, <1>3 DEF Memory
<1> HIDE DEF m, b
<1>6. BufOk(b, stream')
  BY <1>2, <1>3 DEF BufOk, Good, Extends
<1> QED BY <1>1, <1>4, <1>5, <1>6, MemoryBecomes

\* A binding is replaced.
LEMMA RegOkAfter ==
    ASSUME DeliveryInv, NEW l \in Leaders, NEW j \in Jobs, NEW b \in Binding,
           Extends(stream, stream'), b # NoBinding => Good(stream', b.seq, j)
    PROVE  /\ [mem[l].reg EXCEPT ![j] = b] \in [Jobs -> Binding]
           /\ RegOk([mem[l].reg EXCEPT ![j] = b], stream')
<1> DEFINE r == [mem[l].reg EXCEPT ![j] = b]
<1>1. /\ mem[l].reg \in [Jobs -> Binding] /\ RegOk(mem[l].reg, stream)
  BY MemoryFields DEF MemOk
<1>2. r \in [Jobs -> Binding] /\ r[j] = b /\ \A k \in Jobs \ {j} : r[k] = mem[l].reg[k]
  BY <1>1
<1> HIDE DEF r
<1>3. RegOk(r, stream')
  BY <1>1, <1>2 DEF RegOk, Good, Extends
<1> QED BY <1>2, <1>3 DEF r

\* A binding and the task in hand change.
LEMMA RegBecomes ==
    ASSUME DeliveryInv, NEW l \in Leaders, NEW t \in Tasks, NEW j \in Jobs, NEW b \in Binding,
           mem' = [mem EXCEPT ![l].reg[j] = b, ![l].hand = t],
           HandOk(t, stream', phase'),
           Extends(stream, stream'), b # NoBinding => Good(stream', b.seq, j)
    PROVE  Justified(l)
<1> DEFINE m == [mem[l] EXCEPT !.reg[j] = b, !.hand = t]
           r == [mem[l].reg EXCEPT ![j] = b]
<1>1. mem' = [mem EXCEPT ![l] = m]
  BY MemoryFields
<1>2. r \in [Jobs -> Binding] /\ RegOk(r, stream')
  BY RegOkAfter
<1>3. m.reg = r
  BY MemoryFields DEF Memory
<1>4. /\ m \in Memory /\ m.hand = t /\ m.adv = mem[l].adv /\ m.rec = mem[l].rec
      /\ m.buf = mem[l].buf /\ m.conf = mem[l].conf
  BY MemoryFields, <1>2 DEF Memory
<1> HIDE DEF m, r
<1> QED BY <1>1, <1>2, <1>3, <1>4, MemoryBecomes

-------------------------------------------------------------------------------
(* The dispatcher.                                                         *)

\* What a leader may assume of the message in hand, ...
LEMMA InHand ==
    ASSUME DeliveryInv, NEW l \in Leaders, mem[l].hand.step # "idle"
    PROVE  LET t == mem[l].hand
           IN  /\ t # Idle /\ t \in [step : Step, job : Jobs, seq : Nat, lease : Nat]
               /\ t.step \in Step /\ t.job \in Jobs /\ t.lease \in Nat
               /\ t.seq \in Nat \ {0}
               /\ t.seq \in DOMAIN stream /\ stream[t.seq].job = t.job
               /\ HandOk(t, stream, phase)
<1>1. mem[l].hand \in Tasks /\ HandOk(mem[l].hand, stream, phase)
  BY MemoryFields DEF MemOk
<1>2. mem[l].hand # Idle
  BY DEF Idle
<1>3. Handles(mem[l].hand, stream)
  BY <1>1, <1>2 DEF HandOk
<1> QED BY <1>1, <1>2, <1>3, MessageFields DEF Tasks, Handles

\* ... of one in its fair buffer, and of one it has bound.
LEMMA InBuffer ==
    ASSUME DeliveryInv, NEW l \in Leaders, NEW j \in Jobs
    PROVE  /\ mem[l].buf[j] \in Nat
           /\ mem[l].buf[j] # 0 => Good(stream, mem[l].buf[j], j)
BY MemoryFields DEF MemOk, BufOk

LEMMA InRegistry ==
    ASSUME DeliveryInv, NEW l \in Leaders, NEW j \in Jobs, NEW lease
    PROVE  LET b == BindingOf(l, j, lease)
               u == Unbound(l, j, lease)
           IN  /\ b \in Binding /\ u \in Binding
               /\ b.seq # 0 => b # NoBinding
               /\ b # NoBinding => Good(stream, b.seq, j)
               /\ u # NoBinding => Good(stream, u.seq, j)
<1>1. mem[l].reg[j] \in Binding
  BY MemoryFields
<1>2. mem[l].reg[j] # NoBinding => Good(stream, mem[l].reg[j].seq, j)
  BY MemoryFields DEF MemOk, RegOk
<1>3. NoBinding \in Binding /\ NoBinding.seq = 0
  BY DEF NoBinding, Binding
<1> QED BY <1>1, <1>2, <1>3 DEF BindingOf, Unbound

\* A dispatcher that is done with a message may be idle.
LEMMA IdleOk ==
    /\ Idle \in Tasks
    /\ \A st, ph : HandOk(Idle, st, ph) /\ RecOk(Idle, ph)
    /\ \A st, ph, red : AdvOk(Idle, st, ph, red)
BY DEF Tasks, HandOk, RecOk, AdvOk, Idle

\* A decision on a message that stands is one the dispatcher may act on.
LEMMA DecisionOk ==
    ASSUME NEW j \in Jobs, NEW good \in BOOLEAN, Decision(j, good) # "hold"
    PROVE  /\ Decision(j, good) \in Step
           /\ Decision(j, good) \in {"buffer", "bind"} => good
           /\ Decision(j, good) = "redrive" => ~good
           /\ Decision(j, good) \in {"ack", "letter"} => phase[j] = "ended"
           /\ Decision(j, good) \notin {"claim", "claimed", "poison"}
BY DEF Decision, Step

\* A task for a message of its job.
LEMMA TaskType ==
    ASSUME NEW step \in Step, NEW j \in Jobs, NEW s \in Nat, NEW lease \in Nat
    PROVE  /\ Task(step, j, s, lease) \in Tasks
           /\ Task(step, j, s, lease).step = step
           /\ Task(step, j, s, lease).job = j
           /\ Task(step, j, s, lease).seq = s
BY DEF Task, Tasks

LEMMA DeliverStep ==
    ASSUME DeliveryInv, NEW l \in Leaders, NEW s \in DOMAIN stream, Deliver(l, s)
    PROVE  DeliveryInv'
<1> DEFINE j == stream[s].job
           good == stream[s].good
           step == Decision(j, good)
<1>1. WorldMoves /\ DOMAIN stream' = DOMAIN stream
  BY DeliverMoves DEF Deliver, jobVars
<1>2. CASE step = "hold"
  <2>1. UNCHANGED mem
    BY <1>2 DEF Deliver
  <2> QED BY <1>1, <2>1, MovesOk
<1>3. CASE step # "hold"
  <2>1. /\ mem' = [mem EXCEPT ![l].hand = Task(step, j, s, tries[j])]
        /\ UNCHANGED phase
    BY <1>3 DEF Deliver, jobVars
  <2>2. stream[s] \in Message /\ j \in Jobs /\ s \in Nat /\ good \in BOOLEAN
    BY MessageFields DEF Message
  <2>3. tries[j] \in Nat
    BY <2>2 DEF DeliveryInv, Typed
  <2>4. PICK t : t = Task(step, j, s, tries[j])
    OBVIOUS
  <2>5. t \in Tasks /\ t.step = step /\ t.job = j /\ t.seq = s
    BY <1>3, <2>2, <2>3, <2>4, DecisionOk, TaskType
  <2>6. s \in DOMAIN stream' /\ stream'[s].job = j /\ stream'[s].good = good
    BY <1>1 DEF WorldMoves, Extends
  <2>7. HandOk(t, stream', phase')
    BY <1>3, <2>1, <2>2, <2>5, <2>6, DecisionOk DEF HandOk, Handles
  <2>8. Justified(l)
    BY <2>1, <2>4, <2>5, <2>7, HandBecomes
  <2> QED BY <1>1, <2>8, MovesOk
<1> QED BY <1>2, <1>3

LEMMA PopStep ==
    ASSUME DeliveryInv, NEW l \in Leaders, NEW j \in Jobs, Pop(l, j)
    PROVE  DeliveryInv'
<1> DEFINE s == mem[l].buf[j]
           step == IF Decision(j, TRUE) = "buffer" THEN "claim" ELSE Decision(j, TRUE)
<1>1. WorldMoves /\ UNCHANGED <<stream, phase>>
  BY WorldStands DEF Pop, jobVars, natsVars
<1>2. /\ s # 0 /\ Decision(j, TRUE) # "hold"
      /\ mem' = [mem EXCEPT ![l].buf[j] = 0, ![l].hand = Task(step, j, s, tries[j])]
  BY DEF Pop
<1>3. s \in Nat /\ Good(stream, s, j)
  BY <1>2, InBuffer
<1>4. tries[j] \in Nat
  BY DEF DeliveryInv, Typed
<1>5. step \in Step /\ step \notin {"redrive", "poison"}
      /\ (step \in {"ack", "letter"} => phase[j] = "ended")
  BY <1>2, DecisionOk DEF Step
<1>6. PICK t : t = Task(step, j, s, tries[j])
  OBVIOUS
<1> HIDE DEF step
<1>7. t \in Tasks /\ t.step = step /\ t.job = j /\ t.seq = s
  BY <1>3, <1>4, <1>5, <1>6, TaskType
<1>8. HandOk(t, stream', phase')
  BY <1>1, <1>3, <1>5, <1>7 DEF HandOk, Handles, Good
<1>9. Extends(stream, stream')
  BY <1>1 DEF WorldMoves
<1>10. Justified(l)
  BY <1>2, <1>6, <1>7, <1>8, <1>9, BufBecomes, 0 \in Nat
<1> QED BY <1>1, <1>10, MovesOk

LEMMA BufferStep ==
    ASSUME DeliveryInv, NEW l \in Leaders, Buffer(l)
    PROVE  DeliveryInv'
<1> DEFINE t == mem[l].hand
           held == mem[l].buf[t.job]
<1>1. /\ t.job \in Jobs /\ t.seq \in Nat \ {0} /\ Good(stream, t.seq, t.job)
  BY InHand DEF Buffer, HandOk, Good
<1>2. held \in Nat /\ (held # 0 => Good(stream, held, t.job))
  BY <1>1, InBuffer
<1>3. UNCHANGED <<phase, tries, row, sent, redriven, advisories>>
  BY DEF Buffer, jobVars
<1>4. \/ UNCHANGED stream
      \/ held # 0 /\ held < t.seq /\ stream' = Remove(held)
      \/ held > t.seq /\ stream' = Remove(t.seq)
  BY DEF Buffer
<1>5. WorldMoves
  <2>1. CASE UNCHANGED stream
    BY <1>3, <2>1, WorldStands
  <2>2. CASE held # 0 /\ held < t.seq /\ stream' = Remove(held)
    <3>1. held \in DOMAIN stream /\ Covered(stream, held)
      BY <1>1, <1>2, <2>2 DEF Good, Covered
    <3> QED BY <1>3, <2>2, <3>1, RemovalMoves
  <2>3. CASE held > t.seq /\ stream' = Remove(t.seq)
    <3>1. t.seq \in DOMAIN stream /\ Covered(stream, t.seq)
      BY <1>1, <1>2, <2>3 DEF Good, Covered
    <3> QED BY <1>3, <2>3, <3>1, RemovalMoves
  <2> QED BY <1>4, <2>1, <2>2, <2>3
<1>6. Extends(stream, stream')
  BY <1>5 DEF WorldMoves
<1>7. Good(stream', t.seq, t.job)
  BY <1>1, <1>6 DEF Good, Extends
<1>8. \/ mem' = [mem EXCEPT ![l].hand = Idle]
      \/ mem' = [mem EXCEPT ![l].buf[t.job] = t.seq, ![l].hand = Idle]
  BY DEF Buffer, Done
<1>9. Justified(l)
  BY <1>1, <1>6, <1>7, <1>8, IdleOk, HandBecomes, BufBecomes
<1> QED BY <1>5, <1>9, MovesOk

\* The task in hand goes on to its next step.
LEMMA ThenType ==
    ASSUME DeliveryInv, NEW l \in Leaders, mem[l].hand.step # "idle", NEW step \in Step
    PROVE  LET t == [mem[l].hand EXCEPT !.step = step]
           IN  /\ t \in Tasks /\ t.step = step /\ t.job = mem[l].hand.job
               /\ t.seq = mem[l].hand.seq
               /\ Then(l, step) = [mem EXCEPT ![l].hand = t]
BY InHand, MemoryFields DEF Tasks, Then

LEMMA ClaimStep ==
    ASSUME DeliveryInv, NEW l \in Leaders, Claim(l)
    PROVE  DeliveryInv'
<1> DEFINE h == mem[l].hand
<1>1. /\ h.job \in Jobs /\ h.seq \in Nat /\ Good(stream, h.seq, h.job)
  BY InHand DEF Claim, HandOk, Good
<1>2. Progress(h.job) /\ UNCHANGED <<natsVars, row>>
  BY DEF Claim, Progress
<1>3. WorldMoves
  BY <1>1, <1>2, JobMoves
<1>4. tries'[h.job] \in Nat
  BY <1>1, <1>3 DEF WorldMoves
<1>5. PICK t : t = Task("claimed", h.job, h.seq, tries'[h.job])
  OBVIOUS
<1>6. t \in Tasks /\ t.step = "claimed" /\ t.job = h.job /\ t.seq = h.seq
  BY <1>1, <1>4, <1>5, TaskType, "claimed" \in Step, SMTT(30) DEF Step
<1>7. Good(stream', t.seq, t.job)
  BY <1>1, <1>3, <1>6 DEF WorldMoves, Good, Extends
<1>8. HandOk(t, stream', phase')
  BY <1>6, <1>7 DEF HandOk, Handles, Good
<1>9. mem' = [mem EXCEPT ![l].hand = t]
  BY <1>5 DEF Claim
<1>10. Justified(l)
  BY <1>6, <1>8, <1>9, HandBecomes
<1> QED BY <1>3, <1>10, MovesOk

LEMMA NoClaimStep ==
    ASSUME DeliveryInv, NEW l \in Leaders, NoClaim(l)
    PROVE  DeliveryInv'
<1> DEFINE h == mem[l].hand
<1>1. /\ h.job \in Jobs /\ h.seq \in Nat /\ Good(stream, h.seq, h.job)
  BY InHand DEF NoClaim, HandOk, Good
<1>2. WorldMoves /\ UNCHANGED stream
  BY WorldStands DEF NoClaim, jobVars, natsVars
<1>3. mem' = [mem EXCEPT ![l].buf[h.job] = h.seq, ![l].hand = Idle]
  BY DEF NoClaim
<1>4. Extends(stream, stream') /\ Good(stream', h.seq, h.job)
  BY <1>1, <1>2 DEF WorldMoves
<1>5. Justified(l)
  BY <1>1, <1>3, <1>4, IdleOk, BufBecomes
<1> QED BY <1>2, <1>5, MovesOk

LEMMA BindClaimedStep ==
    ASSUME DeliveryInv, NEW l \in Leaders, BindClaimed(l)
    PROVE  DeliveryInv'
<1> DEFINE h == mem[l].hand
<1>1. /\ h.job \in Jobs /\ h.seq \in Nat /\ h.lease \in Nat /\ Good(stream, h.seq, h.job)
  BY InHand DEF BindClaimed, HandOk, Good
<1>2. WorldMoves /\ UNCHANGED stream
  BY WorldStands DEF BindClaimed, jobVars, natsVars
<1>3. PICK b : b = [lease |-> h.lease, seq |-> h.seq]
  OBVIOUS
<1>4. b \in Binding /\ b.seq = h.seq
  BY <1>1, <1>3 DEF Binding
<1>5. mem' = [mem EXCEPT ![l].reg[h.job] = b, ![l].hand = Idle]
  BY <1>3 DEF BindClaimed
<1>6. Extends(stream, stream') /\ Good(stream', b.seq, h.job)
  BY <1>1, <1>2, <1>4 DEF WorldMoves
<1>7. Justified(l)
  BY <1>1, <1>4, <1>5, <1>6, IdleOk, RegBecomes
<1> QED BY <1>2, <1>7, MovesOk

LEMMA RebindStep ==
    ASSUME DeliveryInv, NEW l \in Leaders, Rebind(l)
    PROVE  DeliveryInv'
<1> DEFINE h == mem[l].hand
           old == BindingOf(l, h.job, h.lease)
<1>1. /\ h.job \in Jobs /\ h.seq \in Nat \ {0} /\ h.lease \in Nat
      /\ Good(stream, h.seq, h.job)
  BY InHand DEF Rebind, HandOk, Good
<1>2. old.seq \in Nat /\ (old.seq # 0 => Good(stream, old.seq, h.job))
  BY <1>1, InRegistry DEF Binding
<1>3. UNCHANGED <<phase, tries, row, sent, redriven, advisories>>
  BY DEF Rebind, jobVars
<1>4. \/ UNCHANGED stream
      \/ old.seq # 0 /\ old.seq < h.seq /\ stream' = Remove(old.seq)
      \/ old.seq > h.seq /\ stream' = Remove(h.seq)
  <2> HIDE DEF h
  <2>1. CASE old.seq > h.seq
    BY <2>1 DEF Rebind, h
  <2>2. CASE old.seq <= h.seq
    <3>1. old.seq \notin {0, h.seq} => old.seq # 0 /\ old.seq < h.seq
      BY <1>1, <1>2, <2>2
    <3>2. ~(old.seq > h.seq)
      BY <1>1, <1>2, <2>2
    <3> QED BY <3>1, <3>2 DEF Rebind, h
  <2> QED BY <1>1, <1>2, <2>1, <2>2
<1>5. WorldMoves
  <2>1. CASE UNCHANGED stream
    BY <1>3, <2>1, WorldStands
  <2>2. CASE old.seq # 0 /\ old.seq < h.seq /\ stream' = Remove(old.seq)
    <3>1. old.seq \in DOMAIN stream /\ Covered(stream, old.seq)
      BY <1>1, <1>2, <2>2 DEF Good, Covered
    <3> QED BY <1>3, <2>2, <3>1, RemovalMoves
  <2>3. CASE old.seq > h.seq /\ stream' = Remove(h.seq)
    <3>1. h.seq \in DOMAIN stream /\ Covered(stream, h.seq)
      BY <1>1, <1>2, <2>3 DEF Good, Covered
    <3> QED BY <1>3, <2>3, <3>1, RemovalMoves
  <2> QED BY <1>4, <2>1, <2>2, <2>3
<1>6. Extends(stream, stream')
  BY <1>5 DEF WorldMoves
<1>7. PICK b : b = [lease |-> h.lease, seq |-> h.seq]
  OBVIOUS
<1>8. b \in Binding /\ b.seq = h.seq /\ Good(stream', b.seq, h.job)
  BY <1>1, <1>6, <1>7 DEF Binding, Good, Extends
<1>9. \/ mem' = [mem EXCEPT ![l].hand = Idle]
      \/ mem' = [mem EXCEPT ![l].reg[h.job] = b, ![l].hand = Idle]
  BY <1>7 DEF Rebind, Done
<1>10. Justified(l)
  BY <1>1, <1>6, <1>8, <1>9, IdleOk, HandBecomes, RegBecomes
<1> QED BY <1>5, <1>10, MovesOk

\* A step of the dispatcher that leaves the task in hand with another step, or
\* lets it go.
LEMMA HandMoves ==
    ASSUME DeliveryInv, WorldMoves, NEW l \in Leaders, mem[l].hand.step # "idle",
           \/ mem' = Done(l)
           \/ \E step \in {"ack", "poison"} :
                /\ mem' = Then(l, step)
                /\ step = "poison" => ~stream[mem[l].hand.seq].good
                /\ step = "ack" => \/ ~stream[mem[l].hand.seq].good
                                   \/ phase'[mem[l].hand.job] = "ended"
    PROVE  DeliveryInv'
<1>1. CASE mem' = Done(l)
  <2>1. Justified(l)
    BY <1>1, IdleOk, HandBecomes DEF Done
  <2> QED BY <2>1, MovesOk
<1>2. ASSUME NEW step \in {"ack", "poison"}, mem' = Then(l, step),
             step = "poison" => ~stream[mem[l].hand.seq].good,
             step = "ack" => \/ ~stream[mem[l].hand.seq].good
                             \/ phase'[mem[l].hand.job] = "ended"
      PROVE  DeliveryInv'
  <2>1. step \in Step
    BY DEF Step
  <2>2. PICK t : t = [mem[l].hand EXCEPT !.step = step]
    OBVIOUS
  <2>3. /\ t \in Tasks /\ t.step = step /\ t.job = mem[l].hand.job
        /\ t.seq = mem[l].hand.seq /\ mem' = [mem EXCEPT ![l].hand = t]
    BY <1>2, <2>1, <2>2, ThenType
  <2>4. /\ mem[l].hand.seq \in DOMAIN stream
        /\ stream[mem[l].hand.seq].job = mem[l].hand.job
    BY InHand
  <2>5. Handles(t, stream') /\ stream'[t.seq].good = stream[t.seq].good
    BY <2>3, <2>4 DEF Handles, WorldMoves, Extends
  <2>6. HandOk(t, stream', phase')
    BY <1>2, <2>3, <2>5 DEF HandOk
  <2>7. Justified(l)
    BY <2>3, <2>6, HandBecomes
  <2> QED BY <2>7, MovesOk
<1> QED BY <1>1, <1>2

LEMMA FinalizeCancellationStep ==
    ASSUME DeliveryInv, NEW l \in Leaders, FinalizeCancellation(l)
    PROVE  DeliveryInv'
<1> DEFINE h == mem[l].hand
<1>1. h.step # "idle" /\ h.job \in Jobs
  BY InHand DEF FinalizeCancellation
<1>2. UNCHANGED <<natsVars, row>>
  BY DEF FinalizeCancellation
<1>3. CASE Job!End(h.job) /\ mem' = Then(l, "ack")
  <2>1. WorldMoves
    BY <1>1, <1>2, <1>3, JobMoves DEF Progress
  <2>2. phase'[h.job] = "ended"
    BY <1>1, <1>3 DEF Job!End, DeliveryInv, Typed
  <2> QED BY <1>1, <1>3, <2>1, <2>2, HandMoves
<1>4. CASE UNCHANGED jobVars /\ (mem' = Done(l) \/ (phase[h.job] = "ended" /\ mem' = Then(l, "ack")))
  <2>1. WorldMoves
    BY <1>2, <1>4, WorldStands DEF jobVars, natsVars
  <2>2. UNCHANGED phase
    BY <1>4 DEF jobVars
  <2> QED BY <1>1, <1>4, <2>1, <2>2, HandMoves
<1> QED BY <1>3, <1>4 DEF FinalizeCancellation

LEMMA SettlingStep ==
    ASSUME DeliveryInv, NEW l \in Leaders,
           RedrivePoison(l) \/ PoisonLetter(l) \/ ExhaustedLetter(l) \/ Settle(l)
    PROVE  DeliveryInv'
<1> DEFINE h == mem[l].hand
<1>1. /\ h.step # "idle" /\ h # Idle /\ h.job \in Jobs
      /\ h.seq \in DOMAIN stream /\ stream[h.seq].job = h.job
      /\ HandOk(h, stream, phase)
  BY InHand DEF RedrivePoison, PoisonLetter, ExhaustedLetter, Settle
<1>2. CASE RedrivePoison(l)
  <2>1. WorldMoves
    BY <1>1, <1>2, RedriveMoves DEF RedrivePoison, jobVars
  <2>2. ~stream[h.seq].good
    BY <1>1, <1>2 DEF RedrivePoison, HandOk
  <2> QED BY <1>1, <1>2, <2>1, <2>2, HandMoves DEF RedrivePoison
<1>3. CASE PoisonLetter(l)
  <2>1. WorldMoves
    BY <1>3, WorldStands DEF PoisonLetter, jobVars, natsVars
  <2>2. ~stream[h.seq].good
    BY <1>1, <1>3 DEF PoisonLetter, HandOk
  <2> QED BY <1>1, <1>3, <2>1, <2>2, HandMoves DEF PoisonLetter
<1>4. CASE ExhaustedLetter(l)
  <2>1. WorldMoves
    BY <1>4, WorldStands DEF ExhaustedLetter, jobVars, natsVars
  <2>2. (~stream[h.seq].good \/ phase[h.job] = "ended") /\ UNCHANGED phase
    BY <1>1, <1>4 DEF ExhaustedLetter, HandOk, jobVars
  <2> QED BY <1>1, <1>4, <2>1, <2>2, HandMoves DEF ExhaustedLetter
<1>5. CASE Settle(l)
  <2>1. ~stream[h.seq].good \/ phase[h.job] = "ended"
    BY <1>1, <1>5 DEF Settle, HandOk
  <2>2. WorldMoves
    BY <1>1, <1>5, <2>1, RemovalMoves DEF Settle, jobVars, Over
  <2> QED BY <1>1, <1>5, <2>2, HandMoves DEF Settle
<1> QED BY <1>2, <1>3, <1>4, <1>5

LEMMA DispatcherFailsStep ==
    ASSUME DeliveryInv, NEW l \in Leaders, DispatcherFails(l)
    PROVE  DeliveryInv'
<1>1. WorldMoves
  BY WorldStands DEF DispatcherFails, jobVars, natsVars
<1>2. Justified(l)
  BY IdleOk, HandBecomes DEF DispatcherFails, Done
<1> QED BY <1>1, <1>2, MovesOk

-------------------------------------------------------------------------------
(* The advisory task.                                                      *)

LEMMA AdvisoryInHand ==
    ASSUME DeliveryInv, NEW l \in Leaders, mem[l].adv.step # "idle"
    PROVE  LET t == mem[l].adv
           IN  /\ t # Idle
               /\ t.step \in Step /\ t.job \in Jobs
               /\ t.seq \in DOMAIN stream /\ stream[t.seq].job = t.job
               /\ AdvOk(t, stream, phase, redriven)
<1>1. mem[l].adv \in Tasks /\ AdvOk(mem[l].adv, stream, phase, redriven)
  BY MemoryFields DEF MemOk
<1>2. mem[l].adv # Idle
  BY DEF Idle
<1>3. Handles(mem[l].adv, stream)
  BY <1>1, <1>2 DEF AdvOk
<1> QED BY <1>1, <1>2, <1>3 DEF Tasks, Handles

\* The advisory in hand goes on to its next step.
LEMMA AdvMoves ==
    ASSUME DeliveryInv, WorldMoves, NEW l \in Leaders, mem[l].adv.step # "idle",
           NEW step \in {"delete", "poison", "done"},
           mem' = AdvisoryThen(l, step),
           step = "poison" => ~stream[mem[l].adv.seq].good,
           step = "delete" => \/ ~stream[mem[l].adv.seq].good
                              \/ phase[mem[l].adv.job] \in Over
                              \/ mem[l].adv.seq \in redriven',
           step = "done" => ~stream'[mem[l].adv.seq].there
    PROVE  DeliveryInv'
<1>1. PICK t : t = [mem[l].adv EXCEPT !.step = step]
  OBVIOUS
<1>2. step \in Step
  BY DEF Step
<1>3. /\ mem[l].adv # Idle /\ mem[l].adv.job \in Jobs
      /\ mem[l].adv.seq \in DOMAIN stream
      /\ stream[mem[l].adv.seq].job = mem[l].adv.job
  BY AdvisoryInHand
<1>4. /\ t \in Tasks /\ t.step = step /\ t.job = mem[l].adv.job
      /\ t.seq = mem[l].adv.seq /\ mem' = [mem EXCEPT ![l].adv = t]
  BY <1>1, <1>2, <1>3, MemoryFields DEF Tasks, AdvisoryThen
<1>5. Handles(t, stream') /\ stream'[t.seq].good = stream[t.seq].good
  BY <1>3, <1>4 DEF Handles, WorldMoves, Extends
<1>6. phase[t.job] \in Over => phase'[t.job] \in Over
  BY <1>3, <1>4 DEF WorldMoves, Later
<1>7. AdvOk(t, stream', phase', redriven')
  BY <1>4, <1>5, <1>6 DEF AdvOk
<1>8. Justified(l)
  BY <1>4, <1>7, AdvBecomes
<1> QED BY <1>8, MovesOk

LEMMA HandleAdvisoryStep ==
    ASSUME DeliveryInv, NEW l \in Leaders, NEW s \in DOMAIN stream, HandleAdvisory(l, s)
    PROVE  DeliveryInv'
<1> DEFINE j == stream[s].job
           step == AdvisoryDecision(s)
<1>1. WorldMoves /\ UNCHANGED <<stream, phase, redriven>>
  BY WorldStands DEF HandleAdvisory, jobVars, natsVars
<1>2. j \in Jobs /\ s \in Nat
  BY MessageFields
<1>3. tries[j] \in Nat
  BY <1>2 DEF DeliveryInv, Typed
<1>4. /\ step \in Step /\ step # "poison"
      /\ step = "done" => ~stream[s].there
      /\ step \in {"delete", "letter"} => phase[j] \in Over
  BY DEF AdvisoryDecision, Step, Over
<1>5. PICK t : t = Task(step, j, s, tries[j])
  OBVIOUS
<1>6. mem' = [mem EXCEPT ![l].adv = t]
  BY <1>5 DEF HandleAdvisory
<1> HIDE DEF step
<1>7. t \in Tasks /\ t.step = step /\ t.job = j /\ t.seq = s
  BY <1>2, <1>3, <1>4, <1>5, TaskType
<1>8. AdvOk(t, stream', phase', redriven')
  BY <1>1, <1>4, <1>7 DEF AdvOk, Handles
<1>9. Justified(l)
  BY <1>6, <1>7, <1>8, AdvBecomes
<1> QED BY <1>1, <1>9, MovesOk

LEMMA AdvisoryStep ==
    ASSUME DeliveryInv, NEW l \in Leaders,
           AdvisoryRedrive(l) \/ AdvisoryLetter(l) \/ DeleteSource(l)
    PROVE  DeliveryInv'
<1> DEFINE a == mem[l].adv
<1>1. /\ a.step # "idle" /\ a # Idle /\ a.job \in Jobs
      /\ a.seq \in DOMAIN stream /\ stream[a.seq].job = a.job
      /\ AdvOk(a, stream, phase, redriven)
  BY AdvisoryInHand DEF AdvisoryRedrive, AdvisoryLetter, DeleteSource
<1>2. CASE AdvisoryRedrive(l)
  <2>1. WorldMoves /\ a.seq \in redriven'
    BY <1>1, <1>2, RedriveMoves DEF AdvisoryRedrive, jobVars
  <2>2. CASE stream[a.seq].good
    <3>1. mem' = AdvisoryThen(l, "delete")
      BY <1>2, <2>2 DEF AdvisoryRedrive
    <3> QED BY <1>1, <2>1, <3>1, AdvMoves
  <2>3. CASE ~stream[a.seq].good
    <3>1. mem' = AdvisoryThen(l, "poison")
      BY <1>2, <2>3 DEF AdvisoryRedrive
    <3> QED BY <1>1, <2>1, <2>3, <3>1, AdvMoves
  <2> QED BY <2>2, <2>3
<1>3. CASE AdvisoryLetter(l)
  <2>1. WorldMoves
    BY <1>3, WorldStands DEF AdvisoryLetter, jobVars, natsVars
  <2>2. ~stream[a.seq].good \/ phase[a.job] \in Over
    BY <1>1, <1>3 DEF AdvisoryLetter, AdvOk
  <2>3. mem' = AdvisoryThen(l, "delete")
    BY <1>3 DEF AdvisoryLetter
  <2> QED BY <1>1, <2>1, <2>2, <2>3, AdvMoves
<1>4. CASE DeleteSource(l)
  <2>1. ~stream[a.seq].good \/ phase[a.job] \in Over \/ a.seq \in redriven
    BY <1>1, <1>4 DEF DeleteSource, AdvOk
  <2>2. a.seq \in redriven => Covered(stream, a.seq)
    BY DEF DeliveryInv, StreamOk
  <2>3. /\ stream' = Remove(a.seq) /\ mem' = AdvisoryThen(l, "done")
        /\ UNCHANGED <<phase, tries, row, sent, redriven, advisories>>
    BY <1>4 DEF DeleteSource, jobVars
  <2>4. WorldMoves /\ ~stream'[a.seq].there
    BY <1>1, <2>1, <2>2, <2>3, RemovalMoves
  <2> QED BY <1>1, <2>3, <2>4, AdvMoves
<1> QED BY <1>2, <1>3, <1>4

\* The advisory goes when its source has gone.
LEMMA AckAdvisoryStep ==
    ASSUME DeliveryInv, NEW l \in Leaders, AckAdvisory(l)
    PROVE  DeliveryInv'
<1> DEFINE a == mem[l].adv
<1>1. ~stream[a.seq].there
  BY AdvisoryInHand DEF AckAdvisory, AdvOk
<1>2. UNCHANGED <<phase, tries, row, stream, sent, redriven>>
      /\ advisories' = advisories \ {a.seq}
  BY DEF AckAdvisory, jobVars
<1>3. StreamOk(stream, phase, redriven, advisories')
  BY <1>1, <1>2 DEF DeliveryInv, StreamOk
<1>4. WorldMoves
  BY <1>2, <1>3 DEF DeliveryInv, Typed, WorldMoves, Extends, Later
<1>5. Justified(l)
  BY IdleOk, AdvBecomes DEF AckAdvisory
<1> QED BY <1>4, <1>5, MovesOk

LEMMA AdvisoryFailsStep ==
    ASSUME DeliveryInv, NEW l \in Leaders, AdvisoryFails(l)
    PROVE  DeliveryInv'
<1>1. WorldMoves
  BY WorldStands DEF AdvisoryFails, jobVars, natsVars
<1>2. Justified(l)
  BY IdleOk, AdvBecomes DEF AdvisoryFails
<1> QED BY <1>1, <1>2, MovesOk

-------------------------------------------------------------------------------
(* The reconciler.                                                         *)

\* What a leader may assume of the recovery in hand.
LEMMA RecoveryInHand ==
    ASSUME DeliveryInv, NEW l \in Leaders, mem[l].rec.step # "idle"
    PROVE  /\ mem[l].rec \in [step : Step, job : Jobs, seq : Nat, lease : Nat]
           /\ mem[l].rec.job \in Jobs
           /\ RecOk(mem[l].rec, phase)
<1>1. mem[l].rec \in Tasks /\ RecOk(mem[l].rec, phase)
  BY MemoryFields DEF MemOk
<1>2. mem[l].rec # Idle
  BY DEF Idle
<1> QED BY <1>1, <1>2 DEF Tasks

\* Retiring the message of an ended job.
LEMMA RetireMoves ==
    ASSUME DeliveryInv, NEW l \in Leaders, NEW j \in Jobs, NEW lease,
           phase[j] = "ended",
           stream' = Retired(l, j, lease) \/ UNCHANGED stream,
           UNCHANGED <<phase, tries, row, sent, redriven, advisories>>
    PROVE  WorldMoves
<1> DEFINE b == BindingOf(l, j, lease)
<1>1. CASE UNCHANGED stream
  BY <1>1, WorldStands
<1>2. CASE b # NoBinding /\ stream' = Remove(b.seq)
  <2>1. b.seq \in DOMAIN stream /\ stream[b.seq].job = j
    BY <1>2, InRegistry DEF Good
  <2> QED BY <1>2, <2>1, RemovalMoves DEF Over
<1> QED BY <1>1, <1>2 DEF Retired

LEMMA RecoveryStep ==
    ASSUME DeliveryInv, NEW l \in Leaders, NEW j \in Jobs, Recovery(l, j)
    PROVE  DeliveryInv'
<1>1. Progress(j) /\ UNCHANGED <<natsVars, row>>
  BY DEF Recovery, RecoverRequeue, RecoverCancelling, RecoverExhausted, Progress
<1>2. WorldMoves
  BY <1>1, JobMoves
<1>3. tries[j] \in Nat
  BY DEF DeliveryInv, Typed
<1>4. CASE RecoverRequeue(l, j)
  <2>1. PICK t : t = Task("nak", j, 0, tries[j])
    OBVIOUS
  <2>2. t \in Tasks /\ t.step = "nak"
    BY <1>3, <2>1, TaskType, "nak" \in Step, 0 \in Nat DEF Step
  <2>3. mem' = [mem EXCEPT ![l].rec = t]
    BY <1>4, <2>1 DEF RecoverRequeue
  <2>4. Justified(l)
    BY <2>2, <2>3, RecBecomes DEF RecOk
  <2> QED BY <1>2, <2>4, MovesOk
<1>5. CASE RecoverCancelling(l, j)
  <2> DEFINE m == [mem[l] EXCEPT !.cancelled[j] = tries[j]]
  <2>1. mem' = [mem EXCEPT ![l] = m]
    BY <1>5, MemoryFields DEF RecoverCancelling
  <2>2. /\ m \in Memory /\ m.hand = mem[l].hand /\ m.adv = mem[l].adv
        /\ m.rec = mem[l].rec /\ m.buf = mem[l].buf /\ m.reg = mem[l].reg
        /\ m.conf = mem[l].conf
    BY <1>3, MemoryFields DEF Memory
  <2> HIDE DEF m
  <2>3. Justified(l)
    BY <2>1, <2>2, MemoryBecomes
  <2> QED BY <1>2, <2>3, MovesOk
<1>6. CASE RecoverExhausted(l, j)
  <2> DEFINE m == [mem[l] EXCEPT !.exhausted[j] = tries[j]]
  <2>1. mem' = [mem EXCEPT ![l] = m]
    BY <1>6, MemoryFields DEF RecoverExhausted
  <2>2. /\ m \in Memory /\ m.hand = mem[l].hand /\ m.adv = mem[l].adv
        /\ m.rec = mem[l].rec /\ m.buf = mem[l].buf /\ m.reg = mem[l].reg
        /\ m.conf = mem[l].conf
    BY <1>3, MemoryFields DEF Memory
  <2> HIDE DEF m
  <2>3. Justified(l)
    BY <2>1, <2>2, MemoryBecomes
  <2> QED BY <1>2, <2>3, MovesOk
<1> QED BY <1>4, <1>5, <1>6 DEF Recovery

\* The reconciler forgets a binding, and possibly an exhausted job, and is idle
\* then or was before.
LEMMA Forgets ==
    ASSUME DeliveryInv, NEW l \in Leaders, NEW j \in Jobs, NEW lease,
           Extends(stream, stream'),
           NEW rec \in {Idle, mem[l].rec}, NEW ex \in [Jobs -> Nat],
           mem' = [mem EXCEPT ![l] = [mem[l] EXCEPT !.rec = rec,
                                                    !.reg[j] = Unbound(l, j, lease),
                                                    !.exhausted = ex]]
    PROVE  Justified(l)
<1> DEFINE u == Unbound(l, j, lease)
           r == [mem[l].reg EXCEPT ![j] = u]
           m == [mem[l] EXCEPT !.rec = rec, !.reg[j] = u, !.exhausted = ex]
<1>1. u \in Binding /\ (u # NoBinding => Good(stream', u.seq, j))
  BY InRegistry DEF Good, Extends
<1>2. r \in [Jobs -> Binding] /\ RegOk(r, stream')
  BY <1>1, RegOkAfter
<1>3. rec \in Tasks /\ (rec = mem[l].rec \/ RecOk(rec, phase'))
  BY IdleOk, MemoryFields
<1>4. mem' = [mem EXCEPT ![l] = m]
  OBVIOUS
<1>5. m.reg = r
  BY MemoryFields DEF Memory
<1>6. /\ m \in Memory /\ m.hand = mem[l].hand /\ m.adv = mem[l].adv /\ m.rec = rec
      /\ m.buf = mem[l].buf /\ m.conf = mem[l].conf
  BY <1>2, <1>3, MemoryFields DEF Memory
<1> HIDE DEF m, r, u
<1> QED BY <1>2, <1>3, <1>4, <1>5, <1>6, MemoryBecomes

LEMMA NakStep ==
    ASSUME DeliveryInv, NEW l \in Leaders, Nak(l)
    PROVE  DeliveryInv'
<1> DEFINE t == mem[l].rec
           b == BindingOf(l, t.job, t.lease)
<1>1. t.job \in Jobs
  BY RecoveryInHand DEF Nak
<1>2. UNCHANGED <<phase, tries, row, sent, redriven>>
  BY DEF Nak, jobVars
<1>3. WorldMoves
  <2>1. CASE b # NoBinding /\ Return(b.seq)
    <3>1. b.seq \in DOMAIN stream
      BY <1>1, <2>1, InRegistry DEF Good
    <3> QED BY <1>2, <2>1, <3>1, ReturnMoves
  <2>2. CASE UNCHANGED <<stream, advisories>>
    BY <1>2, <2>2, WorldStands
  <2> QED BY <2>1, <2>2 DEF Nak
<1>4. mem' = [mem EXCEPT ![l] = [mem[l] EXCEPT !.rec = Idle,
                                               !.reg[t.job] = Unbound(l, t.job, t.lease),
                                               !.exhausted = mem[l].exhausted]]
  <2>1. mem' = [mem EXCEPT ![l] = [mem[l] EXCEPT !.rec = Idle,
                                               !.reg[t.job] = Unbound(l, t.job, t.lease)]]
    BY MemoryFields DEF Nak
  <2>2. \A x : [mem[l] EXCEPT !.rec = Idle, !.reg[t.job] = x]
                = [mem[l] EXCEPT !.rec = Idle, !.reg[t.job] = x,
                                 !.exhausted = mem[l].exhausted]
    BY MemoryFields DEF Memory
  <2> QED BY <2>1, <2>2
<1>5. mem[l].exhausted \in [Jobs -> Nat] /\ Extends(stream, stream')
  BY <1>3, MemoryFields DEF WorldMoves
<1>6. Justified(l)
  BY <1>1, <1>4, <1>5, Forgets
<1> QED BY <1>3, <1>6, MovesOk

LEMMA FinalizeReadyStep ==
    ASSUME DeliveryInv, NEW l \in Leaders, NEW j \in Jobs, FinalizeReady(l, j)
    PROVE  DeliveryInv'
<1> DEFINE lease == mem[l].cancelled[j]
           conf == IF lease = 0 THEN mem[l].conf
                   ELSE mem[l].conf \cup {Confirmation(j, lease)}
<1>1. Progress(j) /\ UNCHANGED <<natsVars, row>> /\ Job!End(j)
  BY DEF FinalizeReady, Progress
<1>2. WorldMoves
  BY <1>1, JobMoves
<1>3. phase'[j] = "ended"
  BY <1>1 DEF Job!End, DeliveryInv, Typed
<1>4. CASE verdict[j] = "cancelled"
  <2> DEFINE m == [mem[l] EXCEPT !.cancelled[j] = 0, !.conf = conf]
  <2>1. mem' = [mem EXCEPT ![l] = m]
    BY <1>4, MemoryFields DEF FinalizeReady
  <2>2. lease \in Nat /\ 0 \in Nat
    BY MemoryFields
  <2>3. /\ conf \subseteq [job : Jobs, lease : Nat, acked : Nat]
        /\ \A c \in conf : c \in mem[l].conf \/ c.job = j
    BY <2>2, MemoryFields DEF Confirmation
  <2>4. ConfOk(conf, phase')
    <3>1. \A c \in mem[l].conf : c.job \in Jobs /\ phase[c.job] = "ended"
      BY MemoryFields DEF MemOk, ConfOk
    <3>2. \A k \in Jobs : phase[k] = "ended" => phase'[k] = "ended"
      BY <1>2 DEF WorldMoves, Later
    <3> QED BY <1>3, <2>3, <3>1, <3>2 DEF ConfOk
  <2> HIDE DEF conf
  <2>5. /\ m \in Memory /\ m.hand = mem[l].hand /\ m.adv = mem[l].adv
        /\ m.rec = mem[l].rec /\ m.buf = mem[l].buf /\ m.reg = mem[l].reg
        /\ m.conf = conf
    BY <2>2, <2>3, MemoryFields DEF Memory
  <2> HIDE DEF m
  <2>6. Justified(l)
    BY <2>1, <2>4, <2>5, MemoryBecomes
  <2> QED BY <1>2, <2>6, MovesOk
<1>5. CASE verdict[j] # "cancelled"
  <2>1. PICK t : t = Task("letter", j, 0, mem[l].exhausted[j])
    OBVIOUS
  <2>2. mem[l].exhausted[j] \in Nat /\ 0 \in Nat
    BY MemoryFields
  <2>3. t \in Tasks /\ t.job = j
    BY <2>1, <2>2, TaskType, "letter" \in Step DEF Step
  <2>4. mem' = [mem EXCEPT ![l].rec = t]
    BY <1>5, <2>1 DEF FinalizeReady
  <2>5. Justified(l)
    BY <1>3, <2>3, <2>4, RecBecomes DEF RecOk
  <2> QED BY <1>2, <2>5, MovesOk
<1> QED BY <1>4, <1>5

LEMMA ReconcilerLetterStep ==
    ASSUME DeliveryInv, NEW l \in Leaders, ReconcilerLetter(l)
    PROVE  DeliveryInv'
<1>1. WorldMoves /\ UNCHANGED phase
  BY WorldStands DEF ReconcilerLetter, jobVars, natsVars
<1>2. PICK t : t = [mem[l].rec EXCEPT !.step = "retire"]
  OBVIOUS
<1>3. mem[l].rec \in [step : Step, job : Jobs, seq : Nat, lease : Nat]
      /\ phase[mem[l].rec.job] = "ended"
  BY RecoveryInHand DEF ReconcilerLetter, RecOk
<1>4. t \in Tasks /\ t.job = mem[l].rec.job
  BY <1>2, <1>3, "retire" \in Step DEF Tasks, Step
<1>5. mem' = [mem EXCEPT ![l].rec = t]
  BY <1>2 DEF ReconcilerLetter
<1>6. RecOk(t, phase')
  BY <1>1, <1>3, <1>4 DEF RecOk
<1>7. Justified(l)
  BY <1>4, <1>5, <1>6, RecBecomes
<1> QED BY <1>1, <1>7, MovesOk

LEMMA RetireExhaustedStep ==
    ASSUME DeliveryInv, NEW l \in Leaders, RetireExhausted(l)
    PROVE  DeliveryInv'
<1> DEFINE t == mem[l].rec
           ex == [mem[l].exhausted EXCEPT ![t.job] = 0]
<1>1. t.job \in Jobs /\ phase[t.job] = "ended"
  BY RecoveryInHand DEF RetireExhausted, RecOk
<1>2. /\ UNCHANGED <<phase, tries, row, sent, redriven, advisories>>
      /\ stream' = Retired(l, t.job, t.lease) \/ UNCHANGED stream
  BY DEF RetireExhausted, jobVars
<1>3. WorldMoves
  BY <1>1, <1>2, RetireMoves
<1>4. ex \in [Jobs -> Nat]
  BY MemoryFields, 0 \in Nat
<1>5. mem' = [mem EXCEPT ![l] = [mem[l] EXCEPT !.rec = Idle,
                                               !.reg[t.job] = Unbound(l, t.job, t.lease),
                                               !.exhausted = ex]]
  BY MemoryFields DEF RetireExhausted, Memory
<1>6. Justified(l)
  BY <1>1, <1>3, <1>4, <1>5, Forgets DEF WorldMoves
<1> QED BY <1>3, <1>6, MovesOk

LEMMA RetirePublishedStep ==
    ASSUME DeliveryInv, NEW l \in Leaders, NEW j \in Jobs, RetirePublished(l, j)
    PROVE  DeliveryInv'
<1> DEFINE lease == mem[l].exhausted[j]
           ex == [mem[l].exhausted EXCEPT ![j] = 0]
<1>1. phase[j] = "ended"
  BY DEF RetirePublished
<1>2. /\ UNCHANGED <<phase, tries, row, sent, redriven, advisories>>
      /\ stream' = Retired(l, j, lease) \/ UNCHANGED stream
  BY DEF RetirePublished, jobVars
<1>3. WorldMoves
  BY <1>1, <1>2, RetireMoves
<1>4. ex \in [Jobs -> Nat] /\ mem[l].exhausted \in [Jobs -> Nat]
  BY MemoryFields, 0 \in Nat
<1>5. PICK e \in {ex, mem[l].exhausted} :
        mem' = [mem EXCEPT ![l] = [mem[l] EXCEPT !.rec = mem[l].rec,
                                                 !.reg[j] = Unbound(l, j, lease),
                                                 !.exhausted = e]]
  <2>1. \A u : /\ [mem[l] EXCEPT !.reg[j] = u, !.exhausted[j] = 0]
                    = [mem[l] EXCEPT !.rec = mem[l].rec, !.reg[j] = u, !.exhausted = ex]
               /\ [mem[l] EXCEPT !.reg[j] = u]
                    = [mem[l] EXCEPT !.rec = mem[l].rec, !.reg[j] = u,
                                     !.exhausted = mem[l].exhausted]
    BY MemoryFields DEF Memory
  <2>2. \/ mem' = [mem EXCEPT ![l] = [mem[l] EXCEPT !.reg[j] = Unbound(l, j, lease),
                                                    !.exhausted[j] = 0]]
        \/ mem' = [mem EXCEPT ![l] = [mem[l] EXCEPT !.reg[j] = Unbound(l, j, lease)]]
    BY MemoryFields DEF RetirePublished
  <2> QED BY <2>1, <2>2
<1>6. Justified(l)
  BY <1>3, <1>4, <1>5, Forgets DEF WorldMoves
<1> QED BY <1>3, <1>6, MovesOk

LEMMA ReconcilerFailsStep ==
    ASSUME DeliveryInv, NEW l \in Leaders, ReconcilerFails(l)
    PROVE  DeliveryInv'
<1>1. WorldMoves
  BY WorldStands DEF ReconcilerFails, jobVars, natsVars
<1>2. Justified(l)
  BY IdleOk, RecBecomes DEF ReconcilerFails
<1> QED BY <1>1, <1>2, MovesOk

-------------------------------------------------------------------------------
(* The control plane.                                                      *)

\* A step that changes the confirmations in progress, and perhaps a binding.
LEMMA ConfBecomes ==
    ASSUME DeliveryInv, NEW l \in Leaders,
           NEW conf \in SUBSET [job : Jobs, lease : Nat, acked : Nat],
           mem' = [mem EXCEPT ![l].conf = conf],
           ConfOk(conf, phase')
    PROVE  Justified(l)
<1> DEFINE m == [mem[l] EXCEPT !.conf = conf]
<1>1. mem' = [mem EXCEPT ![l] = m]
  OBVIOUS
<1>2. /\ m \in Memory /\ m.hand = mem[l].hand /\ m.adv = mem[l].adv
      /\ m.rec = mem[l].rec /\ m.buf = mem[l].buf /\ m.reg = mem[l].reg
      /\ m.conf = conf
  BY MemoryFields DEF Memory
<1> HIDE DEF m
<1> QED BY <1>1, <1>2, MemoryBecomes

\* Confirmations of ended jobs, with one more of a job that has ended now.
LEMMA ConfGrows ==
    ASSUME DeliveryInv, WorldMoves, NEW l \in Leaders, NEW j \in Jobs, NEW lease \in Nat,
           phase'[j] = "ended",
           mem' = [mem EXCEPT ![l].conf = @ \cup {Confirmation(j, lease)}]
    PROVE  Justified(l)
<1>1. PICK conf : conf = mem[l].conf \cup {Confirmation(j, lease)}
  OBVIOUS
<1>2. /\ conf \in SUBSET [job : Jobs, lease : Nat, acked : Nat]
      /\ \A c \in conf : c \in mem[l].conf \/ c.job = j
  BY <1>1, MemoryFields, 0 \in Nat DEF Confirmation
<1>3. \A c \in mem[l].conf : c.job \in Jobs /\ phase[c.job] = "ended"
  BY MemoryFields DEF MemOk, ConfOk
<1>4. \A k \in Jobs : phase[k] = "ended" => phase'[k] = "ended"
  BY DEF WorldMoves, Later
<1>5. ConfOk(conf, phase')
  BY <1>2, <1>3, <1>4 DEF ConfOk
<1>6. mem' = [mem EXCEPT ![l].conf = conf]
  BY <1>1, MemoryFields
<1> QED BY <1>2, <1>5, <1>6, ConfBecomes

LEMMA WorkerEndsStep ==
    ASSUME DeliveryInv, NEW l \in Leaders, NEW j \in Jobs, WorkerEnds(l, j)
    PROVE  DeliveryInv'
<1>1. Progress(j) /\ UNCHANGED <<natsVars, row>> /\ Job!End(j)
  BY DEF WorkerEnds, Progress
<1>2. WorldMoves
  BY <1>1, JobMoves
<1>3. phase'[j] = "ended" /\ tries[j] \in Nat
  BY <1>1 DEF Job!End, DeliveryInv, Typed
<1>4. mem' = [mem EXCEPT ![l].conf = @ \cup {Confirmation(j, tries[j])}]
  BY DEF WorkerEnds
<1>5. Justified(l)
  BY <1>2, <1>3, <1>4, ConfGrows
<1> QED BY <1>2, <1>5, MovesOk

LEMMA ReplayStep ==
    ASSUME DeliveryInv, NEW l \in Leaders, NEW j \in Jobs, Replay(l, j)
    PROVE  DeliveryInv'
<1>1. WorldMoves /\ phase' = phase
  BY WorldStands DEF Replay, jobVars, natsVars
<1>2. PICK lease \in 1 .. tries[j] :
        mem' = [mem EXCEPT ![l].conf = @ \cup {Confirmation(j, lease)}]
  BY DEF Replay
<1>3. tries[j] \in Nat /\ lease \in Nat
  BY DEF DeliveryInv, Typed
<1>4. phase'[j] = "ended"
  BY <1>1 DEF Replay
<1>5. Justified(l)
  BY <1>1, <1>2, <1>3, <1>4, ConfGrows
<1> QED BY <1>1, <1>5, MovesOk

LEMMA ConfirmAckStep ==
    ASSUME DeliveryInv, NEW l \in Leaders, NEW c \in mem[l].conf, ConfirmAck(l, c)
    PROVE  DeliveryInv'
<1> DEFINE b == BindingOf(l, c.job, c.lease)
<1>1. /\ mem[l].conf \subseteq [job : Jobs, lease : Nat, acked : Nat]
      /\ \A d \in mem[l].conf : phase[d.job] = "ended"
  BY MemoryFields DEF MemOk, ConfOk
<1>2. c \in [job : Jobs, lease : Nat, acked : Nat] /\ phase[c.job] = "ended"
  BY <1>1
<1>3. c.job \in Jobs /\ c.lease \in Nat
  BY <1>2
<1>4. /\ UNCHANGED <<phase, tries, row, sent, redriven, advisories>>
      /\ stream' = Retired(l, c.job, c.lease)
  BY DEF ConfirmAck, jobVars
<1>5. WorldMoves
  BY <1>2, <1>3, <1>4, RetireMoves
<1>6. b.seq \in Nat
  BY <1>3, InRegistry DEF Binding
<1>7. PICK conf : conf = (mem[l].conf \ {c}) \cup
                    (IF b = NoBinding THEN {} ELSE {[c EXCEPT !.acked = b.seq]})
  OBVIOUS
<1>8. /\ [c EXCEPT !.acked = b.seq] \in [job : Jobs, lease : Nat, acked : Nat]
      /\ [c EXCEPT !.acked = b.seq].job = c.job
  BY <1>2, <1>6
<1>9. /\ conf \in SUBSET [job : Jobs, lease : Nat, acked : Nat]
      /\ \A d \in conf : d \in mem[l].conf \/ d.job = c.job
  BY <1>1, <1>7, <1>8
<1>10. ConfOk(conf, phase')
  BY <1>1, <1>2, <1>4, <1>9 DEF ConfOk
<1>11. mem' = [mem EXCEPT ![l].conf = conf]
  BY <1>7, MemoryFields DEF ConfirmAck
<1>12. Justified(l)
  BY <1>9, <1>10, <1>11, ConfBecomes
<1> QED BY <1>5, <1>12, MovesOk

LEMMA DropBindingStep ==
    ASSUME DeliveryInv, NEW l \in Leaders, NEW c \in mem[l].conf, DropBinding(l, c)
    PROVE  DeliveryInv'
<1> DEFINE b == BindingOf(l, c.job, c.lease)
           x == IF b.seq = c.acked THEN NoBinding ELSE mem[l].reg[c.job]
           conf == (mem[l].conf \ {c}) \cup
                     (IF b.seq \in {0, c.acked} THEN {} ELSE {[c EXCEPT !.acked = 0]})
           r == [mem[l].reg EXCEPT ![c.job] = x]
           m == [mem[l] EXCEPT !.conf = conf, !.reg[c.job] = x]
<1>1. /\ mem[l].conf \subseteq [job : Jobs, lease : Nat, acked : Nat]
      /\ \A d \in mem[l].conf : phase[d.job] = "ended"
  BY MemoryFields DEF MemOk, ConfOk
<1>2. c \in [job : Jobs, lease : Nat, acked : Nat] /\ phase[c.job] = "ended"
  BY <1>1
<1>3. WorldMoves /\ UNCHANGED <<stream, phase>>
  BY WorldStands DEF DropBinding, jobVars, natsVars
<1>4. /\ [c EXCEPT !.acked = 0] \in [job : Jobs, lease : Nat, acked : Nat]
      /\ [c EXCEPT !.acked = 0].job = c.job
  BY <1>2
<1>5. /\ conf \in SUBSET [job : Jobs, lease : Nat, acked : Nat]
      /\ \A d \in conf : d \in mem[l].conf \/ d.job = c.job
  BY <1>1, <1>4
<1>6. ConfOk(conf, phase')
  BY <1>1, <1>2, <1>3, <1>5 DEF ConfOk
<1>7. c.job \in Jobs /\ Extends(stream, stream')
  BY <1>2, <1>3 DEF WorldMoves
<1>8. x \in Binding /\ (x # NoBinding => Good(stream', x.seq, c.job))
  <2>1. NoBinding \in Binding
    BY DEF NoBinding, Binding
  <2>2. mem[l].reg[c.job] \in Binding
        /\ (mem[l].reg[c.job] # NoBinding => Good(stream, mem[l].reg[c.job].seq, c.job))
    BY <1>7, MemoryFields DEF MemOk, RegOk
  <2> QED BY <1>3, <2>1, <2>2
<1>9. mem' = [mem EXCEPT ![l] = m]
  BY MemoryFields DEF DropBinding
<1> HIDE DEF x, conf
<1>10. r \in [Jobs -> Binding] /\ RegOk(r, stream')
  BY <1>7, <1>8, RegOkAfter
<1>11. m.reg = r
  BY MemoryFields DEF Memory
<1>12. /\ m \in Memory /\ m.hand = mem[l].hand /\ m.adv = mem[l].adv
       /\ m.rec = mem[l].rec /\ m.buf = mem[l].buf /\ m.conf = conf
  BY <1>5, <1>10, MemoryFields DEF Memory
<1> HIDE DEF m, r
<1>13. Justified(l)
  BY <1>6, <1>9, <1>10, <1>11, <1>12, MemoryBecomes
<1> QED BY <1>3, <1>13, MovesOk

LEMMA ControlFailsStep ==
    ASSUME DeliveryInv, NEW l \in Leaders, NEW c \in mem[l].conf, ControlFails(l, c)
    PROVE  DeliveryInv'
<1>1. WorldMoves /\ UNCHANGED phase
  BY WorldStands DEF ControlFails, jobVars, natsVars
<1>2. PICK conf : conf = mem[l].conf \ {c}
  OBVIOUS
<1>3. conf \in SUBSET [job : Jobs, lease : Nat, acked : Nat]
  BY <1>2, MemoryFields
<1>4. ConfOk(conf, phase')
  BY <1>1, <1>2, MemoryFields DEF MemOk, ConfOk
<1>5. mem' = [mem EXCEPT ![l].conf = conf]
  BY <1>2, MemoryFields DEF ControlFails
<1>6. Justified(l)
  BY <1>3, <1>4, <1>5, ConfBecomes
<1> QED BY <1>1, <1>6, MovesOk

-------------------------------------------------------------------------------
(* Leaders come and go, messages expire, jobs are submitted and published. *)

LEMMA LeaderLostStep ==
    ASSUME DeliveryInv, NEW l \in Leaders, LeaderLost(l)
    PROVE  DeliveryInv'
<1>1. WorldMoves
  BY WorldStands DEF LeaderLost, jobVars, natsVars
<1>2. PICK m : m = EmptyMemory
  OBVIOUS
<1>3. NoBinding \in Binding
  BY DEF NoBinding, Binding
<1>4. m \in Memory
  BY <1>2, <1>3, IdleOk, 0 \in Nat DEF EmptyMemory, Memory
<1>5. m.hand = Idle /\ m.adv = Idle /\ m.rec = Idle /\ m.conf = {}
      /\ (\A j \in Jobs : m.buf[j] = 0 /\ m.reg[j] = NoBinding)
  BY <1>2 DEF EmptyMemory
<1>6. BufOk(m.buf, stream') /\ RegOk(m.reg, stream') /\ ConfOk(m.conf, phase')
  BY <1>5 DEF BufOk, RegOk, ConfOk
<1>7. mem' = [mem EXCEPT ![l] = m]
  BY <1>2 DEF LeaderLost
<1>8. Justified(l)
  BY <1>4, <1>5, <1>6, <1>7, IdleOk, MemoryBecomes
<1> QED BY <1>1, <1>8, MovesOk

LEMMA AckExpiresStep ==
    ASSUME DeliveryInv, NEW s \in DOMAIN stream, AckExpires(s)
    PROVE  DeliveryInv'
<1>1. WorldMoves /\ UNCHANGED mem
  BY ReturnMoves DEF AckExpires, jobVars
<1> QED BY <1>1, MovesOk

LEMMA PublishReadyStep ==
    ASSUME DeliveryInv, NEW l \in Leaders, PublishReady(l)
    PROVE  DeliveryInv'
<1>1. WorldMoves /\ UNCHANGED mem
  BY WorldStands DEF PublishReady, jobVars, natsVars
<1> QED BY <1>1, MovesOk

\* The steps of a job that end in no leader's memory, and publish nothing.
LEMMA OwnStep ==
    ASSUME DeliveryInv, NEW j \in Jobs,
           Cancel(j) \/ \E outcome \in Reported : Report(j, outcome)
    PROVE  DeliveryInv'
<1>1. Progress(j) /\ UNCHANGED <<natsVars, row, mem>>
  BY DEF Cancel, Report, Progress
<1>2. WorldMoves
  BY <1>1, JobMoves
<1> QED BY <1>1, <1>2, MovesOk

\* Submission, and the steps of the outbox, change what a job is owed.
LEMMA SubmitStep ==
    ASSUME DeliveryInv, NEW j \in Jobs, Submit(j)
    PROVE  DeliveryInv'
<1>1. /\ phase \in [Jobs -> Job!Phase] /\ tries \in [Jobs -> Nat]
      /\ row \in [Jobs -> {"none", "pending", "published"}]
      /\ stream \in Seq(Message) /\ mem \in [Leaders -> Memory]
      /\ StreamOk(stream, phase, redriven, advisories)
      /\ QueuedOk(stream, phase, row, sent)
  BY DEF DeliveryInv, Typed
<1>2. /\ phase' = [phase EXCEPT ![j] = "waiting"] /\ phase[j] = "absent"
      /\ row' = [row EXCEPT ![j] = "pending"]
      /\ UNCHANGED <<tries, stream, sent, redriven, advisories, mem>>
  BY DEF Submit, Job!Submit, natsVars
<1>3. phase' \in [Jobs -> Job!Phase] /\ Later(phase, phase')
  BY <1>1, <1>2 DEF Job!Phase, Later, Over
<1>4. row' \in [Jobs -> {"none", "pending", "published"}]
  BY <1>1, <1>2
<1>5. \A s \in DOMAIN stream : stream[s].job \in Jobs
  BY MessageFields
<1>6. StreamOk(stream, phase', redriven, advisories)
  BY <1>1, <1>3, <1>5 DEF StreamOk, Later
<1>7. QueuedOk(stream, phase', row', sent)
  BY <1>1, <1>2 DEF QueuedOk
<1>8. Extends(stream, stream')
  BY <1>2 DEF Extends
<1>9. \A k \in Leaders : MemOk(mem'[k], stream', phase', redriven')
  BY <1>1, <1>2, <1>3, <1>8, WorldStep
<1> QED BY <1>1, <1>2, <1>3, <1>4, <1>6, <1>7, <1>9 DEF DeliveryInv, Typed

LEMMA StrayMessageStep ==
    ASSUME DeliveryInv, NEW j \in Jobs, StrayMessage(j)
    PROVE  DeliveryInv'
<1>1. /\ stream' = Append(stream, NewMessage(j, FALSE))
      /\ UNCHANGED <<phase, tries, row, sent, redriven, advisories, mem>>
  BY DEF StrayMessage, jobVars
<1>2. /\ stream' \in Seq(Message)
      /\ Extends(stream, stream')
      /\ StreamOk(stream', phase, redriven, advisories)
  BY <1>1, AppendOk, FALSE \in BOOLEAN
<1>3. WorldMoves
  BY <1>1, <1>2 DEF DeliveryInv, Typed, WorldMoves, Later
<1> QED BY <1>1, <1>3, MovesOk

LEMMA PublishStep ==
    ASSUME DeliveryInv, NEW j \in Jobs, Publish(j)
    PROVE  DeliveryInv'
<1>1. /\ stream' = Append(stream, NewMessage(j, TRUE)) /\ sent' = sent \cup {j}
      /\ UNCHANGED <<phase, tries, row, redriven, advisories, mem>>
  BY DEF Publish, jobVars
<1>2. /\ stream' \in Seq(Message)
      /\ DOMAIN stream' = DOMAIN stream \cup {Len(stream) + 1}
      /\ stream'[Len(stream) + 1] = NewMessage(j, TRUE)
      /\ Extends(stream, stream')
      /\ StreamOk(stream', phase, redriven, advisories)
  BY <1>1, AppendOk, TRUE \in BOOLEAN
<1>3. Good(stream', Len(stream) + 1, j)
  BY <1>2 DEF Good, NewMessage
<1>4. \A k \in Jobs, s \in DOMAIN stream : Good(stream, s, k) => Good(stream', s, k)
  BY <1>2 DEF Good, Extends
<1>5. QueuedOk(stream, phase, row, sent)
  BY DEF DeliveryInv
<1>6. QueuedOk(stream', phase, row, sent')
  BY <1>1, <1>2, <1>3, <1>4, <1>5 DEF QueuedOk
<1>7. \A k \in Leaders : MemOk(mem'[k], stream', phase', redriven')
  BY <1>1, <1>2, WorldStep DEF Later
<1> QED BY <1>1, <1>2, <1>6, <1>7 DEF DeliveryInv, Typed

LEMMA MarkPublishedStep ==
    ASSUME DeliveryInv, NEW j \in Jobs, MarkPublished(j)
    PROVE  DeliveryInv'
<1>1. /\ j \in sent /\ row' = [row EXCEPT ![j] = "published"]
      /\ UNCHANGED <<phase, tries, stream, sent, redriven, advisories, mem>>
  BY DEF MarkPublished, jobVars, natsVars
<1>2. row' \in [Jobs -> {"none", "pending", "published"}]
  BY <1>1 DEF DeliveryInv, Typed
<1>3. QueuedOk(stream, phase, row', sent)
  BY <1>1 DEF DeliveryInv, Typed, QueuedOk
<1> QED BY <1>1, <1>2, <1>3 DEF DeliveryInv, Typed

-------------------------------------------------------------------------------
(* The invariant, and what follows from it.                                *)

LEMMA DeliveryInit == Init => DeliveryInv
<1> SUFFICES ASSUME Init PROVE DeliveryInv
  OBVIOUS
<1>1. NoBinding \in Binding
  BY DEF NoBinding, Binding
<1>2. PICK m : m = EmptyMemory
  OBVIOUS
<1>3. m \in Memory
  BY <1>1, <1>2, IdleOk, 0 \in Nat DEF EmptyMemory, Memory
<1>4. m.hand = Idle /\ m.adv = Idle /\ m.rec = Idle /\ m.conf = {}
      /\ (\A j \in Jobs : m.buf[j] = 0 /\ m.reg[j] = NoBinding)
  BY <1>2 DEF EmptyMemory
<1>5. MemOk(m, stream, phase, redriven)
  BY <1>4, IdleOk DEF MemOk, BufOk, RegOk, ConfOk
<1>6. mem = [l \in Leaders |-> m]
  BY <1>2 DEF Init
<1>7. \A l \in Leaders : MemOk(mem[l], stream, phase, redriven)
  BY <1>5, <1>6
<1>8. stream = <<>> /\ redriven = {} /\ sent = {}
  BY DEF Init
<1>9. stream \in Seq(Message) /\ DOMAIN stream = {}
  BY <1>8
<1>10. StreamOk(stream, phase, redriven, advisories)
  BY <1>8, <1>9 DEF StreamOk
<1>11. QueuedOk(stream, phase, row, sent)
  BY <1>8 DEF Init, Job!Init, QueuedOk
<1>12. Typed
  BY <1>3, <1>6, <1>9, 0 \in Nat DEF Typed, Init, Job!Init, Job!Phase
<1> QED BY <1>7, <1>10, <1>11, <1>12 DEF DeliveryInv

LEMMA DeliveryNext == DeliveryInv /\ [Next]_vars => DeliveryInv'
<1> SUFFICES ASSUME DeliveryInv, [Next]_vars PROVE DeliveryInv'
  OBVIOUS
<1>1. CASE UNCHANGED vars
  BY <1>1 DEF vars, DeliveryInv, Typed
<1>2. ASSUME NEW j \in Jobs, JobStep(j) PROVE DeliveryInv'
  BY <1>2, SubmitStep, OwnStep, PublishStep, MarkPublishedStep, StrayMessageStep
     DEF JobStep
<1>3. ASSUME NEW l \in Leaders, LeaderStep(l) PROVE DeliveryInv'
  <2>1. CASE \E s \in DOMAIN stream : Deliver(l, s) \/ HandleAdvisory(l, s)
    BY <2>1, DeliverStep, HandleAdvisoryStep
  <2>2. CASE \E j \in Jobs : Pop(l, j) \/ Recovery(l, j) \/ FinalizeReady(l, j)
                               \/ RetirePublished(l, j) \/ WorkerEnds(l, j)
                               \/ Replay(l, j)
    BY <2>2, PopStep, RecoveryStep, FinalizeReadyStep, RetirePublishedStep,
       WorkerEndsStep, ReplayStep
  <2>3. CASE DispatcherTask(l) \/ Claim(l) \/ DispatcherFails(l)
    BY <2>3, BufferStep, NoClaimStep, BindClaimedStep, RebindStep, ClaimStep,
       FinalizeCancellationStep, SettlingStep, DispatcherFailsStep DEF DispatcherTask
  <2>4. CASE AdvisoryTask(l) \/ AdvisoryFails(l)
    BY <2>4, AdvisoryStep, AckAdvisoryStep, AdvisoryFailsStep DEF AdvisoryTask
  <2>5. CASE ReconcilerTask(l) \/ PublishReady(l) \/ ReconcilerFails(l)
    BY <2>5, NakStep, ReconcilerLetterStep, RetireExhaustedStep, PublishReadyStep,
       ReconcilerFailsStep DEF ReconcilerTask
  <2>6. CASE ControlTask(l) \/ \E c \in mem[l].conf : ControlFails(l, c)
    BY <2>6, ConfirmAckStep, DropBindingStep, ControlFailsStep DEF ControlTask
  <2>7. CASE LeaderLost(l)
    BY <2>7, LeaderLostStep
  <2> QED BY <1>3, <2>1, <2>2, <2>3, <2>4, <2>5, <2>6, <2>7 DEF LeaderStep
<1>4. ASSUME NEW s \in DOMAIN stream, AckExpires(s) PROVE DeliveryInv'
  BY <1>4, AckExpiresStep
<1> QED BY <1>1, <1>2, <1>3, <1>4 DEF Next

\* A finite set of numbers has a largest one: a number with the fewest above it.
LEMMA NewestOf ==
    ASSUME NEW K \in SUBSET Nat, IsFiniteSet(K), K # {}
    PROVE  \E j \in K : \A k \in K : k <= j
<1> DEFINE Above(j) == {k \in K : k > j}
           T == {Above(j) : j \in K}
<1>1. T \subseteq FiniteSubsetsOf(K) /\ T # {}
  <2>1. \A j \in K : Above(j) \in SUBSET K
    OBVIOUS
  <2>2. \A j \in K : Above(j) \in FiniteSubsetsOf(K)
    BY <2>1, FS_Subset DEF FiniteSubsetsOf
  <2> QED BY <2>2
<1>2. PICK x \in T : \A y \in T : ~(<<y, x>> \in StrictSubsetOrdering(K))
  <2> HIDE DEF T
  <2> QED BY <1>1, FS_StrictSubsetOrderingWellFounded, WFMin
<1>3. PICK j \in K : x = Above(j)
  OBVIOUS
<1>4. ASSUME NEW k \in K, k > j PROVE FALSE
  <2>1. Above(k) \subseteq Above(j) /\ Above(k) # Above(j)
    <3>1. k \in Above(j) /\ k \notin Above(k)
      BY <1>4
    <3>2. \A i \in Above(k) : i \in Above(j)
      BY <1>4
    <3> QED BY <3>1, <3>2
  <2>2. Above(k) \in T /\ <<Above(k), x>> \in StrictSubsetOrdering(K)
    BY <1>3, <2>1 DEF StrictSubsetOrdering
  <2> QED BY <1>2, <2>2
<1> QED BY <1>4

\* The newest good message of a job that waits or runs can still be used.
LEMMA NewestRecoverable ==
    ASSUME DeliveryInv, NEW j \in Jobs, j \in sent, phase[j] \notin Over
    PROVE  \E s \in Of(j) : Recoverable(s)
<1> DEFINE K == {s \in DOMAIN stream : Good(stream, s, j)}
<1>1. stream \in Seq(Message) /\ StreamOk(stream, phase, redriven, advisories)
  BY DEF DeliveryInv, Typed
<1>2. K # {}
  BY DEF DeliveryInv, QueuedOk
<1>3. K \in SUBSET Nat /\ IsFiniteSet(K)
  <2>1. DOMAIN stream = 1 .. Len(stream) /\ Len(stream) \in Nat
    BY <1>1
  <2>2. IsFiniteSet(DOMAIN stream)
    BY <2>1, FS_Interval, 1 \in Int
  <2>3. K \subseteq DOMAIN stream
    OBVIOUS
  <2> QED BY <2>1, <2>2, <2>3, FS_Subset
<1>4. PICK s \in K : \A u \in K : u <= s
  <2> HIDE DEF K
  <2> QED BY <1>2, <1>3, NewestOf
<1>5. /\ s \in DOMAIN stream /\ stream[s].job = j /\ stream[s].good
      /\ stream[s] \in Message /\ s \in Nat
  BY <1>1, MessageFields DEF Good
<1>6. ~Covered(stream, s)
  <2> SUFFICES ASSUME NEW u \in DOMAIN stream, u > s, Good(stream, u, j) PROVE FALSE
    BY <1>5 DEF Covered
  <2>1. u \in K /\ u \in Nat
    BY <1>3
  <2> QED BY <1>4, <1>5, <2>1
<1>7. stream[s].there
  BY <1>1, <1>5, <1>6 DEF StreamOk
<1>8. stream[s].out \/ stream[s].n < MaxDeliver \/ s \in advisories
  <2>1. stream[s].n \in Nat /\ MaxDeliver \in Nat
    BY <1>5, DeliveryAssumption DEF Message, MaxDeliver
  <2>2. stream[s].n <= MaxDeliver
        /\ (~stream[s].out /\ stream[s].n = MaxDeliver => s \in advisories)
    BY <1>1, <1>5, <1>7 DEF StreamOk
  <2> QED BY <2>1, <2>2
<1> QED BY <1>5, <1>7, <1>8 DEF Of, Recoverable

LEMMA NothingLost == DeliveryInv => NoLostWork
<1> SUFFICES ASSUME DeliveryInv, NEW j \in Jobs, phase[j] \in {"waiting", "running"}
             PROVE  \/ row[j] = "pending" /\ j \notin sent
                    \/ \E s \in Of(j) : Recoverable(s)
  BY DEF NoLostWork
<1>1. phase[j] \notin Over
  BY DEF Over
<1>2. row[j] = "pending" \/ j \in sent
  BY DEF DeliveryInv, QueuedOk
<1> QED BY <1>1, <1>2, NewestRecoverable

\* Work is never lost: while a job waits or runs, its message is still to be
\* published, or one is in the stream that will be delivered again or whose
\* advisory will be handled, whatever the leaders, the queue and the network do.
THEOREM WorkNeverLost == Spec => []NoLostWork
BY DeliveryInit, DeliveryNext, NothingLost, PTL DEF Spec

=============================================================================
