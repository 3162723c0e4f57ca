----------------------------- MODULE EventStream ------------------------------
(***************************************************************************)
(* GET /jobs/{id}/events: one job's event log, the transactions that write *)
(* to it and one client that follows it (crates/api/src/events.rs,         *)
(* append_event in crates/repository/src/jobs.rs).                         *)
(*                                                                         *)
(* Event numbers come from one database sequence, which is not ordered by  *)
(* commit; the cursor "everything after n" is only safe because writers of *)
(* one job draw their numbers while they hold the job's row.               *)
(*                                                                         *)
(* An event is its number.  What is on the wire may be lost with the       *)
(* connection; the client reconnects with the last number it received.     *)
(***************************************************************************)
EXTENDS Integers, Sequences, Functions

CONSTANTS
    Writers,        \* transactions that append an event to the job
    LastWriters,    \* those that end the job
    NoWriter,
    EventBatch,     \* EVENT_BATCH_SIZE
    MaxReconnects   \* bound on reconnections, for model checking only

ASSUME StreamAssumption ==
    /\ NoWriter \notin Writers
    /\ EventBatch \in Nat \ {0}

VARIABLES
    committed,  \* event numbers in job_events
    ended,      \* the number of the terminal event, 0 while the job runs
    drawn,      \* the last number the sequence gave out
    writer,     \* per writer: how far it is and the number it drew
    jobRow,     \* the writer that holds the job's row
    stream,     \* EventStreamState of the open connection
    wire,       \* events sent and not yet received
    seen,       \* what the client received
    reconnects

streamVars == <<committed, ended, drawn, writer, jobRow, stream, wire, seen,
                reconnects>>

Opened(after) ==
    [at |-> "loop", after |-> after, pending |-> <<>>, closeNext |-> FALSE]

StreamInit ==
    /\ committed = {}
    /\ ended = 0
    /\ drawn = 0
    /\ writer = [w \in Writers |-> [at |-> "idle", number |-> 0]]
    /\ jobRow = NoWriter
    /\ stream = Opened(0)
    /\ wire = <<>>
    /\ seen = <<>>
    /\ reconnects = 0

followerVars == <<stream, wire, seen, reconnects>>

-------------------------------------------------------------------------------
(* append_event, inside the transaction that changes the job.              *)

\* Fault: the row is not locked before the number is drawn.
FaultNoRowLock(w) ==
    /\ writer[w].at = "idle"
    /\ ended = 0
    /\ writer' = [writer EXCEPT ![w].at = "locked"]
    /\ UNCHANGED <<committed, ended, drawn, jobRow, followerVars>>

\* SELECT id FROM jobs ... FOR UPDATE.  A transition of an ended job is refused.
LockRow(w) ==
    /\ writer[w].at = "idle"
    /\ jobRow = NoWriter
    /\ ended = 0
    /\ jobRow' = w
    /\ writer' = [writer EXCEPT ![w].at = "locked"]
    /\ UNCHANGED <<committed, ended, drawn, followerVars>>

\* INSERT INTO job_events: the sequence gives out the next number.
InsertEvent(w) ==
    /\ writer[w].at = "locked"
    /\ drawn' = drawn + 1
    /\ writer' = [writer EXCEPT ![w] = [at |-> "inserted", number |-> drawn + 1]]
    /\ UNCHANGED <<committed, ended, jobRow, followerVars>>

\* COMMIT: the event and the state it tells of become visible together.
CommitEvent(w) ==
    /\ writer[w].at = "inserted"
    /\ committed' = committed \cup {writer[w].number}
    /\ ended' = IF w \in LastWriters THEN writer[w].number ELSE ended
    /\ writer' = [writer EXCEPT ![w] = [at |-> "done", number |-> 0]]
    /\ jobRow' = IF jobRow = w THEN NoWriter ELSE jobRow
    /\ UNCHANGED <<drawn, followerVars>>

\* The transaction is rolled back: its number is never used.
RollBackEvent(w) ==
    /\ writer[w].at = "inserted"
    /\ writer' = [writer EXCEPT ![w] = [at |-> "done", number |-> 0]]
    /\ jobRow' = IF jobRow = w THEN NoWriter ELSE jobRow
    /\ UNCHANGED <<committed, ended, drawn, followerVars>>

logVars == <<committed, ended, drawn, writer, jobRow>>

-------------------------------------------------------------------------------
(* next_event.                                                             *)

Ends(how) == stream' = [stream EXCEPT !.at = how, !.pending = <<>>]

\* The event before this one told that the job ended.
CloseAfterTerminal ==
    /\ stream.at = "loop"
    /\ stream.closeNext
    /\ Ends("closed")
    /\ UNCHANGED <<logVars, wire, seen, reconnects>>

SendPending ==
    LET number == Head(stream.pending)
    IN  /\ stream.at = "loop"
        /\ ~stream.closeNext
        /\ stream.pending # <<>>
        /\ stream' = [stream EXCEPT !.after = number, !.pending = Tail(@),
                                    !.closeNext = (number = ended)]
        /\ wire' = Append(wire, number)
        /\ UNCHANGED <<logVars, seen, reconnects>>

Increasing(s) == \A i, k \in DOMAIN s : i < k => s[i] < s[k]

\* list_job_events_after: the first EVENT_BATCH_SIZE numbers after the cursor, in
\* order.  The set holds one sequence.
NextBatch(after) ==
    LET newer == {n \in committed : n > after}
    IN  {b \in UNION {[1 .. k -> newer] : k \in 0 .. EventBatch} :
            /\ Increasing(b)
            /\ Len(b) = EventBatch \/ Range(b) = newer
            /\ \A n \in newer \ Range(b) : \A i \in DOMAIN b : b[i] < n}

ListEvents ==
    /\ stream.at = "loop"
    /\ ~stream.closeNext
    /\ stream.pending = <<>>
    /\ \E b \in NextBatch(stream.after) :
          stream' = IF b = <<>> THEN [stream EXCEPT !.at = "check"]
                                ELSE [stream EXCEPT !.pending = b]
    /\ UNCHANGED <<logVars, wire, seen, reconnects>>

\* get_job after an empty batch: an ended job closes the stream, though its last
\* event may have been committed since the batch was read.
CheckEnded ==
    /\ stream.at = "check"
    /\ IF ended # 0 THEN Ends("closed") ELSE stream' = [stream EXCEPT !.at = "loop"]
    /\ UNCHANGED <<logVars, wire, seen, reconnects>>

\* A failed query, a shutdown of the server or a broken connection.
StreamFails ==
    /\ stream.at \in {"loop", "check"}
    /\ Ends("broken")
    /\ wire' = <<>>
    /\ UNCHANGED <<logVars, seen, reconnects>>

-------------------------------------------------------------------------------
(* The client.                                                             *)

Receive ==
    /\ wire # <<>>
    /\ seen' = Append(seen, Head(wire))
    /\ wire' = Tail(wire)
    /\ UNCHANGED <<logVars, stream, reconnects>>

LastSeen == IF seen = <<>> THEN 0 ELSE seen[Len(seen)]

\* Last-Event-ID; parse_last_event_id takes its absence for 0.
Reconnect ==
    /\ stream.at \in {"closed", "broken"}
    /\ wire = <<>>
    /\ reconnects < MaxReconnects
    /\ stream' = Opened(LastSeen)
    /\ reconnects' = reconnects + 1
    /\ UNCHANGED <<logVars, wire, seen>>

StreamNext ==
    \/ \E w \in Writers :
        LockRow(w) \/ InsertEvent(w) \/ CommitEvent(w) \/ RollBackEvent(w)
    \/ CloseAfterTerminal \/ SendPending \/ ListEvents \/ CheckEnded
    \/ StreamFails \/ Receive \/ Reconnect

StreamSpec == StreamInit /\ [][StreamNext]_streamVars

-------------------------------------------------------------------------------
(* Properties.                                                             *)

\* "Serializing on the job row prevents an after_sequence consumer from
\* observing a later same-job event before an earlier transaction commits": the
\* client has every event up to the last one it received, in order and once,
\* whatever was lost on the way and whenever the writers commit.
FollowerHasPrefix ==
    /\ Increasing(seen)
    /\ Range(seen) = {n \in committed : n <= LastSeen}

\* "Ordered SSE stream; the server closes it after the terminal event": a stream
\* that next_event ends because the job has ended has sent its last event.
ClosesAfterTerminal == stream.at = "closed" => stream.after = ended

=============================================================================
