------------------------------- MODULE Stream -------------------------------
(***************************************************************************)
(* The console's change stream, app/api/stream.py, over the audit log and  *)
(* the two tables of agent calls, and the page that follows it,            *)
(* web/src/lib/sse.ts, source.ts and queries.ts.  A cursor is a place in   *)
(* each table.  The ids of llm_calls and tool_calls come from a sequence   *)
(* and nothing orders the commits: a row may become visible after a later  *)
(* one.  The audit log is the module it extends: its rows are seen in the  *)
(* order of seq, and the stream relies on it.                              *)
(***************************************************************************)
EXTENDS AuditLog, FiniteSetsExt, Functions

CONSTANTS
    Tables,      \* llm_calls and tool_calls
    Incidents,
    MaxCalls,    \* bound: rows drawn in each of Tables
    MaxCuts,     \* bound: connections lost
    Batch        \* _BATCH

ASSUME StreamConstants == MaxCalls \in Nat /\ MaxCuts \in Nat /\ Batch \in Nat \ {0}

VARIABLES
    calls,       \* committed rows of Tables: [table, id, incident]
    drawn,       \* rows that have an id and are not committed
    server,      \* the open connection: its cursor and the frames of its poll
    lastId,      \* the client's Last-Event-ID
    handled,     \* audit rows the page was told of, in order
    told,        \* calls the page was told of, as activity of their incident
    start,       \* the first cursor the client got
    cuts, torn,  \* connections lost, and how many of them inside a frame
    excused,     \* calls committed behind a cursor, or whose frame a cut took
    page,        \* audit rows the page shows
    fetch,       \* its query: not under way, asked, or answered with rows
    stale        \* the last audit event came between a query's read and its answer

streamVars == <<calls, drawn, server, lastId, handled, told, start, cuts, torn, excused>>
pageVars == <<page, fetch, stale>>

NoId == [audit |-> 0, id |-> [t \in Tables |-> 0]]
Ids(S, t) == {c.id : c \in {x \in S : x.table = t}}
Idle == [at |-> "idle", rows |-> {}]
Seqs == {r.seq : r \in rows}
Top(S) == Max(S \cup {0})

\* SELECT MAX(...) of each table
Latest == [audit |-> Top(Seqs), id |-> [t \in Tables |-> Top(Ids(calls, t))]]

StreamInit ==
    /\ Init
    /\ calls = {} /\ drawn = {}
    /\ server = [up |-> FALSE, cursor |-> NoId, frames |-> {}]
    /\ lastId = {} /\ handled = <<>> /\ told = {} /\ start = {}
    /\ cuts = 0 /\ torn = 0 /\ excused = {}
    /\ page = {} /\ fetch = Idle /\ stale = FALSE

-----------------------------------------------------------------------------
(* The tables the agents write: PgAgentStore.record_llm_call and           *)
(* PgEvidenceStore.save, each in a transaction of its own.                 *)

Draw(t, i) ==
    LET n == Top(Ids(calls \cup drawn, t)) + 1 IN
    /\ n <= MaxCalls
    /\ drawn' = drawn \cup {[table |-> t, id |-> n, incident |-> i]}
    /\ UNCHANGED <<calls, server, lastId, handled, told, start, cuts, torn, excused>>
    /\ UNCHANGED <<vars, pageVars>>

\* A poll that would have shown c is over: the cursor of the connection, or the
\* one the client resumes from, is past it.
Overtaken(c) ==
    \/ server.up /\ c.id <= server.cursor.id[c.table]
    \/ \E i \in lastId : c.id <= i.id[c.table]

Record(c) ==
    /\ c \in drawn
    /\ calls' = calls \cup {c} /\ drawn' = drawn \ {c}
    /\ excused' = IF Overtaken(c) THEN excused \cup {c} ELSE excused
    /\ UNCHANGED <<server, lastId, handled, told, start, cuts, torn>>
    /\ UNCHANGED <<vars, pageVars>>

-----------------------------------------------------------------------------
(* The server                                                              *)

\* ORDER BY id LIMIT :n, of the rows of S
FirstOf(S, n) == {x \in S : Cardinality({y \in S : y < x}) < n}
Connect ==
    /\ ~server.up
    /\ \E from \in IF lastId = {} THEN {Latest} ELSE lastId :
         server' = [up |-> TRUE, cursor |-> from,
                    frames |-> {[event |-> "ready", seq |-> 0, calls |-> {}, cursor |-> from]}]
    /\ UNCHANGED <<calls, drawn, lastId, handled, told, start, cuts, torn, excused, vars, pageVars>>

NewSeqs(cursor) == FirstOf({s \in Seqs : s > cursor.audit}, Batch)
NewCalls(cursor) ==
    {c \in calls : c.id \in FirstOf({n \in Ids(calls, c.table) : n > cursor.id[c.table]}, Batch)}
After(cursor) ==
    [audit |-> Top({cursor.audit} \cup NewSeqs(cursor)),
     id |-> [t \in Tables |-> Top({cursor.id[t]} \cup Ids(NewCalls(cursor), t))]]

AuditFrame(cursor, s) ==
    [event |-> "audit", seq |-> s, calls |-> {}, cursor |-> [cursor EXCEPT !.audit = s]]
ActivityFrame(cursor, i) ==
    [event |-> "activity", seq |-> 0, cursor |-> After(cursor),
     calls |-> {c \in NewCalls(cursor) : c.incident = i}]

\* As if one poll announced the incident of its newest call only.
changes_Slip(cursor) ==
    LET newest == {c \in NewCalls(cursor) : c.id = After(cursor).id[c.table]}
    IN  {AuditFrame(cursor, s) : s \in NewSeqs(cursor)} \cup {ActivityFrame(cursor, c.incident) : c \in newest}

\* changes: a frame for each audit row, then one for each incident.
changes(cursor) ==
    {AuditFrame(cursor, s) : s \in NewSeqs(cursor)}
    \cup {ActivityFrame(cursor, c.incident) : c \in NewCalls(cursor)}

\* The frames that may come next: audit rows first, the oldest of them.
Ahead(f, g) == f.event = "audit" /\ (g.event = "audit" => f.seq < g.seq)
Upcoming == {f \in server.frames : \A g \in server.frames : ~Ahead(g, f)}

Poll ==
    /\ server.up /\ server.frames = {}
    /\ changes(server.cursor) # {}
    /\ server' = [server EXCEPT !.frames = changes(server.cursor), !.cursor = After(server.cursor)]
    /\ UNCHANGED <<calls, drawn, lastId, handled, told, start, cuts, torn, excused, vars, pageVars>>

-----------------------------------------------------------------------------
(* The client                                                              *)

\* apply: an event has the page refetched; a refetch that is under way is left
\* to finish (cancelRefetch: false), and no other follows it.
Invalidate_Slip(event) == UNCHANGED pageVars
Invalidate(event) ==
    /\ fetch' = IF event = "audit" /\ fetch = Idle THEN [Idle EXCEPT !.at = "asked"] ELSE fetch
    /\ stale' = IF event = "audit" /\ fetch.at # "asked" THEN fetch # Idle ELSE stale
    /\ UNCHANGED page

\* A whole frame arrives: the event is handled, then its id remembered.
Deliver(f) ==
    /\ f \in Upcoming
    /\ handled' = IF f.event = "audit" THEN Append(handled, f.seq) ELSE handled
    /\ told' = told \cup f.calls
    /\ lastId' = {f.cursor}
    /\ start' = IF start = {} THEN {f.cursor} ELSE start
    /\ server' = [server EXCEPT !.frames = @ \ {f}]
    /\ Invalidate(f.event)
    /\ UNCHANGED <<calls, drawn, cuts, torn, excused, vars>>

\* The calls whose frames a cut takes although the client resumes after them
TakenBy(ids) == UNION {f.calls : f \in {g \in server.frames : g.cursor \in ids}}

Lost(ids) ==
    /\ server.up /\ cuts < MaxCuts
    /\ cuts' = cuts + 1
    /\ excused' = excused \cup TakenBy(ids)
    /\ server' = [server EXCEPT !.up = FALSE, !.frames = {}]
    /\ lastId' = ids
    /\ start' = IF start = {} THEN ids ELSE start
    /\ UNCHANGED <<calls, drawn, handled, told, vars, pageVars>>

\* The connection is lost between two frames.
Cut == Lost(lastId) /\ UNCHANGED torn

\* It is lost inside a frame: SseParser took the id when its line came, the
\* blank line that completes the event never does.
CutInFrame(f) ==
    /\ f \in Upcoming
    /\ Lost({f.cursor})
    /\ torn' = torn + 1

\* The server ends the connection after stream_max_s, between two polls.
Close ==
    /\ server.up /\ server.frames = {}
    /\ server' = [server EXCEPT !.up = FALSE]
    /\ UNCHANGED <<calls, drawn, lastId, handled, told, start, cuts, torn, excused, vars, pageVars>>

\* The query of the page: the API reads the log, the answer arrives.
Answer ==
    /\ fetch.at = "asked"
    /\ fetch' = [at |-> "answered", rows |-> Seqs]
    /\ UNCHANGED <<page, stale, streamVars, vars>>
Arrive ==
    /\ fetch.at = "answered"
    /\ page' = fetch.rows /\ fetch' = Idle
    /\ UNCHANGED <<stale, streamVars, vars>>

StreamNext ==
    \/ Next /\ UNCHANGED <<streamVars, pageVars>>
    \/ \E t \in Tables, i \in Incidents : Draw(t, i)
    \/ \E c \in drawn : Record(c)
    \/ \E f \in server.frames : Deliver(f) \/ CutInFrame(f)
    \/ Connect \/ Poll \/ Cut \/ Close
    \/ Answer \/ Arrive

StreamSpec == StreamInit /\ [][StreamNext]_<<vars, streamVars, pageVars>>

-----------------------------------------------------------------------------
(* Properties                                                              *)

FirstCursor == CHOOSE c \in start : TRUE
Passed == CHOOSE c \in lastId : TRUE

\* Audit rows the client will never be told of: its cursor is past them.
MissedRows == {s \in Seqs : FirstCursor.audit < s /\ s <= Passed.audit} \ Range(handled)

\* However polls, commits and lost connections interleave, a client misses at
\* most one audit row for each connection that was lost inside a frame, and
\* none otherwise (stream.py says none is lost: the id line is the exception).
\* Those it is told of come once and in order, however often it reconnects.
AuditDelivered ==
    /\ start # {} => Cardinality(MissedRows) <= torn
    /\ \A j, k \in DOMAIN handled : j < k => handled[j] < handled[k]

\* Every call the client has passed was announced to it or is in a frame on its
\* way, though ids become visible in any order and polls take them in batches.
\* A call is missed in two ways only, and stream.py, which says that a client
\* "misses nothing", provides for neither: it commits behind a cursor that has
\* moved on, or a cut takes its frame after the id that covers it came.
ActivityDelivered ==
    start # {} =>
        \A c \in calls : FirstCursor.id[c.table] < c.id /\ c.id <= Passed.id[c.table]
                            => c \in told \cup excused \cup TakenBy(lastId)

\* A page at rest shows every audit row up to the last it was told of: events
\* that came during a refetch are covered by it, a row whose own frame was cut
\* is there after the next event.  The exception is an event that came when the
\* API had read the log and not yet answered: nothing refetches for it, and the
\* page lacks its row until another event comes.
PageFollows ==
    fetch = Idle /\ ~stale => {s \in Seqs : \E n \in Range(handled) : s <= n} \subseteq page

=============================================================================
