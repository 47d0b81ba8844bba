------------------------------- MODULE Ingest -------------------------------
(***************************************************************************)
(* Alert ingest, app/ingest.py: a webhook opens or merges one incident per *)
(* fingerprint in a single transaction, while other webhooks do the same   *)
(* and workers move the incidents on (app/db/incidents.py).                *)
(*                                                                         *)
(* The transactions are interleaved statement by statement, each with the  *)
(* locks PostgreSQL takes for it.  A statement that would insert or update *)
(* the open incident of a fingerprint waits while another transaction has  *)
(* an uncommitted version of it, and looks again when that one has ended.  *)
(* audit.append takes the advisory lock; module AuditLog has its inside.   *)
(* A deadlock ends by one of the transactions being rolled back.           *)
(***************************************************************************)
EXTENDS Naturals, Sequences, FiniteSets

CONSTANTS
    Webhooks,       \* concurrent requests of alert sources
    Workers,        \* concurrent transactions of workers
    Nobody,         \* a lock is free
    Fingerprints,   \* bound: a set of numbers, in the order of the sort
    MaxBatch,       \* bound: alerts per webhook
    MaxIncidents,   \* bound: incidents inserted, rolled back ones included
    MaxAlerts       \* bound: alerts of one incident

ASSUME IngestConstants ==
    /\ Webhooks \cap Workers = {} /\ Nobody \notin Webhooks \cup Workers
    /\ Fingerprints \subseteq Nat
    /\ MaxBatch \in Nat /\ MaxIncidents \in Nat /\ MaxAlerts \in Nat

VARIABLES
    incidents,   \* committed rows
    alerts,      \* committed firing alerts recorded against each incident
    nextId,      \* the next incident's id
    holder,      \* whose version of the open incident of a fingerprint is uncommitted
    auditLock,   \* who holds the audit log's advisory lock
    tx           \* the open transactions

vars == <<incidents, alerts, nextId, holder, auditLock, tx>>

Transactions == Webhooks \cup Workers
Ids == 1..MaxIncidents
Incident == [id: Ids, fp: Fingerprints, open: BOOLEAN, count: Nat]
Alert == [fp: Fingerprints, status: {"firing", "resolved"}]

\* at: the statement the transaction is at.  todo: the alerts still to handle.
\* mine: the versions it has written.  heard: the firing alerts it recorded.
\* tries: the round of open_or_merge.  id: the incident a worker moves on.
Tx == [at: {"none", "insert", "merge", "audit", "update", "commit"}, todo: Seq(Alert),
       mine: SUBSET Incident, heard: [Ids -> Nat], tries: 0..2, id: Ids \cup {0}]

NoTx == [at |-> "none", todo |-> <<>>, mine |-> {}, heard |-> [i \in Ids |-> 0],
         tries |-> 0, id |-> 0]

Init ==
    /\ incidents = {}
    /\ alerts = [i \in Ids |-> 0]
    /\ nextId = 1
    /\ holder = [f \in Fingerprints |-> Nobody]
    /\ auditLock = Nobody
    /\ tx = [t \in Transactions |-> NoTx]

-----------------------------------------------------------------------------

\* What a statement of t sees: what is committed, and what t wrote itself.
View(t) == {r \in incidents : \A x \in tx[t].mine : x.id # r.id} \cup tx[t].mine
OpenRow(t, f) == {r \in View(t) : r.fp = f /\ r.open}

Free(t, f) == holder[f] \in {t, Nobody}
Wrote(t, r) == {x \in tx[t].mine : x.id # r.id} \cup {r}

\* The alert at the head of the list is done with: on to the next one.
Continue(s) ==
    [s EXCEPT !.todo = Tail(s.todo), !.tries = 0,
              !.at = IF Len(s.todo) = 1 THEN "commit" ELSE "insert"]

\* The batch is taken as it comes.
Sorted_Slip(batch) == TRUE
Sorted(batch) == \A i, j \in 1..Len(batch) : i < j => batch[i].fp <= batch[j].fp

\* The alerts of a webhook, sorted by fingerprint.
Receive(w, batch) ==
    /\ tx[w] = NoTx
    /\ Sorted(batch)
    /\ tx' = [tx EXCEPT ![w].at = "insert", ![w].todo = batch]
    /\ UNCHANGED <<incidents, alerts, nextId, holder, auditLock>>

\* Without the unique index: nobody waits for another's insert.
Insert_Slip(w) ==
    LET f == Head(tx[w].todo).fp
        r == [id |-> nextId, fp |-> f, open |-> TRUE, count |-> 1]
    IN  /\ tx[w].at = "insert" /\ Head(tx[w].todo).status = "firing"
        /\ IF OpenRow(w, f) = {}
           THEN /\ nextId <= MaxIncidents
                /\ nextId' = nextId + 1
                /\ holder' = [holder EXCEPT ![f] = w]
                /\ tx' = [tx EXCEPT ![w].at = "audit", ![w].mine = Wrote(w, r),
                                    ![w].heard[nextId] = @ + 1]
           ELSE tx' = [tx EXCEPT ![w].at = "merge"] /\ UNCHANGED <<nextId, holder>>
        /\ UNCHANGED <<incidents, alerts, auditLock>>
\* INSERT ... ON CONFLICT DO NOTHING, and what goes with a new incident.
Insert(w) ==
    LET f == Head(tx[w].todo).fp
        r == [id |-> nextId, fp |-> f, open |-> TRUE, count |-> 1]
    IN  /\ tx[w].at = "insert" /\ Head(tx[w].todo).status = "firing"
        /\ Free(w, f)
        /\ IF OpenRow(w, f) = {}
           THEN /\ nextId <= MaxIncidents
                /\ nextId' = nextId + 1
                /\ holder' = [holder EXCEPT ![f] = w]
                /\ tx' = [tx EXCEPT ![w].at = "audit", ![w].mine = Wrote(w, r),
                                    ![w].heard[nextId] = @ + 1]
           ELSE tx' = [tx EXCEPT ![w].at = "merge"] /\ UNCHANGED <<nextId, holder>>
        /\ UNCHANGED <<incidents, alerts, auditLock>>

\* The alert is recorded, and the incident's count goes up by it.
Recorded(w, r) ==
    [tx[w] EXCEPT !.mine = Wrote(w, [r EXCEPT !.count = @ + 1]), !.heard[r.id] = @ + 1]

\* The sum made by the program from what it had read, and not by the UPDATE.
LostUpdate_Slip(w) ==
    LET f == Head(tx[w].todo).fp
    IN  /\ tx[w].at = "merge"
        /\ \E r \in OpenRow(w, f) :
             /\ r.count < MaxAlerts
             /\ holder' = [holder EXCEPT ![f] = w]
             /\ tx' = [tx EXCEPT ![w] = Continue(Recorded(w, r))]
        /\ UNCHANGED <<incidents, alerts, nextId, auditLock>>
\* UPDATE ... WHERE closed_at IS NULL; if it closed in between, another round.
Merge(w) ==
    LET f == Head(tx[w].todo).fp
    IN  /\ tx[w].at = "merge"
        /\ Free(w, f)
        /\ \/ \E r \in OpenRow(w, f) :
                /\ r.count < MaxAlerts
                /\ holder' = [holder EXCEPT ![f] = w]
                /\ tx' = [tx EXCEPT ![w] = Continue(Recorded(w, r))]
           \/ /\ OpenRow(w, f) = {} /\ tx[w].tries < 2
              /\ tx' = [tx EXCEPT ![w].at = "insert", ![w].tries = @ + 1]
              /\ UNCHANGED holder
        /\ UNCHANGED <<incidents, alerts, nextId, auditLock>>

\* A resolved alert is recorded against whatever is open and changes nothing.
Resolved(w) ==
    /\ tx[w].at = "insert" /\ Head(tx[w].todo).status = "resolved"
    /\ tx' = [tx EXCEPT ![w] = Continue(@)]
    /\ UNCHANGED <<incidents, alerts, nextId, holder, auditLock>>

\* A worker's transaction: the incident it has read is moved on.  Whether the
\* version it read is still current is module Incident's; here it may be or not.
Begin(t, i) ==
    /\ tx[t] = NoTx
    /\ \E r \in incidents : r.id = i /\ r.open
    /\ tx' = [tx EXCEPT ![t].at = "update", ![t].id = i]
    /\ UNCHANGED <<incidents, alerts, nextId, holder, auditLock>>

\* transition; closed_at is set with the terminal states.
Update(t, closes) ==
    /\ tx[t].at = "update"
    /\ \E r \in View(t) :
         /\ r.id = tx[t].id /\ r.open
         /\ Free(t, r.fp)
         /\ holder' = [holder EXCEPT ![r.fp] = t]
         /\ tx' = [tx EXCEPT ![t].at = "audit", ![t].mine = Wrote(t, [r EXCEPT !.open = ~closes])]
    /\ UNCHANGED <<incidents, alerts, nextId, auditLock>>

\* audit.append
AuditAppend(t) ==
    /\ tx[t].at = "audit"
    /\ auditLock \in {t, Nobody}
    /\ auditLock' = t
    /\ tx' = [tx EXCEPT ![t] = IF t \in Webhooks THEN Continue(@) ELSE [@ EXCEPT !.at = "commit"]]
    /\ UNCHANGED <<incidents, alerts, nextId, holder>>

Ended(t) ==
    /\ holder' = [f \in Fingerprints |-> IF holder[f] = t THEN Nobody ELSE holder[f]]
    /\ auditLock' = IF auditLock = t THEN Nobody ELSE auditLock
    /\ tx' = [tx EXCEPT ![t] = NoTx]
    /\ UNCHANGED nextId

Commit(t) ==
    /\ tx[t].at = "commit"
    /\ incidents' = View(t)
    /\ alerts' = [i \in Ids |-> alerts[i] + tx[t].heard[i]]
    /\ Ended(t)

\* StaleVersion, three rounds without success, a lost connection, a deadlock.
Rollback(t) ==
    /\ tx[t].at # "none"
    /\ UNCHANGED <<incidents, alerts>>
    /\ Ended(t)

Batches == UNION {[1..n -> Alert] : n \in 1..MaxBatch}

Next ==
    \/ \E w \in Webhooks :
          \/ \E batch \in Batches : Receive(w, batch)
          \/ Insert(w) \/ Merge(w) \/ Resolved(w)
    \/ \E t \in Workers :
          \/ \E i \in Ids : Begin(t, i)
          \/ \E closes \in BOOLEAN : Update(t, closes)
    \/ \E t \in Transactions : AuditAppend(t) \/ Commit(t) \/ Rollback(t)

Spec == Init /\ [][Next]_vars

-----------------------------------------------------------------------------
(* Properties                                                              *)

\* However many webhooks report the same fingerprint at once, and whoever
\* closes its incident meanwhile, at most one incident of it is open.
OneOpenIncident ==
    \A r, s \in incidents : r.fp = s.fp /\ r.open /\ s.open => r = s

\* alert_count is the number of firing alerts recorded against the incident:
\* concurrent merges lose no alert and count none twice.
EveryAlertCounted == \A r \in incidents : r.count = alerts[r.id]

\* Who waits for whom, and for which kind of lock.
WaitsForRow(s, t) ==
    /\ s # t
    /\ \/ /\ tx[s].at \in {"insert", "merge"} /\ Head(tx[s].todo).status = "firing"
          /\ holder[Head(tx[s].todo).fp] = t
       \/ tx[s].at = "update" /\ \E r \in incidents : r.id = tx[s].id /\ holder[r.fp] = t
WaitsForAudit(s, t) == s # t /\ tx[s].at = "audit" /\ auditLock = t

\* Two webhooks never wait for an incident of each other: the sort sees to it.
IncidentsInOrder == \A v, w \in Webhooks : ~(WaitsForRow(v, w) /\ WaitsForRow(w, v))

\* "A fixed lock order: two concurrent webhooks with overlapping alerts cannot
\* deadlock", says the code where it sorts.
CannotDeadlock ==
    \A v, w \in Webhooks :
        ~ /\ WaitsForRow(v, w) \/ WaitsForAudit(v, w)
          /\ WaitsForRow(w, v) \/ WaitsForAudit(w, v)

=============================================================================
