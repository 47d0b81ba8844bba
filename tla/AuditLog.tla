------------------------------ MODULE AuditLog ------------------------------
(***************************************************************************)
(* The hash-chained audit log, app/db/audit.py.  append runs inside its    *)
(* caller's transaction and takes four statements, each with a snapshot of *)
(* its own (READ COMMITTED); seq comes from a sequence that a rollback     *)
(* does not give back.  A digest is modelled by what it is a digest of:    *)
(* the previous digest and the content, so different inputs never collide. *)
(***************************************************************************)
EXTENDS Integers, Sequences, FiniteSets

CONSTANTS
    Writers,     \* transactions of the API, the workers and the executor
    Contents,    \* what an event says: time, tenant, actor, event, subject, payload
    Nobody,      \* the advisory lock is free
    MaxSeq       \* bound: rows inserted, rolled back ones included

ASSUME AuditConstants == Nobody \notin Writers /\ MaxSeq \in Nat

VARIABLES
    rows,        \* committed rows of audit_log
    pending,     \* rows a transaction has inserted and not committed
    lock,        \* pg_advisory_xact_lock(_LOCK_KEY)
    nextSeq,     \* the sequence behind seq
    at,          \* the statement of append a transaction is at
    prev         \* prev_hash, as it read it

vars == <<rows, pending, lock, nextSeq, at, prev>>

GENESIS == <<>>
Digest(p, content) == Append(p, content)

Hash == Seq(Contents)
Row == [seq: Nat \ {0}, content: Contents, prev_hash: Hash, hash: Hash]

TypeOK ==
    /\ rows \subseteq Row
    /\ pending \in [Writers -> SUBSET Row]
    /\ lock \in Writers \cup {Nobody}
    /\ nextSeq \in Nat \ {0}
    /\ at \in [Writers -> {"caller", "lock", "read", "insert"}]
    /\ prev \in [Writers -> Hash]

Init ==
    /\ rows = {}
    /\ pending = [w \in Writers |-> {}]
    /\ lock = Nobody
    /\ nextSeq = 1
    /\ at = [w \in Writers |-> "caller"]
    /\ prev = [w \in Writers |-> GENESIS]

\* SELECT hash FROM audit_log ORDER BY seq DESC LIMIT 1, or GENESIS
IsLast(r, S) == r \in S /\ \A x \in S : x.seq <= r.seq
LastHash(S, h) ==
    \/ S = {} /\ h = GENESIS
    \/ \E r \in S : IsLast(r, S) /\ h = r.hash

-----------------------------------------------------------------------------

\* The caller's transaction gets to append.
Call(w) ==
    /\ at[w] = "caller" /\ nextSeq <= MaxSeq
    /\ at' = [at EXCEPT ![w] = "lock"]
    /\ UNCHANGED <<rows, pending, lock, nextSeq, prev>>

\* As if the advisory lock were not taken.
TakeLock_Slip(w) ==
    /\ at[w] = "lock"
    /\ lock' = w
    /\ at' = [at EXCEPT ![w] = "read"]
    /\ UNCHANGED <<rows, pending, nextSeq, prev>>

\* A transaction that holds the lock already gets it again at once.
TakeLock(w) ==
    /\ at[w] = "lock"
    /\ lock \in {w, Nobody}
    /\ lock' = w
    /\ at' = [at EXCEPT ![w] = "read"]
    /\ UNCHANGED <<rows, pending, nextSeq, prev>>

\* The snapshot holds what is committed, and the transaction's own rows.
ReadLast(w) ==
    /\ at[w] = "read"
    /\ \E h \in {GENESIS} \cup {r.hash : r \in rows \cup pending[w]} :
         LastHash(rows \cup pending[w], h) /\ prev' = [prev EXCEPT ![w] = h]
    /\ at' = [at EXCEPT ![w] = "insert"]
    /\ UNCHANGED <<rows, pending, lock, nextSeq>>

\* As if append released its lock itself.
Insert_Slip(w, content) ==
    /\ at[w] = "insert" /\ nextSeq <= MaxSeq
    /\ pending' = [pending EXCEPT ![w] = @ \cup
                     {[seq |-> nextSeq, content |-> content, prev_hash |-> prev[w],
                       hash |-> Digest(prev[w], content)]}]
    /\ nextSeq' = nextSeq + 1
    /\ at' = [at EXCEPT ![w] = "caller"]
    /\ lock' = Nobody
    /\ UNCHANGED <<rows, prev>>
\* INSERT, in the caller's transaction; the lock stays.
Insert(w, content) ==
    /\ at[w] = "insert" /\ nextSeq <= MaxSeq
    /\ pending' = [pending EXCEPT ![w] = @ \cup
                     {[seq |-> nextSeq, content |-> content, prev_hash |-> prev[w],
                       hash |-> Digest(prev[w], content)]}]
    /\ nextSeq' = nextSeq + 1
    /\ at' = [at EXCEPT ![w] = "caller"]
    /\ UNCHANGED <<rows, lock, prev>>

\* The locks of a transaction go only once its rows can be seen.
Unlocked(w) == IF lock = w THEN Nobody ELSE lock

Commit(w) ==
    /\ at[w] = "caller"
    /\ rows' = rows \cup pending[w]
    /\ pending' = [pending EXCEPT ![w] = {}]
    /\ lock' = Unlocked(w)
    /\ UNCHANGED <<nextSeq, at, prev>>

\* An error, a crash, or a deadlock the database resolved: at any statement.
Rollback(w) ==
    /\ pending' = [pending EXCEPT ![w] = {}]
    /\ lock' = Unlocked(w)
    /\ at' = [at EXCEPT ![w] = "caller"]
    /\ UNCHANGED <<rows, nextSeq, prev>>

Next ==
    \E w \in Writers :
        \/ Call(w) \/ TakeLock(w) \/ ReadLast(w)
        \/ \E content \in Contents : Insert(w, content)
        \/ Commit(w) \/ Rollback(w)

Spec == Init /\ [][Next]_vars

-----------------------------------------------------------------------------
(* verify                                                                  *)

\* One row against the one before it: its link first, then its content.
Before(r, S) == {x \in S : x.seq < r.seq}
\* The link to the row before is not looked at.
Bad_Slip(r, S) == r.hash # Digest(r.prev_hash, r.content)
Bad(r, S) ==
    \/ ~LastHash(Before(r, S), r.prev_hash)
    \/ r.hash # Digest(r.prev_hash, r.content)

\* verify stops at the first bad row in seq order; 0 stands for ok.
FirstBad(S) ==
    LET bad == {r \in S : Bad(r, S)} IN
    IF bad = {} THEN 0 ELSE (CHOOSE r \in bad : \A x \in bad : r.seq <= x.seq).seq

-----------------------------------------------------------------------------
(* Properties                                                              *)

\* However appends of concurrent transactions interleave and roll back, the
\* committed log is one chain and verify accepts it.
ChainIntact == FirstBad(rows) = 0

\* Rows become visible in seq order: a reader that polls for "seq > cursor"
\* (the console's stream) never finds a row behind its cursor later.
NoLateRows == [][\A r \in rows' \ rows, x \in rows : x.seq < r.seq]_vars

\* The log as it is after somebody with owner rights changed what row r says,
\* deleted it, or swapped it with another.
Changed(r, content) == (rows \ {r}) \cup {[r EXCEPT !.content = content]}
Swapped(r, x) == (rows \ {r, x}) \cup {[r EXCEPT !.seq = x.seq], [x EXCEPT !.seq = r.seq]}

\* A changed row is reported itself; for a deleted row, the one after it is;
\* for two swapped ones, the earlier place is.  Only the newest row can be
\* deleted unnoticed: nothing outside the log remembers where it ends.
TamperingReported ==
    \A r \in rows :
        /\ \A content \in Contents \ {r.content} : FirstBad(Changed(r, content)) = r.seq
        /\ \A x \in rows : r.seq < x.seq =>
              /\ FirstBad(Swapped(r, x)) = r.seq
              /\ (\A y \in rows : ~(r.seq < y.seq /\ y.seq < x.seq)) =>
                    FirstBad(rows \ {r}) = x.seq

=============================================================================
