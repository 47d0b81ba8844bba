---------------------------- MODULE IngestProofs ----------------------------
(***************************************************************************)
(* Proofs about Ingest, for any number of webhooks, workers, fingerprints, *)
(* alerts and incidents.                                                   *)
(***************************************************************************)
EXTENDS Ingest, SequenceTheorems, TLAPS

-----------------------------------------------------------------------------
(* The inductive invariant                                                 *)

TypeOK ==
    /\ incidents \subseteq Incident
    /\ alerts \in [Ids -> Nat]
    /\ nextId \in 1..(MaxIncidents + 1)
    /\ holder \in [Fingerprints -> Transactions \cup {Nobody}]
    /\ tx \in [Transactions -> Tx]

\* A transaction holds the fingerprint of whatever it has written: the row lock,
\* or the entry in the unique index, lasts to its end.
OwnRows == \A t \in Transactions : \A r \in tx[t].mine : holder[r.fp] = t

\* An incident keeps its fingerprint in all of its versions, of which one is
\* committed at most and one at most is a transaction's own.
Versions(t) == incidents \cup tx[t].mine
SameIncident ==
    /\ \A r, s \in incidents : r.id = s.id => r = s
    /\ \A t \in Transactions : \A r, s \in tx[t].mine : r.id = s.id => r = s
    /\ \A t, u \in Transactions : \A r \in Versions(t), s \in Versions(u) : r.id = s.id => r.fp = s.fp

\* Ids are given out once, rolled back inserts included.
FreshIds ==
    /\ \A t \in Transactions : \A r \in Versions(t) : r.id < nextId
    /\ \A i \in Ids : i >= nextId => alerts[i] = 0

\* What a transaction recorded is against incidents it has written, and their
\* counts have it.
Counted ==
    /\ EveryAlertCounted
    /\ \A t \in Transactions : \A i \in Ids : (\A r \in tx[t].mine : r.id # i) => tx[t].heard[i] = 0
    /\ \A t \in Transactions : \A r \in tx[t].mine : r.count = alerts[r.id] + tx[t].heard[r.id]

\* An incident that a transaction has open is the only open one of its fingerprint
\* that it sees.
OneOpen ==
    /\ OneOpenIncident
    /\ \A t \in Transactions : \A r \in tx[t].mine, s \in View(t) :
          r.fp = s.fp /\ r.open /\ s.open => r = s

RowsInv == TypeOK /\ OwnRows /\ SameIncident /\ FreshIds /\ Counted /\ OneOpen

\* A webhook goes through its alerts in the order of the sort, and is past every
\* fingerprint it holds, or at it.
OrderOf(w) ==
    /\ tx[w].at # "update"
    /\ tx[w].at \in {"insert", "merge", "audit"} => tx[w].todo # <<>>
    /\ \A i, j \in 1..Len(tx[w].todo) : i < j => tx[w].todo[i].fp <= tx[w].todo[j].fp
    /\ \A f \in Fingerprints : holder[f] = w =>
          tx[w].at # "none" /\ \A i \in 1..Len(tx[w].todo) : f <= tx[w].todo[i].fp

OrderInv == \A w \in Webhooks : OrderOf(w)

-----------------------------------------------------------------------------
(* Types                                                                   *)

LEMMA SeqFacts ==
    ASSUME NEW S, NEW s \in Seq(S), s # <<>>
    PROVE  /\ Len(s) \in Nat \ {0} /\ 1 \in 1..Len(s)
           /\ Head(s) \in S /\ Head(s) = s[1]
           /\ Tail(s) \in Seq(S) /\ Len(Tail(s)) = Len(s) - 1
           /\ Len(s) # 1 => Tail(s) # <<>>
           /\ \A i \in 1..Len(Tail(s)) : Tail(s)[i] = s[i + 1] /\ i + 1 \in 1..Len(s)
<1>1. Len(s) \in Nat \ {0}
  BY EmptySeq
<1>2. Tail(s) \in Seq(S) /\ Len(Tail(s)) = Len(s) - 1 /\ Head(s) \in S
      /\ \A i \in 1..Len(Tail(s)) : Tail(s)[i] = s[i + 1]
  BY HeadTailProperties
<1>3. Len(s) # 1 => Tail(s) # <<>>
  <2>1. Tail(s) = <<>> => Len(Tail(s)) = 0
    BY EmptySeq
  <2> QED BY <1>1, <1>2, <2>1
<1>4. Head(s) = s[1]
  OBVIOUS
<1> QED BY <1>1, <1>2, <1>3, <1>4

LEMMA TxFields ==
    ASSUME NEW s \in Tx
    PROVE  /\ s.at \in {"none", "insert", "merge", "audit", "update", "commit"}
           /\ s.todo \in Seq(Alert) /\ s.mine \subseteq Incident /\ s.heard \in [Ids -> Nat]
           /\ s.tries \in 0..2 /\ s.id \in Ids \cup {0}
  BY DEF Tx

LEMMA NoTxType == NoTx \in Tx
  BY DEF NoTx, Tx

LEMMA TxUpdates ==
    ASSUME NEW s \in Tx
    PROVE  /\ \A x \in Seq(Alert) : [s EXCEPT !.todo = x] \in Tx
           /\ \A x \in 0..2 : [s EXCEPT !.tries = x] \in Tx
           /\ \A x \in Ids \cup {0} : [s EXCEPT !.id = x] \in Tx
           /\ \A x \in {"none", "insert", "merge", "audit", "update", "commit"} : [s EXCEPT !.at = x] \in Tx
           /\ \A x \in SUBSET Incident : [s EXCEPT !.mine = x] \in Tx
           /\ \A x \in [Ids -> Nat] : [s EXCEPT !.heard = x] \in Tx
  BY DEF Tx

LEMMA ContinueType ==
    ASSUME NEW s \in Tx, s.todo # <<>>
    PROVE  /\ Continue(s) \in Tx
           /\ Continue(s).todo = Tail(s.todo)
           /\ Continue(s).mine = s.mine /\ Continue(s).heard = s.heard
           /\ Continue(s).at \in {"commit", "insert"}
           /\ Continue(s).at = "insert" => Continue(s).todo # <<>>
<1>1. s.todo \in Seq(Alert) BY DEF Tx
<1>2. Tail(s.todo) \in Seq(Alert) /\ Len(s.todo) \in Nat /\ (Len(s.todo) # 1 => Tail(s.todo) # <<>>)
  BY <1>1, SeqFacts
<1> DEFINE at == IF Len(s.todo) = 1 THEN "commit" ELSE "insert"
<1>4. Continue(s) = [s EXCEPT !.todo = Tail(s.todo), !.tries = 0, !.at = at]
  BY DEF Continue
<1>5. at \in {"commit", "insert"} /\ (at = "insert" => Len(s.todo) # 1)
  OBVIOUS
<1> HIDE DEF at
<1>6. Continue(s) \in Tx
  <2> DEFINE s1 == [s EXCEPT !.todo = Tail(s.todo)]  s2 == [s1 EXCEPT !.tries = 0]
  <2>1. s1 \in Tx
    BY <1>2, TxUpdates
  <2> HIDE DEF s1
  <2>0. 0 \in 0..2
    OBVIOUS
  <2>2. s2 \in Tx
    BY <2>0, <2>1, TxUpdates
  <2> HIDE DEF s2
  <2>3. at \in {"none", "insert", "merge", "audit", "update", "commit"}
    BY <1>5
  <2>4. [s2 EXCEPT !.at = at] \in Tx
    BY <2>2, <2>3, TxUpdates
  <2> QED BY <1>4, <2>4 DEF s1, s2
<1>7. /\ Continue(s).todo = Tail(s.todo) /\ Continue(s).mine = s.mine
      /\ Continue(s).heard = s.heard /\ Continue(s).at = at
  BY <1>4 DEF Tx
<1> QED BY <1>2, <1>5, <1>6, <1>7

LEMMA ViewType ==
    ASSUME TypeOK, NEW t \in Transactions
    PROVE  View(t) \subseteq Incident /\ tx[t].mine \subseteq Incident
  BY DEF TypeOK, View, Tx

LEMMA WroteType ==
    ASSUME TypeOK, NEW t \in Transactions, NEW r \in Incident
    PROVE  Wrote(t, r) \subseteq Incident
  BY ViewType DEF Wrote

LEMMA HeadType ==
    ASSUME TypeOK, NEW w \in Transactions, tx[w].todo # <<>>
    PROVE  Head(tx[w].todo) \in Alert /\ Head(tx[w].todo).fp \in Fingerprints
           /\ Head(tx[w].todo) = tx[w].todo[1] /\ 1 \in 1..Len(tx[w].todo)
<1>1. tx[w].todo \in Seq(Alert) BY DEF TypeOK, Tx
<1>2. Head(tx[w].todo) \in Alert /\ Head(tx[w].todo) = tx[w].todo[1] /\ 1 \in 1..Len(tx[w].todo)
  BY <1>1, SeqFacts
<1> QED BY <1>2 DEF Alert

\* A statement changes the transaction it is of, to one of the type.
LEMMA TxType ==
    ASSUME TypeOK, NEW t \in Transactions, NEW s \in Tx, tx' = [tx EXCEPT ![t] = s],
           incidents' \subseteq Incident, alerts' \in [Ids -> Nat],
           nextId' \in 1..(MaxIncidents + 1),
           holder' \in [Fingerprints -> Transactions \cup {Nobody}]
    PROVE  /\ TypeOK'
           /\ tx'[t] = s /\ \A u \in Transactions : u # t => tx'[u] = tx[u]
  BY DEF TypeOK

-----------------------------------------------------------------------------
(* The rows: three kinds of step                                           *)

\* What t sees of an incident is as the invariant says: its count is what was
\* committed and what t recorded.
LEMMA CountSeen ==
    ASSUME RowsInv, NEW t \in Transactions, NEW s \in View(t)
    PROVE  s.count = alerts[s.id] + tx[t].heard[s.id]
<1>1. CASE s \in tx[t].mine
  BY <1>1 DEF RowsInv, Counted
<1>2. CASE s \in incidents /\ \A x \in tx[t].mine : x.id # s.id
  <2>1. s.id \in Ids /\ alerts[s.id] \in Nat
    BY <1>2 DEF RowsInv, TypeOK, Incident
  <2>2. tx[t].heard[s.id] = 0
    BY <1>2, <2>1 DEF RowsInv, Counted
  <2>3. s.count = alerts[s.id]
    BY <1>2 DEF RowsInv, Counted, EveryAlertCounted
  <2> QED BY <2>1, <2>2, <2>3
<1> QED BY <1>1, <1>2 DEF View

\* And it is the only open one of its fingerprint.
LEMMA OpenSeen ==
    ASSUME RowsInv, NEW t \in Transactions, NEW r \in View(t), NEW s \in View(t),
           r.fp = s.fp, r.open, s.open
    PROVE  r = s
<1>1. CASE r \in tx[t].mine
  BY <1>1 DEF RowsInv, OneOpen
<1>2. CASE s \in tx[t].mine
  BY <1>2 DEF RowsInv, OneOpen
<1>3. CASE r \in incidents /\ s \in incidents
  BY <1>3 DEF RowsInv, OneOpen, OneOpenIncident
<1> QED BY <1>1, <1>2, <1>3 DEF View

\* Two versions of an incident that a transaction sees are one.
LEMMA IdSeen ==
    ASSUME RowsInv, NEW t \in Transactions, NEW r \in View(t), NEW s \in View(t), r.id = s.id
    PROVE  r = s
  BY DEF RowsInv, SameIncident, View

\* A version in one transaction's hands is in no other's.
LEMMA NotMineToo ==
    ASSUME RowsInv, NEW t \in Transactions, NEW u \in Transactions, t # u,
           NEW r \in tx[t].mine, NEW s \in tx[u].mine
    PROVE  r.fp # s.fp /\ r.id # s.id
<1>1. holder[r.fp] = t /\ holder[s.fp] = u
  BY DEF RowsInv, OwnRows
<1>2. r.id = s.id => r.fp = s.fp
  BY DEF RowsInv, SameIncident, Versions
<1> QED BY <1>1, <1>2

\* A step that writes nothing.
LEMMA QuietStep ==
    ASSUME RowsInv, TypeOK', UNCHANGED <<incidents, alerts, nextId, holder>>,
           \A t \in Transactions : tx'[t].mine = tx[t].mine /\ tx'[t].heard = tx[t].heard
    PROVE  RowsInv'
<1> USE DEF RowsInv
<1>1. OwnRows'
  BY DEF OwnRows
<1>2. SameIncident'
  BY DEF SameIncident, Versions
<1>3. FreshIds'
  BY DEF FreshIds, Versions
<1>4. Counted'
  BY DEF Counted, EveryAlertCounted
<1>5. OneOpen'
  BY DEF OneOpen, OneOpenIncident, View
<1> QED BY <1>1, <1>2, <1>3, <1>4, <1>5

\* A step that writes a version of an incident: what the statement must have seen.
LEMMA WriteStep ==
    ASSUME RowsInv, TypeOK', NEW t \in Transactions, NEW r \in Incident, NEW n \in Nat,
           Free(t, r.fp),
           UNCHANGED <<incidents, alerts>>, nextId <= nextId', r.id < nextId',
           holder' = [holder EXCEPT ![r.fp] = t],
           tx'[t].mine = Wrote(t, r),
           tx'[t].heard = [tx[t].heard EXCEPT ![r.id] = n],
           \A u \in Transactions : u # t => tx'[u] = tx[u],
           r.count = alerts[r.id] + n,
           \A u \in Transactions : \A s \in Versions(u) : s.id = r.id => s.fp = r.fp,
           r.open => \A s \in View(t) : s.fp = r.fp /\ s.open => s.id = r.id
    PROVE  RowsInv'
<1> USE DEF RowsInv
<1>1. /\ holder \in [Fingerprints -> Transactions \cup {Nobody}]
      /\ alerts \in [Ids -> Nat] /\ incidents \subseteq Incident
      /\ nextId \in Nat /\ nextId' \in Nat /\ r.id \in Ids /\ r.id \in Nat /\ r.fp \in Fingerprints
      /\ \A u \in Transactions : tx[u].mine \subseteq Incident /\ tx[u].heard \in [Ids -> Nat]
  BY DEF TypeOK, Tx, Incident, Ids
<1>2. /\ \A x \in tx'[t].mine : x = r \/ (x \in tx[t].mine /\ x.id # r.id)
      /\ \A x \in tx[t].mine : x.id # r.id => x \in tx'[t].mine
      /\ r \in tx'[t].mine
  BY DEF Wrote
<1>3. OwnRows'
  <2> SUFFICES ASSUME NEW u \in Transactions, NEW x \in tx'[u].mine PROVE holder'[x.fp] = u
    BY DEF OwnRows
  <2>1. CASE u = t
    <3>1. CASE x = r
      BY <1>1, <2>1, <3>1
    <3>2. CASE x \in tx[t].mine
      <4>1. holder[x.fp] = t /\ x.fp \in Fingerprints
        BY <1>1, <3>2 DEF OwnRows, Incident
      <4> QED BY <1>1, <2>1, <4>1
    <3> QED BY <1>2, <2>1, <3>1, <3>2
  <2>2. CASE u # t
    <3>1. x \in tx[u].mine /\ x.fp \in Fingerprints
      BY <1>1, <2>2 DEF Incident
    <3>2. holder[x.fp] = u /\ u # Nobody
      BY <3>1, IngestConstants DEF OwnRows, Transactions
    <3>3. x.fp # r.fp
      BY <2>2, <3>2 DEF Free
    <3> QED BY <1>1, <3>1, <3>2, <3>3
  <2> QED BY <2>1, <2>2
<1>4. SameIncident'
  <2>1. \A x, y \in incidents' : x.id = y.id => x = y
    BY DEF SameIncident
  <2>2. ASSUME NEW u \in Transactions, NEW x \in tx'[u].mine, NEW y \in tx'[u].mine, x.id = y.id
        PROVE  x = y
    <3>1. CASE u = t
      BY <1>2, <2>2, <3>1 DEF SameIncident
    <3>2. CASE u # t
      BY <2>2, <3>2 DEF SameIncident
    <3> QED BY <3>1, <3>2
  <2>3. ASSUME NEW u \in Transactions, NEW v \in Transactions, NEW x \in Versions(u)',
               NEW y \in Versions(v)', x.id = y.id
        PROVE  x.fp = y.fp
    <3>1. x = r \/ x \in Versions(u)
      BY <1>2 DEF Versions
    <3>2. y = r \/ y \in Versions(v)
      BY <1>2 DEF Versions
    <3>3. CASE x \in Versions(u) /\ y \in Versions(v)
      BY <2>3, <3>3 DEF SameIncident
    <3> QED BY <2>3, <3>1, <3>2, <3>3
  <2> QED BY <2>1, <2>2, <2>3 DEF SameIncident
<1>5. FreshIds'
  <2>1. ASSUME NEW u \in Transactions, NEW x \in Versions(u)' PROVE x.id < nextId'
    <3>1. x = r \/ x \in Versions(u)
      BY <1>2 DEF Versions
    <3>2. CASE x \in Versions(u)
      <4>1. x.id < nextId /\ x.id \in Nat
        BY <1>1, <3>2 DEF FreshIds, Versions, Incident, Ids
      <4> QED BY <1>1, <4>1
    <3> QED BY <3>1, <3>2
  <2>2. ASSUME NEW i \in Ids, i >= nextId' PROVE alerts'[i] = 0
    <3>1. i >= nextId
      BY <1>1, <2>2 DEF Ids
    <3> QED BY <3>1 DEF FreshIds
  <2> QED BY <2>1, <2>2 DEF FreshIds
<1>6. Counted'
  <2>1. EveryAlertCounted'
    BY DEF Counted, EveryAlertCounted
  <2>2. ASSUME NEW u \in Transactions, NEW i \in Ids, \A x \in tx'[u].mine : x.id # i
        PROVE  tx'[u].heard[i] = 0
    <3>1. CASE u = t
      <4>1. i # r.id
        BY <1>2, <2>2, <3>1
      <4>2. \A x \in tx[t].mine : x.id # i
        BY <1>2, <2>2, <3>1, <4>1
      <4>3. tx[t].heard[i] = 0
        BY <4>2 DEF Counted
      <4> QED BY <1>1, <3>1, <4>1, <4>3
    <3>2. CASE u # t
      BY <2>2, <3>2 DEF Counted
    <3> QED BY <3>1, <3>2
  <2>3. ASSUME NEW u \in Transactions, NEW x \in tx'[u].mine
        PROVE  x.count = alerts'[x.id] + tx'[u].heard[x.id]
    <3>1. CASE u = t /\ x = r
      BY <1>1, <3>1
    <3>2. CASE u = t /\ x # r
      <4>1. x \in tx[t].mine /\ x.id # r.id /\ x.id \in Ids
        BY <1>1, <1>2, <3>2 DEF Incident
      <4>2. x.count = alerts[x.id] + tx[t].heard[x.id]
        BY <4>1 DEF Counted
      <4> QED BY <1>1, <3>2, <4>1, <4>2
    <3>3. CASE u # t
      BY <3>3 DEF Counted
    <3> QED BY <3>1, <3>2, <3>3
  <2> QED BY <2>1, <2>2, <2>3 DEF Counted
<1>7. OneOpen'
  <2>1. OneOpenIncident'
    BY DEF OneOpen, OneOpenIncident
  <2>2. ASSUME NEW u \in Transactions, NEW x \in tx'[u].mine, NEW y \in View(u)',
               x.fp = y.fp, x.open, y.open
        PROVE  x = y
    <3>1. CASE u # t
      BY <2>2, <3>1 DEF OneOpen, View
    <3>2. CASE u = t
      <4>1. ASSUME NEW z \in View(t)' PROVE z = r \/ (z \in View(t) /\ z.id # r.id)
        BY <1>2, <4>1 DEF View
      <4>2. x = r \/ (x \in View(t) /\ x.id # r.id)
        BY <1>2, <3>2 DEF View
      <4>3. y = r \/ (y \in View(t) /\ y.id # r.id)
        BY <3>2, <4>1
      <4> QED BY <2>2, <4>2, <4>3, OpenSeen
    <3> QED BY <3>1, <3>2
  <2> QED BY <2>1, <2>2 DEF OneOpen
<1> QED BY <1>3, <1>4, <1>5, <1>6, <1>7

\* A transaction that ends gives its rows up, and leaves the others as they are.
LEMMA CommitStep ==
    ASSUME RowsInv, NEW t \in Transactions, Commit(t)
    PROVE  RowsInv'
<1> USE DEF RowsInv
<1>1. /\ holder \in [Fingerprints -> Transactions \cup {Nobody}]
      /\ alerts \in [Ids -> Nat] /\ incidents \subseteq Incident
      /\ \A u \in Transactions : tx[u].mine \subseteq Incident /\ tx[u].heard \in [Ids -> Nat]
      /\ View(t) \subseteq Incident
  BY ViewType DEF TypeOK, Tx
<1>2. /\ incidents' = View(t) /\ nextId' = nextId
      /\ alerts' = [i \in Ids |-> alerts[i] + tx[t].heard[i]]
      /\ holder' = [f \in Fingerprints |-> IF holder[f] = t THEN Nobody ELSE holder[f]]
      /\ tx' = [tx EXCEPT ![t] = NoTx]
  BY DEF Commit, Ended
<1>3. /\ tx'[t].mine = {} /\ tx'[t].heard = [i \in Ids |-> 0]
      /\ \A u \in Transactions : u # t => tx'[u] = tx[u]
  BY <1>2 DEF TypeOK, NoTx
<1>4. TypeOK'
  <2>1. \A i \in Ids : alerts[i] + tx[t].heard[i] \in Nat
    BY <1>1
  <2>2. incidents' \subseteq Incident /\ alerts' \in [Ids -> Nat] /\ nextId' \in 1..(MaxIncidents + 1)
        /\ holder' \in [Fingerprints -> Transactions \cup {Nobody}]
    BY <1>1, <1>2, <2>1 DEF TypeOK
  <2> QED BY <1>2, <2>2, NoTxType, TxType
\* the others have written versions of other incidents, of other fingerprints
<1>5. ASSUME NEW u \in Transactions, u # t, NEW x \in tx[u].mine
      PROVE  /\ alerts'[x.id] = alerts[x.id] /\ x.id \in Ids
             /\ \A y \in tx[t].mine : y.fp # x.fp /\ y.id # x.id
  <2>1. \A y \in tx[t].mine : y.fp # x.fp /\ y.id # x.id
    BY <1>5, NotMineToo
  <2>2. x.id \in Ids
    BY <1>1 DEF Incident
  <2>3. tx[t].heard[x.id] = 0
    BY <2>1, <2>2 DEF Counted
  <2> QED BY <1>1, <1>2, <2>1, <2>2, <2>3
<1>6. OwnRows'
  <2> SUFFICES ASSUME NEW u \in Transactions, NEW x \in tx'[u].mine PROVE holder'[x.fp] = u
    BY DEF OwnRows
  <2>1. u # t /\ x \in tx[u].mine /\ x.fp \in Fingerprints
    BY <1>1, <1>3 DEF Incident
  <2> QED BY <1>2, <2>1 DEF OwnRows
<1>7. SameIncident'
  <2>1. ASSUME NEW x \in incidents', NEW y \in incidents', x.id = y.id PROVE x = y
    BY <1>2, <2>1, IdSeen
  <2>2. ASSUME NEW u \in Transactions, NEW x \in tx'[u].mine, NEW y \in tx'[u].mine, x.id = y.id
        PROVE  x = y
    BY <1>3, <2>2 DEF SameIncident
  <2>3. ASSUME NEW u \in Transactions, NEW x \in Versions(u)'
        PROVE  \E v \in Transactions : x \in Versions(v)
    BY <1>2, <1>3 DEF Versions, View
  <2>4. ASSUME NEW u \in Transactions, NEW v \in Transactions, NEW x \in Versions(u)',
               NEW y \in Versions(v)', x.id = y.id
        PROVE  x.fp = y.fp
    BY <2>3, <2>4 DEF SameIncident
  <2> QED BY <2>1, <2>2, <2>4 DEF SameIncident
<1>8. FreshIds'
  <2>1. ASSUME NEW u \in Transactions, NEW x \in Versions(u)' PROVE x.id < nextId'
    BY <1>2, <1>3 DEF FreshIds, Versions, View
  <2>2. ASSUME NEW i \in Ids, i >= nextId' PROVE alerts'[i] = 0
    <3>1. \A x \in tx[t].mine : x.id # i
      <4> SUFFICES ASSUME NEW x \in tx[t].mine, x.id = i PROVE FALSE
        OBVIOUS
      <4>1. x.id < nextId
        BY DEF FreshIds, Versions
      <4> QED BY <1>2, <2>2, <4>1 DEF TypeOK, Ids
    <3>2. tx[t].heard[i] = 0 /\ alerts[i] = 0
      BY <1>2, <2>2, <3>1 DEF Counted, FreshIds
    <3> QED BY <1>2, <3>2
  <2> QED BY <2>1, <2>2 DEF FreshIds
<1>9. Counted'
  <2>1. EveryAlertCounted'
    <3> SUFFICES ASSUME NEW x \in View(t) PROVE x.count = alerts'[x.id]
      BY <1>2 DEF EveryAlertCounted
    <3>1. x.id \in Ids
      BY <1>1 DEF Incident
    <3> QED BY <1>2, <3>1, CountSeen
  <2>2. ASSUME NEW u \in Transactions, NEW i \in Ids, \A x \in tx'[u].mine : x.id # i
        PROVE  tx'[u].heard[i] = 0
    BY <1>3, <2>2 DEF Counted
  <2>3. ASSUME NEW u \in Transactions, NEW x \in tx'[u].mine
        PROVE  x.count = alerts'[x.id] + tx'[u].heard[x.id]
    <3>1. u # t /\ x \in tx[u].mine /\ tx'[u] = tx[u]
      BY <1>3, <2>3
    <3> QED BY <1>5, <3>1 DEF Counted
  <2> QED BY <2>1, <2>2, <2>3 DEF Counted
<1>10. OneOpen'
  <2>1. OneOpenIncident'
    BY <1>2, OpenSeen DEF OneOpenIncident
  <2>2. ASSUME NEW u \in Transactions, NEW x \in tx'[u].mine, NEW y \in View(u)',
               x.fp = y.fp, x.open, y.open
        PROVE  x = y
    <3>1. u # t /\ x \in tx[u].mine /\ tx'[u] = tx[u]
      BY <1>3, <2>2
    <3>2. y \in View(u)
      <4>1. CASE y \in tx[u].mine
        BY <4>1 DEF View
      <4>2. CASE y \in View(t) /\ \A z \in tx[u].mine : z.id # y.id
        <5>1. y \notin tx[t].mine
          BY <1>5, <2>2, <3>1
        <5> QED BY <4>2, <5>1 DEF View
      <4> QED BY <1>2, <2>2, <3>1, <4>1, <4>2 DEF View
    <3> QED BY <2>2, <3>1, <3>2 DEF OneOpen
  <2> QED BY <2>1, <2>2 DEF OneOpen
<1> QED BY <1>4, <1>6, <1>7, <1>8, <1>9, <1>10

LEMMA RollbackStep ==
    ASSUME RowsInv, NEW t \in Transactions, Rollback(t)
    PROVE  RowsInv'
<1> USE DEF RowsInv
<1>1. /\ holder \in [Fingerprints -> Transactions \cup {Nobody}]
      /\ \A u \in Transactions : tx[u].mine \subseteq Incident
  BY DEF TypeOK, Tx
<1>2. /\ UNCHANGED <<incidents, alerts, nextId>>
      /\ holder' = [f \in Fingerprints |-> IF holder[f] = t THEN Nobody ELSE holder[f]]
      /\ tx' = [tx EXCEPT ![t] = NoTx]
  BY DEF Rollback, Ended
<1>3. /\ tx'[t].mine = {} /\ tx'[t].heard = [i \in Ids |-> 0]
      /\ \A u \in Transactions : u # t => tx'[u] = tx[u]
  BY <1>2 DEF TypeOK, NoTx
<1>4. TypeOK'
  <2>1. holder' \in [Fingerprints -> Transactions \cup {Nobody}]
    BY <1>1, <1>2
  <2> QED BY <1>2, <2>1, NoTxType, TxType DEF TypeOK
<1>5. OwnRows'
  <2> SUFFICES ASSUME NEW u \in Transactions, NEW x \in tx'[u].mine PROVE holder'[x.fp] = u
    BY DEF OwnRows
  <2>1. u # t /\ x \in tx[u].mine /\ x.fp \in Fingerprints
    BY <1>1, <1>3 DEF Incident
  <2> QED BY <1>2, <2>1 DEF OwnRows
<1>6. SameIncident'
  BY <1>2, <1>3 DEF SameIncident, Versions
<1>7. FreshIds'
  BY <1>2, <1>3 DEF FreshIds, Versions
<1>8. Counted'
  <2>1. EveryAlertCounted'
    BY <1>2 DEF Counted, EveryAlertCounted
  <2> QED BY <1>2, <1>3, <2>1 DEF Counted
<1>9. OneOpen'
  <2>1. OneOpenIncident'
    BY <1>2 DEF OneOpen, OneOpenIncident
  <2> QED BY <1>2, <1>3, <2>1 DEF OneOpen, View
<1> QED BY <1>4, <1>5, <1>6, <1>7, <1>8, <1>9

-----------------------------------------------------------------------------
(* The rows: one lemma per statement                                       *)

\* What a webhook is about to handle.
LEMMA AtHead ==
    ASSUME RowsInv, OrderInv, NEW w \in Webhooks, tx[w].at \in {"insert", "merge", "audit"}
    PROVE  /\ w \in Transactions /\ tx[w] \in Tx /\ tx[w].todo # <<>>
           /\ Head(tx[w].todo).fp \in Fingerprints
           /\ Head(tx[w].todo).fp = tx[w].todo[1].fp /\ 1 \in 1..Len(tx[w].todo)
<1>1. w \in Transactions /\ tx[w].todo # <<>>
  BY DEF OrderInv, OrderOf, Transactions
<1>2. tx[w] \in Tx
  BY <1>1 DEF RowsInv, TypeOK
<1> QED BY <1>1, <1>2, HeadType DEF RowsInv

LEMMA ReceiveRows ==
    ASSUME RowsInv, NEW w \in Webhooks, NEW batch \in Batches, Receive(w, batch)
    PROVE  RowsInv' /\ batch \in Seq(Alert) /\ batch # <<>> /\ tx'[w].todo = batch
<1>1. w \in Transactions
  BY DEF Transactions
<1>2. PICK n \in 1..MaxBatch : batch \in [1..n -> Alert]
  BY DEF Batches
<1>3. batch \in Seq(Alert) /\ Len(batch) = n
  BY <1>2, IngestConstants
<1>4. batch # <<>>
  <2>1. batch = <<>> => Len(batch) = 0
    BY EmptySeq
  <2> QED BY <1>3, <2>1
<1> DEFINE s1 == [NoTx EXCEPT !.at = "insert"]  s2 == [s1 EXCEPT !.todo = batch]
<1>5. tx' = [tx EXCEPT ![w] = s2]
  BY <1>1 DEF Receive, RowsInv, TypeOK
<1>6. s2 \in Tx /\ s2.mine = tx[w].mine /\ s2.heard = tx[w].heard /\ s2.todo = batch
  <2>1. s1 \in Tx
    BY NoTxType, TxUpdates
  <2>2. s2 \in Tx
    BY <1>3, <2>1, TxUpdates
  <2>3. s2.mine = NoTx.mine /\ s2.heard = NoTx.heard /\ s2.todo = batch /\ tx[w] = NoTx
    BY DEF NoTx, Receive
  <2> QED BY <2>2, <2>3
<1> HIDE DEF s1, s2
<1>7. TypeOK' /\ tx'[w] = s2 /\ \A u \in Transactions : u # w => tx'[u] = tx[u]
  BY <1>1, <1>5, <1>6, TxType DEF Receive, RowsInv, TypeOK
<1>8. RowsInv'
  BY <1>6, <1>7, QuietStep DEF Receive
<1> QED BY <1>3, <1>4, <1>6, <1>7, <1>8

LEMMA ResolvedRows ==
    ASSUME RowsInv, OrderInv, NEW w \in Webhooks, Resolved(w)
    PROVE  RowsInv'
<1>1. w \in Transactions /\ tx[w] \in Tx /\ tx[w].todo # <<>>
  BY AtHead DEF Resolved
<1>2. tx' = [tx EXCEPT ![w] = Continue(tx[w])]
  BY DEF Resolved
<1>3. TypeOK' /\ tx'[w] = Continue(tx[w]) /\ \A u \in Transactions : u # w => tx'[u] = tx[u]
  BY <1>1, <1>2, ContinueType, TxType DEF Resolved, RowsInv, TypeOK
<1>4. tx'[w].mine = tx[w].mine /\ tx'[w].heard = tx[w].heard
  BY <1>1, <1>3, ContinueType
<1> QED BY <1>3, <1>4, QuietStep DEF Resolved

LEMMA AuditRows ==
    ASSUME RowsInv, OrderInv, NEW t \in Transactions, AuditAppend(t)
    PROVE  RowsInv'
<1> DEFINE s == IF t \in Webhooks THEN Continue(tx[t]) ELSE [tx[t] EXCEPT !.at = "commit"]
<1>1. tx' = [tx EXCEPT ![t] = s] /\ tx[t] \in Tx
  BY DEF AuditAppend, RowsInv, TypeOK
<1>2. s \in Tx /\ s.mine = tx[t].mine /\ s.heard = tx[t].heard
  <2>1. CASE t \in Webhooks
    <3>1. tx[t].todo # <<>>
      BY <2>1, AtHead DEF AuditAppend
    <3> QED BY <1>1, <2>1, <3>1, ContinueType
  <2>2. CASE t \notin Webhooks
    <3>1. s = [tx[t] EXCEPT !.at = "commit"]
      BY <2>2
    <3> QED BY <1>1, <3>1 DEF Tx
  <2> QED BY <2>1, <2>2
<1> HIDE DEF s
<1>3. TypeOK' /\ tx'[t] = s /\ \A u \in Transactions : u # t => tx'[u] = tx[u]
  BY <1>1, <1>2, TxType DEF AuditAppend, RowsInv, TypeOK
<1> QED BY <1>2, <1>3, QuietStep DEF AuditAppend

LEMMA BeginRows ==
    ASSUME RowsInv, NEW t \in Workers, NEW i \in Ids, Begin(t, i)
    PROVE  RowsInv'
<1>1. t \in Transactions /\ tx[t] \in Tx
  BY DEF Transactions, RowsInv, TypeOK
<1> DEFINE s1 == [tx[t] EXCEPT !.at = "update"]  s2 == [s1 EXCEPT !.id = i]
<1>2. tx' = [tx EXCEPT ![t] = s2]
  BY <1>1 DEF Begin, RowsInv, TypeOK
<1>3. s2 \in Tx
  <2>1. s1 \in Tx
    BY <1>1, TxUpdates
  <2> QED BY <2>1, TxUpdates
<1>4. s2.mine = tx[t].mine /\ s2.heard = tx[t].heard
  BY <1>1 DEF Tx
<1> HIDE DEF s1, s2
<1>5. TypeOK' /\ tx'[t] = s2 /\ \A u \in Transactions : u # t => tx'[u] = tx[u]
  BY <1>1, <1>2, <1>3, TxType DEF Begin, RowsInv, TypeOK
<1> QED BY <1>4, <1>5, QuietStep DEF Begin

\* A new incident: of an id nobody has, and no open one of the fingerprint is seen.
LEMMA InsertRows ==
    ASSUME RowsInv, OrderInv, NEW w \in Webhooks, Insert(w)
    PROVE  RowsInv'
<1> DEFINE f == Head(tx[w].todo).fp
           r == [id |-> nextId, fp |-> f, open |-> TRUE, count |-> 1]
           n == tx[w].heard[nextId] + 1
<1>1. w \in Transactions /\ tx[w] \in Tx /\ f \in Fingerprints /\ Free(w, f)
      /\ UNCHANGED <<incidents, alerts, auditLock>>
  BY AtHead DEF Insert
<1>2. CASE OpenRow(w, f) = {}
  <2>1. /\ nextId <= MaxIncidents /\ nextId' = nextId + 1
        /\ holder' = [holder EXCEPT ![f] = w]
        /\ tx' = [tx EXCEPT ![w].at = "audit", ![w].mine = Wrote(w, r), ![w].heard[nextId] = @ + 1]
    BY <1>2 DEF Insert
  <2>2. nextId \in Ids /\ nextId \in Nat
    BY <2>1 DEF RowsInv, TypeOK, Ids
  <2>3. r \in Incident
    BY <1>1, <2>2 DEF Incident
  <2>4. /\ tx[w].heard \in [Ids -> Nat] /\ tx[w].heard[nextId] = 0 /\ alerts[nextId] = 0
    <3>1. \A x \in tx[w].mine : x.id # nextId
      <4> SUFFICES ASSUME NEW x \in tx[w].mine, x.id = nextId PROVE FALSE
        OBVIOUS
      <4>1. x.id < nextId
        BY <1>1 DEF RowsInv, FreshIds, Versions
      <4> QED BY <2>2, <4>1
    <3>2. tx[w].heard \in [Ids -> Nat]
      BY <1>1 DEF Tx
    <3> QED BY <1>1, <2>2, <3>1, <3>2 DEF RowsInv, Counted, FreshIds
  <2> DEFINE mine == Wrote(w, r)
             heard == [tx[w].heard EXCEPT ![nextId] = n]
             s1 == [tx[w] EXCEPT !.at = "audit"]
             s2 == [s1 EXCEPT !.mine = mine]
             s3 == [s2 EXCEPT !.heard = heard]
  <2>5. tx' = [tx EXCEPT ![w] = s3]
    BY <1>1, <2>1 DEF RowsInv, TypeOK
  <2>6. mine \subseteq Incident /\ n = 1 /\ heard \in [Ids -> Nat]
    <3>1. mine \subseteq Incident
      BY <1>1, <2>3, WroteType DEF RowsInv
    <3>2. n = 1 /\ n \in Nat
      BY <2>4
    <3> HIDE DEF n
    <3>3. heard \in [Ids -> Nat]
      BY <2>4, <3>2
    <3> QED BY <3>1, <3>2, <3>3
  <2>7. s3 \in Tx
    <3>1. s1 \in Tx
      BY <1>1, TxUpdates
    <3>2. s2 \in Tx
      BY <2>6, <3>1, TxUpdates
    <3> QED BY <2>6, <3>2, TxUpdates
  <2>8. s3.mine = mine /\ s3.heard = heard
    BY <1>1 DEF Tx
  <2> HIDE DEF s1, s2, s3
  <2>9. TypeOK' /\ tx'[w] = s3 /\ \A u \in Transactions : u # w => tx'[u] = tx[u]
    <3>1. nextId' \in 1..(MaxIncidents + 1)
      BY <2>1, <2>2, IngestConstants
    <3>2. holder' \in [Fingerprints -> Transactions \cup {Nobody}]
      BY <1>1, <2>1 DEF RowsInv, TypeOK
    <3> QED BY <1>1, <2>5, <2>7, <3>1, <3>2, TxType DEF RowsInv, TypeOK
  <2>10. \A u \in Transactions : \A s \in Versions(u) : s.id # nextId
    <3> SUFFICES ASSUME NEW u \in Transactions, NEW s \in Versions(u), s.id = nextId PROVE FALSE
      OBVIOUS
    <3>1. s.id < nextId
      BY DEF RowsInv, FreshIds
    <3> QED BY <2>2, <3>1
  <2>11. \A s \in View(w) : ~(s.fp = f /\ s.open)
    BY <1>2 DEF OpenRow
  <2>12. /\ r.id = nextId /\ r.fp = f /\ r.count = 1 /\ n \in Nat
         /\ nextId <= nextId' /\ nextId < nextId'
    BY <2>1, <2>2, <2>4
  <2>13. alerts[nextId] + n = 1
    BY <2>4
  <2> HIDE DEF r, n, f
  <2>14. /\ Free(w, r.fp) /\ holder' = [holder EXCEPT ![r.fp] = w] /\ r.id < nextId'
         /\ tx'[w].mine = Wrote(w, r)
         /\ tx'[w].heard = [tx[w].heard EXCEPT ![r.id] = n]
         /\ r.count = alerts[r.id] + n
    BY <1>1, <2>1, <2>8, <2>9, <2>12, <2>13
  <2>15. /\ \A u \in Transactions : \A s \in Versions(u) : s.id = r.id => s.fp = r.fp
         /\ \A s \in View(w) : s.fp = r.fp /\ s.open => s.id = r.id
    BY <2>10, <2>11, <2>12
  <2> QED
    BY <1>1, <2>3, <2>9, <2>12, <2>14, <2>15, WriteStep
<1>3. CASE OpenRow(w, f) # {}
  <2> DEFINE s == [tx[w] EXCEPT !.at = "merge"]
  <2>1. tx' = [tx EXCEPT ![w] = s] /\ UNCHANGED <<nextId, holder>>
    BY <1>1, <1>3 DEF Insert, RowsInv, TypeOK
  <2>2. s \in Tx /\ s.mine = tx[w].mine /\ s.heard = tx[w].heard
    BY <1>1 DEF Tx
  <2> HIDE DEF s
  <2>3. TypeOK' /\ tx'[w] = s /\ \A u \in Transactions : u # w => tx'[u] = tx[u]
    BY <1>1, <2>1, <2>2, TxType DEF RowsInv, TypeOK
  <2> QED BY <1>1, <2>1, <2>2, <2>3, QuietStep
<1> QED BY <1>2, <1>3

\* A rewritten version of an incident that t sees open, with the alerts it adds.
LEMMA Rewrite ==
    ASSUME RowsInv, TypeOK', NEW t \in Transactions, NEW s \in View(t), s.open,
           NEW r \in Incident, NEW n \in Nat,
           r.id = s.id, r.fp = s.fp, r.count = s.count + n, Free(t, s.fp),
           UNCHANGED <<incidents, alerts, nextId>>,
           holder' = [holder EXCEPT ![s.fp] = t],
           tx'[t].mine = Wrote(t, r),
           tx'[t].heard = [tx[t].heard EXCEPT ![s.id] = @ + n],
           \A u \in Transactions : u # t => tx'[u] = tx[u]
    PROVE  RowsInv'
<1>1. /\ s \in Incident /\ s.id \in Ids /\ tx[t].heard \in [Ids -> Nat] /\ alerts \in [Ids -> Nat]
  BY ViewType DEF RowsInv, TypeOK, Tx, Incident
<1> DEFINE m == tx[t].heard[s.id] + n
<1>2. m \in Nat /\ r.count = alerts[r.id] + m
  BY <1>1, CountSeen
<1>3. tx'[t].heard = [tx[t].heard EXCEPT ![r.id] = m]
  BY <1>1
<1>4. \E u \in Transactions : s \in Versions(u)
  BY DEF View, Versions
<1>5. \A u \in Transactions : \A x \in Versions(u) : x.id = r.id => x.fp = r.fp
  BY <1>4 DEF RowsInv, SameIncident
<1>6. r.id < nextId' /\ nextId <= nextId'
  <2>1. s.id < nextId
    BY <1>4 DEF RowsInv, FreshIds
  <2>2. nextId \in Nat
    BY DEF RowsInv, TypeOK
  <2> QED BY <2>1, <2>2
<1>7. r.open => \A x \in View(t) : x.fp = r.fp /\ x.open => x.id = r.id
  BY OpenSeen
<1> HIDE DEF m
<1> QED BY <1>2, <1>3, <1>5, <1>6, <1>7, WriteStep

LEMMA MergeRows ==
    ASSUME RowsInv, OrderInv, NEW w \in Webhooks, Merge(w)
    PROVE  RowsInv'
<1> DEFINE f == Head(tx[w].todo).fp
<1>1. w \in Transactions /\ tx[w] \in Tx /\ tx[w].todo # <<>> /\ f \in Fingerprints /\ Free(w, f)
      /\ UNCHANGED <<incidents, alerts, nextId, auditLock>>
  BY AtHead DEF Merge
<1>2. ASSUME NEW r \in OpenRow(w, f),
             holder' = [holder EXCEPT ![f] = w],
             tx' = [tx EXCEPT ![w] = Continue(Recorded(w, r))]
      PROVE  RowsInv'
  <2> DEFINE q == [r EXCEPT !.count = @ + 1]
             mine == Wrote(w, q)
             heard == [tx[w].heard EXCEPT ![r.id] = @ + 1]
             s1 == [tx[w] EXCEPT !.mine = mine]
             s2 == [s1 EXCEPT !.heard = heard]
  <2>1. r \in View(w) /\ r.fp = f /\ r.open
    BY DEF OpenRow
  <2>2. r \in Incident /\ r.id \in Ids /\ r.count \in Nat
    BY <1>1, <2>1, ViewType DEF RowsInv, Incident
  <2>3. q \in Incident /\ q.id = r.id /\ q.fp = r.fp /\ q.count = r.count + 1
    BY <2>2 DEF Incident
  <2> HIDE DEF q
  <2>4. tx' = [tx EXCEPT ![w] = Continue(s2)]
    <3>1. Recorded(w, r) = s2
      BY <1>1 DEF Recorded, Tx, q
    <3> HIDE DEF s2
    <3> QED BY <1>2, <3>1
  <2>5. mine \subseteq Incident /\ heard \in [Ids -> Nat]
    <3>1. mine \subseteq Incident
      BY <1>1, <2>3, WroteType DEF RowsInv
    <3>2. heard \in [Ids -> Nat]
      BY <1>1, <2>2 DEF Tx
    <3> QED BY <3>1, <3>2
  <2>6. s2 \in Tx /\ s2.todo = tx[w].todo /\ s2.mine = mine /\ s2.heard = heard
    <3>1. s1 \in Tx
      BY <1>1, <2>5, TxUpdates
    <3>2. s2 \in Tx
      BY <2>5, <3>1, TxUpdates
    <3>3. s2.todo = tx[w].todo /\ s2.mine = mine /\ s2.heard = heard
      BY <1>1 DEF Tx
    <3> QED BY <3>2, <3>3
  <2> HIDE DEF s1, s2
  <2>7. Continue(s2) \in Tx /\ Continue(s2).mine = mine /\ Continue(s2).heard = heard
    BY <1>1, <2>6, ContinueType
  <2>8. TypeOK' /\ tx'[w] = Continue(s2) /\ \A u \in Transactions : u # w => tx'[u] = tx[u]
    <3>1. holder' \in [Fingerprints -> Transactions \cup {Nobody}]
      BY <1>1, <1>2 DEF RowsInv, TypeOK
    <3> QED BY <1>1, <2>4, <2>7, <3>1, TxType DEF RowsInv, TypeOK
  <2>9. /\ Free(w, r.fp) /\ holder' = [holder EXCEPT ![r.fp] = w] /\ 1 \in Nat
        /\ tx'[w].mine = Wrote(w, q)
        /\ tx'[w].heard = [tx[w].heard EXCEPT ![r.id] = @ + 1]
    BY <1>1, <1>2, <2>1, <2>7, <2>8
  <2> QED BY <1>1, <2>1, <2>3, <2>8, <2>9, Rewrite
<1>3. ASSUME tx[w].tries < 2, UNCHANGED holder,
             tx' = [tx EXCEPT ![w].at = "insert", ![w].tries = @ + 1]
      PROVE  RowsInv'
  <2> DEFINE k == tx[w].tries + 1
             s1 == [tx[w] EXCEPT !.at = "insert"]
             s2 == [s1 EXCEPT !.tries = k]
  <2>1. tx' = [tx EXCEPT ![w] = s2]
    BY <1>1, <1>3 DEF RowsInv, TypeOK
  <2>2. s2 \in Tx
    <3>1. s1 \in Tx
      BY <1>1, TxUpdates
    <3>2. k \in 0..2
      BY <1>1, <1>3 DEF Tx
    <3> QED BY <3>1, <3>2, TxUpdates
  <2>3. s2.mine = tx[w].mine /\ s2.heard = tx[w].heard
    BY <1>1 DEF Tx
  <2> HIDE DEF s1, s2
  <2>4. TypeOK' /\ tx'[w] = s2 /\ \A u \in Transactions : u # w => tx'[u] = tx[u]
    BY <1>1, <1>3, <2>1, <2>2, TxType DEF RowsInv, TypeOK
  <2> QED BY <1>1, <1>3, <2>3, <2>4, QuietStep
<1> QED BY <1>2, <1>3 DEF Merge

LEMMA UpdateRows ==
    ASSUME RowsInv, NEW t \in Workers, NEW closes \in BOOLEAN, Update(t, closes)
    PROVE  RowsInv'
<1>1. t \in Transactions /\ tx[t] \in Tx /\ UNCHANGED <<incidents, alerts, nextId>>
  BY DEF Transactions, RowsInv, TypeOK, Update
<1>2. PICK r \in View(t) :
         /\ r.id = tx[t].id /\ r.open /\ Free(t, r.fp)
         /\ holder' = [holder EXCEPT ![r.fp] = t]
         /\ tx' = [tx EXCEPT ![t].at = "audit", ![t].mine = Wrote(t, [r EXCEPT !.open = ~closes])]
  BY DEF Update
<1> DEFINE o == ~closes
           q == [r EXCEPT !.open = o]
           mine == Wrote(t, q)
           s1 == [tx[t] EXCEPT !.at = "audit"]
           s2 == [s1 EXCEPT !.mine = mine]
<1>3. r \in Incident /\ r.id \in Ids /\ r.fp \in Fingerprints /\ r.count \in Nat /\ o \in BOOLEAN
  BY <1>1, ViewType DEF RowsInv, Incident
<1> HIDE DEF o
<1>4. q \in Incident /\ q.id = r.id /\ q.fp = r.fp /\ q.count = r.count + 0
  BY <1>3 DEF Incident
<1> HIDE DEF q
<1>5. tx' = [tx EXCEPT ![t] = s2]
  BY <1>1, <1>2 DEF RowsInv, TypeOK, q, o
<1>6. mine \subseteq Incident
  BY <1>1, <1>4, WroteType DEF RowsInv
<1>7. s2 \in Tx /\ s2.mine = mine /\ s2.heard = [tx[t].heard EXCEPT ![r.id] = @ + 0]
  <2>1. s1 \in Tx
    BY <1>1, TxUpdates
  <2>2. s2 \in Tx
    BY <1>6, <2>1, TxUpdates
  <2>3. s2.mine = mine /\ s2.heard = tx[t].heard
    BY <1>1 DEF Tx
  <2>4. tx[t].heard = [tx[t].heard EXCEPT ![r.id] = @ + 0]
    BY <1>1, <1>3 DEF Tx
  <2> QED BY <2>2, <2>3, <2>4
<1> HIDE DEF s1, s2
<1>8. TypeOK' /\ tx'[t] = s2 /\ \A u \in Transactions : u # t => tx'[u] = tx[u]
  <2>1. holder' \in [Fingerprints -> Transactions \cup {Nobody}]
    BY <1>1, <1>2, <1>3 DEF RowsInv, TypeOK
  <2> QED BY <1>1, <1>5, <1>7, <2>1, TxType DEF RowsInv, TypeOK
<1>9. 0 \in Nat
  OBVIOUS
<1> QED BY <1>1, <1>2, <1>4, <1>7, <1>8, <1>9, Rewrite

-----------------------------------------------------------------------------
(* The order                                                               *)

\* A webhook that the step is not of is where it was, and holds nothing more.
LEMMA OrderOfOthers ==
    ASSUME OrderInv, NEW w \in Webhooks, tx'[w] = tx[w],
           \A f \in Fingerprints : holder'[f] = w => holder[f] = w
    PROVE  OrderOf(w)'
  BY DEF OrderInv, OrderOf

\* A webhook that stays at its alert may come to hold the alert's fingerprint.
LEMMA OrderAtHead ==
    ASSUME RowsInv, OrderInv, NEW w \in Webhooks, tx[w].todo # <<>>,
           tx'[w].at \in {"insert", "merge", "audit"}, tx'[w].todo = tx[w].todo,
           \A f \in Fingerprints : holder'[f] = w => holder[f] = w \/ f = Head(tx[w].todo).fp
    PROVE  OrderOf(w)'
<1> DEFINE q == tx[w].todo
<1>1. q \in Seq(Alert) /\ Len(q) \in Nat
  BY DEF RowsInv, TypeOK, Tx, Transactions
<1>2. Head(q) = q[1] /\ 1 \in 1..Len(q)
  BY <1>1, SeqFacts
<1>3. \A i, j \in 1..Len(q) : i < j => q[i].fp <= q[j].fp
  BY DEF OrderInv, OrderOf
<1>4. ASSUME NEW f \in Fingerprints, holder'[f] = w, NEW i \in 1..Len(q) PROVE f <= q[i].fp
  <2>1. CASE holder[f] = w
    BY <2>1 DEF OrderInv, OrderOf
  <2>2. CASE f = q[1].fp
    <3>1. q[i] \in Alert
      BY <1>1, ElementOfSeq
    <3>2. q[i].fp \in Nat
      BY <3>1, IngestConstants DEF Alert
    <3>3. i = 1 \/ 1 < i
      BY <1>1
    <3> QED BY <1>2, <1>3, <2>2, <3>2, <3>3
  <2> QED BY <1>2, <1>4, <2>1, <2>2
<1> HIDE DEF q
<1> QED BY <1>3, <1>4 DEF OrderOf, q

\* A webhook that is done with its alert goes on to a later one.
LEMMA OrderAtNext ==
    ASSUME RowsInv, OrderInv, NEW w \in Webhooks, tx[w].todo # <<>>,
           tx'[w].at \in {"insert", "commit"}, tx'[w].todo = Tail(tx[w].todo),
           tx'[w].at = "insert" => tx'[w].todo # <<>>,
           \A f \in Fingerprints : holder'[f] = w => holder[f] = w \/ f = Head(tx[w].todo).fp
    PROVE  OrderOf(w)'
<1> DEFINE q == tx[w].todo  q2 == Tail(tx[w].todo)
<1>1. q \in Seq(Alert) /\ Len(q) \in Nat
  BY DEF RowsInv, TypeOK, Tx, Transactions
<1>2. /\ Head(q) = q[1] /\ 1 \in 1..Len(q)
      /\ q2 \in Seq(Alert) /\ Len(q2) = Len(q) - 1
      /\ \A i \in 1..Len(q2) : q2[i] = q[i + 1] /\ i + 1 \in 1..Len(q)
  BY <1>1, SeqFacts
<1>3. \A i, j \in 1..Len(q) : i < j => q[i].fp <= q[j].fp
  BY DEF OrderInv, OrderOf
<1>4. ASSUME NEW f \in Fingerprints, holder'[f] = w, NEW i \in 1..Len(q2) PROVE f <= q2[i].fp
  <2>1. CASE holder[f] = w
    BY <1>2, <2>1 DEF OrderInv, OrderOf
  <2>2. CASE f = q[1].fp
    <3>1. 1 < i + 1
      BY <1>1, <1>2
    <3> QED BY <1>2, <1>3, <2>2, <3>1
  <2> QED BY <1>2, <1>4, <2>1, <2>2
<1>5. ASSUME NEW i \in 1..Len(q2), NEW j \in 1..Len(q2), i < j PROVE q2[i].fp <= q2[j].fp
  <2>1. i + 1 < j + 1
    BY <1>1, <1>2, <1>5
  <2> QED BY <1>2, <1>3, <2>1
<1> HIDE DEF q, q2
<1> QED BY <1>4, <1>5 DEF OrderOf, q2

LEMMA ReceiveOrder ==
    ASSUME RowsInv, OrderInv, NEW w \in Webhooks, NEW batch \in Batches, Receive(w, batch)
    PROVE  OrderInv'
<1>1. /\ w \in Transactions /\ batch \in Seq(Alert) /\ batch # <<>>
      /\ Sorted(batch) /\ holder' = holder
      /\ tx' = [tx EXCEPT ![w].at = "insert", ![w].todo = batch] /\ tx[w].at = "none"
  <2>1. batch \in Seq(Alert) /\ batch # <<>>
    BY ReceiveRows
  <2>2. tx[w] = NoTx /\ NoTx.at = "none"
    BY DEF Receive, NoTx
  <2> QED BY <2>1, <2>2 DEF Receive, Transactions
<1>2. tx'[w].at = "insert" /\ tx'[w].todo = batch /\ \A v \in Webhooks : v # w => tx'[v] = tx[v]
  BY <1>1 DEF RowsInv, TypeOK, Tx, Transactions
<1>3. \A f \in Fingerprints : holder[f] # w
  BY <1>1 DEF OrderInv, OrderOf
<1>4. OrderOf(w)'
  BY <1>1, <1>2, <1>3 DEF OrderOf, Sorted
<1> QED BY <1>1, <1>2, <1>4, OrderOfOthers DEF OrderInv

LEMMA InsertOrder ==
    ASSUME RowsInv, OrderInv, NEW w \in Webhooks, Insert(w)
    PROVE  OrderInv'
<1> DEFINE f == Head(tx[w].todo).fp
<1>1. w \in Transactions /\ tx[w] \in Tx /\ tx[w].todo # <<>> /\ f \in Fingerprints
  BY AtHead DEF Insert
<1>2. /\ tx'[w].at \in {"insert", "merge", "audit"} /\ tx'[w].todo = tx[w].todo
      /\ \A v \in Webhooks : v # w => tx'[v] = tx[v]
  BY <1>1 DEF Insert, RowsInv, TypeOK, Tx, Transactions
<1>3. holder' = [holder EXCEPT ![f] = w] \/ holder' = holder
  BY DEF Insert
<1>4. /\ \A g \in Fingerprints : holder'[g] = w => holder[g] = w \/ g = f
      /\ \A v \in Webhooks, g \in Fingerprints : v # w /\ holder'[g] = v => holder[g] = v
  BY <1>3 DEF RowsInv, TypeOK
<1>5. OrderOf(w)'
  BY <1>1, <1>2, <1>4, OrderAtHead
<1> QED BY <1>2, <1>4, <1>5, OrderOfOthers DEF OrderInv

LEMMA MergeOrder ==
    ASSUME RowsInv, OrderInv, NEW w \in Webhooks, Merge(w)
    PROVE  OrderInv'
<1> DEFINE f == Head(tx[w].todo).fp
<1>1. w \in Transactions /\ tx[w] \in Tx /\ tx[w].todo # <<>> /\ f \in Fingerprints
  BY AtHead DEF Merge
<1>2. holder' = [holder EXCEPT ![f] = w] \/ holder' = holder
  BY DEF Merge
<1>3. /\ \A g \in Fingerprints : holder'[g] = w => holder[g] = w \/ g = f
      /\ \A v \in Webhooks, g \in Fingerprints : v # w /\ holder'[g] = v => holder[g] = v
  BY <1>2 DEF RowsInv, TypeOK
<1>4. (\E s : tx' = [tx EXCEPT ![w] = s]) =>  \A v \in Webhooks : v # w => tx'[v] = tx[v]
  BY DEF RowsInv, TypeOK, Transactions
<1>5. ASSUME NEW r \in OpenRow(w, f), tx' = [tx EXCEPT ![w] = Continue(Recorded(w, r))]
      PROVE  OrderInv'
  <2>1. Recorded(w, r).todo = tx[w].todo
    BY <1>1 DEF Recorded, Tx
  <2>2. tx'[w] = Continue(Recorded(w, r))
    BY <1>1, <1>5 DEF RowsInv, TypeOK
  <2>3. Recorded(w, r) \in Tx
    <3>1. r \in Incident /\ r.id \in Ids
      BY <1>1, ViewType DEF OpenRow, RowsInv, Incident
    <3> DEFINE q == [r EXCEPT !.count = @ + 1]
               mine == Wrote(w, q)
               heard == [tx[w].heard EXCEPT ![r.id] = @ + 1]
               s1 == [tx[w] EXCEPT !.mine = mine]
    <3>2. q \in Incident
      BY <3>1 DEF Incident
    <3>3. mine \in SUBSET Incident
      BY <1>1, <3>2, WroteType DEF RowsInv
    <3>4. heard \in [Ids -> Nat]
      BY <1>1, <3>1 DEF Tx
    <3>5. Recorded(w, r) = [s1 EXCEPT !.heard = heard]
      BY <1>1 DEF Recorded, Tx
    <3> HIDE DEF mine, heard
    <3>6. s1 \in Tx
      BY <1>1, <3>3, TxUpdates
    <3> HIDE DEF s1
    <3> QED BY <3>4, <3>5, <3>6, TxUpdates
  <2>4. /\ tx'[w].todo = Tail(tx[w].todo) /\ tx'[w].at \in {"commit", "insert"}
        /\ tx'[w].at = "insert" => tx'[w].todo # <<>>
    BY <1>1, <2>1, <2>2, <2>3, ContinueType
  <2>5. OrderOf(w)'
    BY <1>1, <1>3, <2>4, OrderAtNext
  <2> QED BY <1>3, <1>4, <1>5, <2>5, OrderOfOthers DEF OrderInv
<1>6. ASSUME tx' = [tx EXCEPT ![w].at = "insert", ![w].tries = @ + 1] PROVE OrderInv'
  <2>1. tx'[w].at = "insert" /\ tx'[w].todo = tx[w].todo /\ \A v \in Webhooks : v # w => tx'[v] = tx[v]
    BY <1>1, <1>6 DEF RowsInv, TypeOK, Tx, Transactions
  <2>2. OrderOf(w)'
    BY <1>1, <1>3, <2>1, OrderAtHead
  <2> QED BY <1>3, <2>1, <2>2, OrderOfOthers DEF OrderInv
<1> QED BY <1>5, <1>6 DEF Merge

LEMMA ResolvedOrder ==
    ASSUME RowsInv, OrderInv, NEW w \in Webhooks, Resolved(w)
    PROVE  OrderInv'
<1>1. w \in Transactions /\ tx[w] \in Tx /\ tx[w].todo # <<>>
  BY AtHead DEF Resolved
<1>2. tx'[w] = Continue(tx[w]) /\ holder' = holder /\ \A v \in Webhooks : v # w => tx'[v] = tx[v]
  BY <1>1 DEF Resolved, RowsInv, TypeOK, Transactions
<1>3. /\ tx'[w].todo = Tail(tx[w].todo) /\ tx'[w].at \in {"commit", "insert"}
      /\ tx'[w].at = "insert" => tx'[w].todo # <<>>
  BY <1>1, <1>2, ContinueType
<1>4. OrderOf(w)'
  BY <1>1, <1>2, <1>3, OrderAtNext
<1> QED BY <1>2, <1>4, OrderOfOthers DEF OrderInv

LEMMA AuditOrder ==
    ASSUME RowsInv, OrderInv, NEW t \in Transactions, AuditAppend(t)
    PROVE  OrderInv'
<1>1. holder' = holder /\ \A v \in Webhooks : v # t => tx'[v] = tx[v]
  BY DEF AuditAppend, RowsInv, TypeOK, Transactions
<1>2. CASE t \in Webhooks
  <2>1. tx[t] \in Tx /\ tx[t].todo # <<>>
    BY <1>2, AtHead DEF AuditAppend
  <2>2. tx'[t] = Continue(tx[t])
    BY <1>2 DEF AuditAppend, RowsInv, TypeOK
  <2>3. /\ tx'[t].todo = Tail(tx[t].todo) /\ tx'[t].at \in {"commit", "insert"}
        /\ tx'[t].at = "insert" => tx'[t].todo # <<>>
    BY <2>1, <2>2, ContinueType
  <2>4. OrderOf(t)'
    BY <1>1, <1>2, <2>1, <2>3, OrderAtNext
  <2> QED BY <1>1, <2>4, OrderOfOthers DEF OrderInv
<1>3. CASE t \notin Webhooks
  BY <1>1, <1>3, OrderOfOthers DEF OrderInv
<1> QED BY <1>2, <1>3

LEMMA WorkerOrder ==
    ASSUME RowsInv, OrderInv, NEW t \in Workers,
           \/ \E i \in Ids : Begin(t, i)
           \/ \E closes \in BOOLEAN : Update(t, closes)
    PROVE  OrderInv'
<1>1. t \in Transactions /\ t \notin Webhooks
  BY IngestConstants DEF Transactions
<1>2. \A v \in Webhooks : tx'[v] = tx[v]
  BY <1>1 DEF Begin, Update, RowsInv, TypeOK, Transactions
<1>3. holder' = holder \/ \E f : holder' = [holder EXCEPT ![f] = t]
  BY DEF Begin, Update
<1>4. \A v \in Webhooks, g \in Fingerprints : holder'[g] = v => holder[g] = v
  BY <1>1, <1>3 DEF RowsInv, TypeOK
<1> QED BY <1>2, <1>4, OrderOfOthers DEF OrderInv

LEMMA EndedOrder ==
    ASSUME RowsInv, OrderInv, NEW t \in Transactions, Ended(t)
    PROVE  OrderInv'
<1>1. /\ holder' = [f \in Fingerprints |-> IF holder[f] = t THEN Nobody ELSE holder[f]]
      /\ tx'[t] = NoTx /\ \A v \in Webhooks : v # t => tx'[v] = tx[v]
  BY DEF Ended, RowsInv, TypeOK, Transactions
<1>2. \A v \in Webhooks, f \in Fingerprints : holder'[f] = v => holder[f] = v /\ v # t
  BY <1>1, IngestConstants DEF Transactions
<1>3. t \in Webhooks => OrderOf(t)'
  <2>1. NoTx.at = "none" /\ NoTx.todo = <<>> /\ Len(<<>>) = 0
    BY DEF NoTx
  <2> QED BY <1>1, <1>2, <2>1 DEF OrderOf
<1> QED BY <1>1, <1>2, <1>3, OrderOfOthers DEF OrderInv

-----------------------------------------------------------------------------
(* The theorems                                                            *)

IngestInv == RowsInv /\ OrderInv

LEMMA InitInv == Init => IngestInv
<1> SUFFICES ASSUME Init PROVE IngestInv
  OBVIOUS
<1>1. /\ incidents = {} /\ alerts = [i \in Ids |-> 0] /\ nextId = 1
      /\ holder = [f \in Fingerprints |-> Nobody]
      /\ \A t \in Transactions : tx[t] = NoTx
      /\ NoTx.mine = {} /\ NoTx.heard = [i \in Ids |-> 0] /\ NoTx.at = "none" /\ NoTx.todo = <<>>
      /\ Len(<<>>) = 0
  BY DEF Init, NoTx
<1>2. TypeOK
  <2>1. tx \in [Transactions -> Tx]
    BY NoTxType DEF Init
  <2>2. nextId \in 1..(MaxIncidents + 1)
    BY <1>1, IngestConstants
  <2> QED BY <1>1, <2>1, <2>2 DEF TypeOK
<1>3. OwnRows /\ SameIncident /\ FreshIds /\ Counted /\ OneOpen
  BY <1>1 DEF OwnRows, SameIncident, Versions, FreshIds, Counted, EveryAlertCounted, OneOpen,
              OneOpenIncident, View
<1>4. OrderInv
  <2> SUFFICES ASSUME NEW w \in Webhooks PROVE OrderOf(w)
    BY DEF OrderInv
  <2>1. tx[w] = NoTx /\ \A f \in Fingerprints : holder[f] # w
    BY <1>1, IngestConstants DEF Transactions
  <2> QED BY <1>1, <2>1 DEF OrderOf
<1> QED BY <1>2, <1>3, <1>4 DEF IngestInv, RowsInv

LEMMA StepInv == IngestInv /\ [Next]_vars => IngestInv'
<1> SUFFICES ASSUME RowsInv, OrderInv, [Next]_vars PROVE RowsInv' /\ OrderInv'
  BY DEF IngestInv
<1>1. ASSUME NEW w \in Webhooks, NEW batch \in Batches, Receive(w, batch) PROVE RowsInv' /\ OrderInv'
  BY <1>1, ReceiveRows, ReceiveOrder
<1>2. ASSUME NEW w \in Webhooks, Insert(w) PROVE RowsInv' /\ OrderInv'
  BY <1>2, InsertRows, InsertOrder
<1>3. ASSUME NEW w \in Webhooks, Merge(w) PROVE RowsInv' /\ OrderInv'
  BY <1>3, MergeRows, MergeOrder
<1>4. ASSUME NEW w \in Webhooks, Resolved(w) PROVE RowsInv' /\ OrderInv'
  BY <1>4, ResolvedRows, ResolvedOrder
<1>5. ASSUME NEW t \in Workers, NEW i \in Ids, Begin(t, i) PROVE RowsInv' /\ OrderInv'
  BY <1>5, BeginRows, WorkerOrder
<1>6. ASSUME NEW t \in Workers, NEW closes \in BOOLEAN, Update(t, closes) PROVE RowsInv' /\ OrderInv'
  BY <1>6, UpdateRows, WorkerOrder
<1>7. ASSUME NEW t \in Transactions, AuditAppend(t) PROVE RowsInv' /\ OrderInv'
  BY <1>7, AuditRows, AuditOrder
<1>8. ASSUME NEW t \in Transactions, Commit(t) PROVE RowsInv' /\ OrderInv'
  BY <1>8, CommitStep, EndedOrder DEF Commit
<1>9. ASSUME NEW t \in Transactions, Rollback(t) PROVE RowsInv' /\ OrderInv'
  BY <1>9, RollbackStep, EndedOrder DEF Rollback
<1>10. CASE UNCHANGED vars
  <2>1. UNCHANGED <<incidents, alerts, nextId, holder, tx>>
    BY <1>10 DEF vars
  <2>2. TypeOK'
    BY <2>1 DEF RowsInv, TypeOK
  <2> QED BY <2>1, <2>2, QuietStep, OrderOfOthers DEF OrderInv
<1> QED BY <1>1, <1>2, <1>3, <1>4, <1>5, <1>6, <1>7, <1>8, <1>9, <1>10 DEF Next

LEMMA InvHolds == Spec => []IngestInv
  BY InitInv, StepInv, PTL DEF Spec

\* Every variable keeps its type.
THEOREM TypeCorrect == Spec => []TypeOK
<1>1. IngestInv => TypeOK
  BY DEF IngestInv, RowsInv
<1> QED BY <1>1, InvHolds, PTL

\* However many webhooks report a fingerprint at once, and whatever workers close
\* meanwhile, one incident of it is open at most: open_or_merge and the unique index.
THEOREM OneIncident == Spec => []OneOpenIncident
<1>1. IngestInv => OneOpenIncident
  BY DEF IngestInv, RowsInv, OneOpen
<1> QED BY <1>1, InvHolds, PTL

\* alert_count is the number of firing alerts recorded against the incident.
THEOREM AlertsCounted == Spec => []EveryAlertCounted
<1>1. IngestInv => EveryAlertCounted
  BY DEF IngestInv, RowsInv, Counted
<1> QED BY <1>1, InvHolds, PTL

\* Two webhooks never wait for an incident of each other, because ingest sorts the
\* alerts by fingerprint: each would be at a fingerprint the other is past.
THEOREM SortedNoCycle == Spec => []IncidentsInOrder
<1>1. ASSUME IngestInv PROVE IncidentsInOrder
  <2> SUFFICES ASSUME NEW v \in Webhooks, NEW w \in Webhooks, WaitsForRow(v, w), WaitsForRow(w, v)
               PROVE  FALSE
    BY DEF IncidentsInOrder
  <2> DEFINE f == Head(tx[v].todo).fp  g == Head(tx[w].todo).fp
  <2>1. /\ v # w /\ tx[v].at \in {"insert", "merge"} /\ tx[w].at \in {"insert", "merge"}
        /\ holder[f] = w /\ holder[g] = v
    BY <1>1 DEF IngestInv, OrderInv, OrderOf, WaitsForRow
  <2>2. /\ f \in Fingerprints /\ f = tx[v].todo[1].fp /\ 1 \in 1..Len(tx[v].todo)
        /\ g \in Fingerprints /\ g = tx[w].todo[1].fp /\ 1 \in 1..Len(tx[w].todo)
    BY <1>1, <2>1, AtHead DEF IngestInv
  <2>3. f <= g /\ g <= f
    <3>1. \A h \in Fingerprints : holder[h] = w => h <= tx[w].todo[1].fp
      BY <1>1, <2>2 DEF IngestInv, OrderInv, OrderOf
    <3>2. \A h \in Fingerprints : holder[h] = v => h <= tx[v].todo[1].fp
      BY <1>1, <2>2 DEF IngestInv, OrderInv, OrderOf
    <3> QED BY <2>1, <2>2, <3>1, <3>2
  <2>4. f = g
    <3>1. f \in Nat /\ g \in Nat
      BY <2>2, IngestConstants
    <3> HIDE DEF f, g
    <3> QED BY <2>3, <3>1
  <2> QED BY <2>1, <2>4
<1> QED BY <1>1, InvHolds, PTL
=============================================================================
