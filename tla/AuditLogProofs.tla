--------------------------- MODULE AuditLogProofs ---------------------------
(***************************************************************************)
(* The audit log is one chain, for any number of writers and rows; and     *)
(* what the reader of the console's stream is told of it and of the calls. *)
(***************************************************************************)
EXTENDS Stream, FiniteSetTheorems, WellFoundedInduction, TLAPS

\* What a transaction sees.
Visible(w) == rows \cup pending[w]

\* Every row of S follows the one before it.
Chained(S) == \A r \in S : ~Bad(r, S)

\* seq values are handed out once, in order.
SeqsUsed ==
    /\ \A r \in rows : r.seq < nextSeq
    /\ \A w \in Writers : \A r \in pending[w] : r.seq < nextSeq

\* Whoever is inside append, or has appended, holds the lock.
LockHeld == \A w \in Writers : pending[w] # {} \/ at[w] \in {"read", "insert"} => lock = w

\* The holder's rows come after the committed ones.
Later == \A w \in Writers : \A r \in pending[w], x \in rows : x.seq < r.seq

\* What a transaction sees is a chain, and what it read is the end of it.
ChainInv ==
    /\ TypeOK /\ SeqsUsed /\ LockHeld /\ Later
    /\ Chained(rows)
    /\ \A w \in Writers : Chained(Visible(w))
    /\ \A w \in Writers : at[w] = "insert" => LastHash(Visible(w), prev[w])

\* Adding a row with the next seq to a chain it continues gives a chain.
LEMMA Extended ==
    ASSUME NEW S, NEW n \in Nat, \A x \in S : x.seq \in Nat /\ x.seq < n,
           Chained(S), NEW h, LastHash(S, h), NEW c,
           NEW r, r = [seq |-> n, content |-> c, prev_hash |-> h, hash |-> Digest(h, c)]
    PROVE  Chained(S \cup {r})
<1>1. r.seq = n /\ r.prev_hash = h /\ r.content = c /\ r.hash = Digest(h, c)
  OBVIOUS
<1>2. Before(r, S \cup {r}) = S
  BY <1>1 DEF Before
<1>3. ~Bad(r, S \cup {r})
  BY <1>1, <1>2 DEF Bad
<1>4. ASSUME NEW x \in S PROVE ~Bad(x, S \cup {r})
  <2>1. Before(x, S \cup {r}) = Before(x, S)
    BY <1>1 DEF Before
  <2>2. ~Bad(x, S)
    BY DEF Chained
  <2> QED  BY <2>1, <2>2 DEF Bad
<1> QED  BY <1>3, <1>4 DEF Chained

\* A new log is a chain.
LEMMA ChainInit == Init => ChainInv
BY AuditConstants DEF Init, ChainInv, TypeOK, Hash, GENESIS, SeqsUsed, LockHeld, Later, Chained, Visible

\* Where no row is inserted, committed or rolled back, only the place of a
\* writer in append matters.
LEMMA SameRows ==
    ASSUME ChainInv, UNCHANGED <<rows, pending, nextSeq>>, TypeOK', LockHeld',
           \A w \in Writers : at'[w] = "insert" =>
               \/ at[w] = "insert" /\ prev'[w] = prev[w]
               \/ LastHash(Visible(w), prev'[w])
    PROVE  ChainInv'
<1>1. SeqsUsed' /\ Later'
  BY DEF ChainInv, SeqsUsed, Later
<1>2. \A w \in Writers : Visible(w)' = Visible(w)
  BY DEF Visible
<1>3. Chained(rows)' /\ \A w \in Writers : Chained(Visible(w))'
  BY <1>2 DEF ChainInv, Chained, Bad, Before, LastHash, IsLast, Digest, GENESIS, Visible
<1>4. ASSUME NEW w \in Writers, at'[w] = "insert" PROVE LastHash(Visible(w), prev[w])'
  <2>1. LastHash(Visible(w), prev'[w])
    BY <1>4 DEF ChainInv
  <2> QED  BY <1>2, <2>1 DEF LastHash, IsLast, GENESIS
<1> QED  BY <1>1, <1>3, <1>4 DEF ChainInv

\* Every step keeps it.
LEMMA ChainStep == ChainInv /\ [Next]_vars => ChainInv'
<1> SUFFICES ASSUME ChainInv, [Next]_vars PROVE ChainInv'
  OBVIOUS
<1> USE AuditConstants
<1>0. TypeOK /\ LockHeld
  BY DEF ChainInv
<1>1. ASSUME NEW w \in Writers, Call(w) PROVE ChainInv'
  <2>1. TypeOK' /\ LockHeld'
    BY <1>0, <1>1 DEF Call, TypeOK, LockHeld
  <2> QED  BY <1>0, <1>1, <2>1, SameRows DEF Call, TypeOK
<1>2. ASSUME NEW w \in Writers, TakeLock(w) PROVE ChainInv'
  <2>1. TypeOK' /\ LockHeld'
    BY <1>0, <1>2 DEF TakeLock, TypeOK, LockHeld
  <2> QED  BY <1>0, <1>2, <2>1, SameRows DEF TakeLock, TypeOK
<1>3. ASSUME NEW w \in Writers, ReadLast(w) PROVE ChainInv'
  <2>1. PICK h \in {GENESIS} \cup {r.hash : r \in rows \cup pending[w]} :
           LastHash(rows \cup pending[w], h) /\ prev' = [prev EXCEPT ![w] = h]
    BY <1>3 DEF ReadLast
  <2>2. h \in Hash
    <3>1. rows \cup pending[w] \subseteq Row
      BY <1>0 DEF TypeOK
    <3>2. \A r \in Row : r.hash \in Hash
      BY DEF Row
    <3>3. GENESIS \in Hash
      BY DEF GENESIS, Hash
    <3> QED  BY <3>1, <3>2, <3>3
  <2>3. TypeOK' /\ LockHeld'
    BY <1>0, <1>3, <2>1, <2>2 DEF ReadLast, TypeOK, LockHeld
  <2>4. LastHash(Visible(w), prev'[w])
    BY <1>0, <2>1 DEF Visible, TypeOK
  <2>5. \A x \in Writers : at'[x] = "insert" =>
               \/ at[x] = "insert" /\ prev'[x] = prev[x]
               \/ LastHash(Visible(x), prev'[x])
    BY <1>0, <1>3, <2>1, <2>4 DEF ReadLast, TypeOK
  <2>6. UNCHANGED <<rows, pending, nextSeq>>
    BY <1>3 DEF ReadLast
  <2> QED  BY <2>3, <2>5, <2>6, SameRows
<1>4. ASSUME NEW w \in Writers, NEW content \in Contents, Insert(w, content) PROVE ChainInv'
  <2>1. PICK r : r = [seq |-> nextSeq, content |-> content, prev_hash |-> prev[w],
                      hash |-> Digest(prev[w], content)]
    OBVIOUS
  <2>2. r \in Row /\ r.seq = nextSeq
    <3>1. prev[w] \in Hash /\ nextSeq \in Nat \ {0}
      BY <1>0 DEF TypeOK
    <3>2. Digest(prev[w], content) \in Hash
      BY <3>1 DEF Digest, Hash
    <3> QED  BY <2>1, <3>1, <3>2 DEF Row
  <2>3. /\ pending' = [pending EXCEPT ![w] = @ \cup {r}] /\ nextSeq' = nextSeq + 1
        /\ at[w] = "insert" /\ at' = [at EXCEPT ![w] = "caller"] /\ UNCHANGED <<rows, lock, prev>>
    BY <1>4, <2>1 DEF Insert
  <2>4. TypeOK'
    BY <1>0, <2>2, <2>3 DEF TypeOK
  <2>5. \A x \in Writers : pending'[x] = IF x = w THEN pending[w] \cup {r} ELSE pending[x]
    BY <1>0, <2>3 DEF TypeOK
  <2>6. lock = w
    BY <1>0, <2>3 DEF LockHeld
  <2>7. LockHeld'
    BY <1>0, <2>3, <2>5, <2>6 DEF LockHeld, TypeOK
  <2>8. \A x \in rows : x.seq \in Nat /\ x.seq < nextSeq
    BY <1>0 DEF ChainInv, SeqsUsed, TypeOK, Row
  <2>9. \A x \in pending[w] : x.seq \in Nat /\ x.seq < nextSeq
    BY <1>0 DEF ChainInv, SeqsUsed, TypeOK, Row
  <2>10. SeqsUsed'
    <3>1. \A v \in Writers : \A x \in pending[v] : x.seq \in Nat /\ x.seq < nextSeq
      BY <1>0 DEF ChainInv, SeqsUsed, TypeOK, Row
    <3>2. nextSeq \in Nat
      BY <1>0 DEF TypeOK
    <3> QED  BY <2>2, <2>3, <2>5, <2>8, <3>1, <3>2 DEF SeqsUsed
  <2>11. Later'
    BY <2>2, <2>3, <2>5, <2>8 DEF ChainInv, Later
  <2>12. Chained(Visible(w) \cup {r})
    <3>1. Chained(Visible(w)) /\ LastHash(Visible(w), prev[w])
      BY <2>3 DEF ChainInv
    <3>2. \A x \in Visible(w) : x.seq \in Nat /\ x.seq < nextSeq
      BY <2>8, <2>9 DEF Visible
    <3>3. nextSeq \in Nat
      BY <1>0 DEF TypeOK
    <3> QED  BY <2>1, <3>1, <3>2, <3>3, Extended
  <2>13. \A v \in Writers : Visible(v)' = IF v = w THEN Visible(w) \cup {r} ELSE Visible(v)
    BY <2>3, <2>5 DEF Visible
  <2>14. Chained(rows)' /\ \A v \in Writers : Chained(Visible(v))'
    <3>1. Chained(rows)'
      BY <2>3 DEF ChainInv, Chained, Bad, Before, LastHash, IsLast, Digest, GENESIS
    <3>2. ASSUME NEW v \in Writers PROVE Chained(Visible(v))'
      <4>1. CASE v = w
        <5>1. Visible(v)' = Visible(w) \cup {r}
          BY <2>13, <4>1
        <5> QED  BY <2>12, <5>1 DEF Chained, Bad, Before, LastHash, IsLast, Digest, GENESIS
      <4>2. CASE v # w
        <5>1. Visible(v)' = Visible(v)
          BY <2>13, <4>2
        <5> QED  BY <5>1 DEF ChainInv, Chained, Bad, Before, LastHash, IsLast, Digest, GENESIS
      <4> QED  BY <4>1, <4>2
    <3> QED  BY <3>1, <3>2
  <2>15. ASSUME NEW v \in Writers, at'[v] = "insert" PROVE FALSE
    <3>1. v # w
      BY <1>0, <2>3, <2>15 DEF TypeOK
    <3>2. at[v] = "insert"
      BY <1>0, <2>3, <2>15, <3>1 DEF TypeOK
    <3> QED  BY <1>0, <2>6, <3>1, <3>2 DEF LockHeld
  <2> QED  BY <2>4, <2>7, <2>10, <2>11, <2>14, <2>15 DEF ChainInv
<1>5. ASSUME NEW w \in Writers, NEW S, S \in {rows, Visible(w)}, rows' = S,
             pending' = [pending EXCEPT ![w] = {}], lock' = Unlocked(w), UNCHANGED <<nextSeq, prev>>,
             at' = [at EXCEPT ![w] = "caller"]
      PROVE  ChainInv'
  <2>1. \A x \in Writers : pending'[x] = IF x = w THEN {} ELSE pending[x]
    BY <1>0, <1>5 DEF TypeOK
  <2>2. TypeOK'
    BY <1>0, <1>5 DEF TypeOK, Visible, Unlocked
  <2>3. LockHeld'
    BY <1>0, <1>5, <2>1 DEF LockHeld, TypeOK, Unlocked
  <2>4. SeqsUsed'
    BY <1>0, <1>5, <2>1 DEF ChainInv, SeqsUsed, Visible
  <2>5. \A v \in Writers \ {w} : pending[v] # {} \/ at[v] = "insert" => S = rows
    BY <1>0, <1>5 DEF LockHeld, Visible
  <2>6. Later'
    BY <1>5, <2>1, <2>5 DEF ChainInv, Later
  <2>7. Chained(S)
    BY <1>5 DEF ChainInv
  <2>8. Chained(rows)'
    BY <1>5, <2>7 DEF Chained, Bad, Before, LastHash, IsLast, Digest, GENESIS
  <2>9. ASSUME NEW v \in Writers PROVE Chained(Visible(v))'
    <3>1. CASE pending'[v] = {}
      <4>1. Visible(v)' = S
        BY <1>5, <3>1 DEF Visible
      <4> QED  BY <2>7, <4>1 DEF Chained, Bad, Before, LastHash, IsLast, Digest, GENESIS
    <3>2. CASE pending'[v] # {}
      <4>1. v # w /\ pending'[v] = pending[v]
        BY <2>1, <3>2
      <4>2. Visible(v)' = Visible(v)
        BY <1>5, <2>5, <3>2, <4>1 DEF Visible
      <4> QED  BY <4>2 DEF ChainInv, Chained, Bad, Before, LastHash, IsLast, Digest, GENESIS
    <3> QED  BY <3>1, <3>2
  <2>10. ASSUME NEW v \in Writers, at'[v] = "insert" PROVE LastHash(Visible(v), prev[v])'
    <3>1. v # w /\ at[v] = "insert"
      BY <1>0, <1>5, <2>10 DEF TypeOK
    <3>2. Visible(v)' = Visible(v) /\ prev'[v] = prev[v]
      BY <1>5, <2>1, <2>5, <3>1 DEF Visible
    <3>3. LastHash(Visible(v), prev[v])
      BY <3>1 DEF ChainInv
    <3> QED  BY <3>2, <3>3 DEF LastHash, IsLast, GENESIS
  <2> QED  BY <2>2, <2>3, <2>4, <2>6, <2>8, <2>9, <2>10 DEF ChainInv
<1>6. ASSUME NEW w \in Writers, Commit(w) PROVE ChainInv'
  <2>1. at' = [at EXCEPT ![w] = "caller"]
    BY <1>0, <1>6 DEF Commit, TypeOK
  <2>2. rows' = Visible(w)
    BY <1>6 DEF Commit, Visible
  <2> QED  BY <1>5, <1>6, <2>1, <2>2 DEF Commit
<1>7. ASSUME NEW w \in Writers, Rollback(w) PROVE ChainInv'
  BY <1>5, <1>7 DEF Rollback
<1>8. CASE UNCHANGED vars
  <2>1. TypeOK' /\ LockHeld'
    BY <1>0, <1>8 DEF vars, TypeOK, LockHeld
  <2> QED  BY <1>8, <2>1, SameRows DEF vars
<1> QED  BY <1>1, <1>2, <1>3, <1>4, <1>6, <1>7, <1>8 DEF Next

\* The invariant always holds.
LEMMA ChainHolds == Spec => []ChainInv
BY ChainInit, ChainStep, PTL DEF Spec

\* verify accepts the log after every history of concurrent appends, commits
\* and rollbacks.
THEOREM OneChain == Spec => []ChainIntact
<1>1. ChainInv => ChainIntact
  BY DEF ChainInv, Chained, ChainIntact, FirstBad
<1> QED  BY <1>1, ChainHolds, PTL

\* A row never becomes visible behind one that is visible already.
THEOREM RowsInOrder == Spec => NoLateRows
<1>1. ChainInv /\ [Next]_vars => [\A r \in rows' \ rows, x \in rows : x.seq < r.seq]_vars
  <2> SUFFICES ASSUME ChainInv, [Next]_vars PROVE \A r \in rows' \ rows, x \in rows : x.seq < r.seq
    OBVIOUS
  <2>1. rows' = rows \/ \E w \in Writers : rows' = rows \cup pending[w]
    BY DEF Next, Call, TakeLock, ReadLast, Insert, Commit, Rollback, vars
  <2> QED  BY <2>1 DEF ChainInv, Later
<1> QED  BY <1>1, ChainHolds, PTL DEF Spec, NoLateRows

-----------------------------------------------------------------------------
(* Tampering.  verify tells a changed, deleted or moved row because a hash *)
(* determines what it is a digest of, and grows along the chain.           *)

\* Places are taken once, and a hash covers all hashes of earlier places.
Ordered(S) ==
    \A r, x \in S : /\ r.seq = x.seq => r = x
                    /\ r.seq < x.seq => Len(r.hash) <= Len(x.prev_hash)

OrderedInv == Ordered(rows) /\ \A w \in Writers : Ordered(Visible(w))

\* A digest is one longer than what came before it, and is of one content.
LEMMA DigestFacts ==
    ASSUME NEW p \in Hash, NEW c \in Contents
    PROVE  /\ Digest(p, c) \in Hash /\ Len(Digest(p, c)) = Len(p) + 1 /\ Len(p) \in Nat
           /\ \A d \in Contents : Digest(p, d) = Digest(p, c) => d = c
<1>1. Len(Append(p, c)) = Len(p) + 1 /\ Append(p, c)[Len(p) + 1] = c
  BY DEF Hash
<1>2. \A d \in Contents : Append(p, d)[Len(p) + 1] = d
  BY DEF Hash
<1> QED  BY <1>1, <1>2 DEF Digest, Hash

\* A row of a chain: its hash is that of its content, one longer than its link.
LEMMA GoodRow ==
    ASSUME NEW S, S \subseteq Row, NEW r \in S, ~Bad(r, S)
    PROVE  /\ r.seq \in Nat /\ r.content \in Contents /\ r.prev_hash \in Hash
           /\ r.hash = Digest(r.prev_hash, r.content)
           /\ LastHash(Before(r, S), r.prev_hash)
           /\ Len(r.hash) = Len(r.prev_hash) + 1 /\ Len(r.prev_hash) \in Nat
<1>1. r.seq \in Nat /\ r.content \in Contents /\ r.prev_hash \in Hash
  BY DEF Row
<1>2. r.hash = Digest(r.prev_hash, r.content) /\ LastHash(Before(r, S), r.prev_hash)
  BY DEF Bad
<1> QED  BY <1>1, <1>2, DigestFacts

\* The end of an ordered chain covers every row of it.
LEMMA EndCovers ==
    ASSUME NEW S, S \subseteq Row, Chained(S), Ordered(S), NEW h, LastHash(S, h), NEW r \in S
    PROVE  Len(r.hash) <= Len(h)
<1>1. PICK l \in S : IsLast(l, S) /\ h = l.hash
  BY DEF LastHash
<1>2. r.seq <= l.seq /\ r.seq \in Nat /\ l.seq \in Nat
  BY <1>1 DEF IsLast, Row
<1>3. /\ Len(r.hash) = Len(r.prev_hash) + 1 /\ Len(r.prev_hash) \in Nat
      /\ Len(l.hash) = Len(l.prev_hash) + 1 /\ Len(l.prev_hash) \in Nat
  BY GoodRow DEF Chained
<1>4. CASE r.seq = l.seq
  BY <1>1, <1>3, <1>4 DEF Ordered
<1>5. CASE r.seq < l.seq
  BY <1>1, <1>3, <1>5 DEF Ordered
<1> QED  BY <1>2, <1>4, <1>5

\* Places are taken once, and what is stored at a place covers all before it,
\* in the log and in what each transaction sees of it.
LEMMA OrderedInit == Init => OrderedInv
BY DEF Init, OrderedInv, Ordered, Visible

LEMMA OrderedStep == ChainInv /\ OrderedInv /\ [Next]_vars => OrderedInv'
<1> SUFFICES ASSUME ChainInv, OrderedInv, [Next]_vars PROVE OrderedInv'
  OBVIOUS
<1>0. TypeOK
  BY DEF ChainInv
<1>1. ASSUME UNCHANGED <<rows, pending>> PROVE OrderedInv'
  BY <1>1 DEF OrderedInv, Ordered, Visible
<1>2. ASSUME NEW w \in Writers, Call(w) \/ TakeLock(w) \/ ReadLast(w) PROVE OrderedInv'
  BY <1>1, <1>2 DEF Call, TakeLock, ReadLast
<1>3. ASSUME NEW w \in Writers, NEW content \in Contents, Insert(w, content) PROVE OrderedInv'
  <2> DEFINE S == Visible(w)
             r == [seq |-> nextSeq, content |-> content, prev_hash |-> prev[w],
                   hash |-> Digest(prev[w], content)]
  <2>1. /\ rows' = rows /\ at[w] = "insert"
        /\ \A v \in Writers : pending'[v] = IF v = w THEN pending[w] \cup {r} ELSE pending[v]
    BY <1>0, <1>3 DEF Insert, TypeOK
  <2>2. \A v \in Writers : Visible(v)' = IF v = w THEN S \cup {r} ELSE Visible(v)
    BY <2>1 DEF Visible
  <2>3. S \subseteq Row /\ (\A x \in S : x.seq \in Nat /\ x.seq < nextSeq)
    BY <1>0 DEF Visible, TypeOK, ChainInv, SeqsUsed, Row
  <2>4. \A x \in S : Len(x.hash) <= Len(prev[w])
    <3>1. Chained(S) /\ Ordered(S) /\ LastHash(S, prev[w])
      BY <2>1 DEF ChainInv, OrderedInv
    <3> HIDE DEF S
    <3> QED  BY <2>3, <3>1, EndCovers
  <2>5. r.seq = nextSeq /\ r.prev_hash = prev[w] /\ nextSeq \in Nat
    BY <1>0 DEF TypeOK
  <2>6. Ordered(S)
    BY DEF OrderedInv
  <2> HIDE DEF S, r
  <2>7. Ordered(S \cup {r})
    BY <2>3, <2>4, <2>5, <2>6 DEF Ordered
  <2>8. Ordered(rows)' /\ \A v \in Writers : v # w => Ordered(Visible(v))'
    BY <2>1, <2>2 DEF OrderedInv, Ordered
  <2>9. Ordered(Visible(w))'
    BY <2>2, <2>7 DEF Ordered
  <2> QED  BY <2>8, <2>9 DEF OrderedInv
<1>4. ASSUME NEW w \in Writers, NEW S, S \in {rows, Visible(w)}, rows' = S,
             pending' = [pending EXCEPT ![w] = {}]
      PROVE  OrderedInv'
  <2>1. \A v \in Writers : pending'[v] = IF v = w THEN {} ELSE pending[v]
    BY <1>0, <1>4 DEF TypeOK
  <2>2. Ordered(S)
    BY <1>4 DEF OrderedInv
  <2>3. \A v \in Writers \ {w} : pending[v] # {} => S = rows
    BY <1>4 DEF ChainInv, LockHeld, Visible
  <2>4. \A v \in Writers : Visible(v)' = S \/ Visible(v)' = Visible(v)
    BY <1>4, <2>1, <2>3 DEF Visible
  <2>5. \A v \in Writers : Ordered(Visible(v))'
    BY <2>2, <2>4 DEF OrderedInv, Ordered
  <2>6. Ordered(rows)'
    BY <1>4, <2>2 DEF Ordered
  <2> QED  BY <2>5, <2>6 DEF OrderedInv
<1>5. ASSUME NEW w \in Writers, Commit(w) \/ Rollback(w) PROVE OrderedInv'
  BY <1>4, <1>5 DEF Commit, Rollback, Visible
<1> QED  BY <1>1, <1>2, <1>3, <1>5 DEF Next, vars

\* verify reports the place of a bad row that only good rows are before.
LEMMA FirstBadAt ==
    ASSUME NEW S, \A x \in S : x.seq \in Nat, NEW r \in S, Bad(r, S), r.seq # 0,
           \A x \in S : Bad(x, S) => r.seq <= x.seq
    PROVE  FirstBad(S) = r.seq
<1> DEFINE bad == {x \in S : Bad(x, S)}
           first == CHOOSE x \in bad : \A y \in bad : x.seq <= y.seq
<1>1. r \in bad /\ \A y \in bad : r.seq <= y.seq
  OBVIOUS
<1>2. first \in bad /\ \A y \in bad : first.seq <= y.seq
  BY <1>1
<1>3. first.seq = r.seq
  BY <1>1, <1>2
<1> QED  BY <1>1, <1>3 DEF FirstBad

\* Rows that keep what is before them stay good.
LEMMA GoodBefore ==
    ASSUME NEW S, NEW T, NEW x, Before(x, T) = Before(x, S), ~Bad(x, S)
    PROVE  ~Bad(x, T)
BY DEF Bad

\* The end of a log is one.
LEMMA OneEnd ==
    ASSUME NEW S, S \subseteq Row, Ordered(S), NEW g, NEW h, LastHash(S, g), LastHash(S, h)
    PROVE  g = h
<1>1. CASE S = {}
  BY <1>1 DEF LastHash
<1>2. CASE S # {}
  <2>1. PICK l \in S : IsLast(l, S) /\ g = l.hash
    BY <1>2 DEF LastHash
  <2>2. PICK m \in S : IsLast(m, S) /\ h = m.hash
    BY <1>2 DEF LastHash
  <2>3. l.seq = m.seq
    BY <2>1, <2>2 DEF IsLast, Row
  <2> QED  BY <2>1, <2>2, <2>3 DEF Ordered
<1> QED  BY <1>1, <1>2

\* A row does not fit at an earlier place than its own.
LEMMA Misplaced ==
    ASSUME NEW S, S \subseteq Row, Chained(S), Ordered(S), NEW r \in S, NEW x \in S, r.seq < x.seq
    PROVE  ~LastHash(Before(r, S), x.prev_hash)
<1> SUFFICES ASSUME LastHash(Before(r, S), x.prev_hash) PROVE FALSE
  OBVIOUS
<1>1. LastHash(Before(r, S), r.prev_hash) /\ Len(r.hash) = Len(r.prev_hash) + 1 /\ Len(r.prev_hash) \in Nat
  BY GoodRow DEF Chained
<1>2. Before(r, S) \subseteq Row /\ Ordered(Before(r, S))
  BY DEF Before, Ordered
<1>3. x.prev_hash = r.prev_hash
  BY <1>1, <1>2, OneEnd
<1>4. Len(r.hash) <= Len(x.prev_hash)
  BY DEF Ordered
<1> QED  BY <1>1, <1>3, <1>4

\* A changed row no longer has its hash.
LEMMA ChangeReported ==
    ASSUME rows \subseteq Row, Chained(rows), NEW r \in rows, NEW content \in Contents \ {r.content}
    PROVE  FirstBad(Changed(r, content)) = r.seq
<1> DEFINE c == [r EXCEPT !.content = content]
           T == (rows \ {r}) \cup {c}
<1>1. r \in Row /\ c \in Row
  BY DEF Row
<1>2. c.seq = r.seq /\ c.content = content /\ c.prev_hash = r.prev_hash /\ c.hash = r.hash
  BY <1>1 DEF Row
<1>3. r.hash = Digest(r.prev_hash, r.content) /\ r.prev_hash \in Hash /\ r.content \in Contents
  BY GoodRow DEF Chained
<1>4. r.seq \in Nat /\ r.seq # 0 /\ \A y \in rows : y.seq \in Nat
  BY DEF Row
<1> HIDE DEF c
<1>5. Bad(c, T)
  <2>1. Digest(r.prev_hash, r.content) # Digest(r.prev_hash, content)
    BY <1>3, DigestFacts
  <2> QED  BY <1>2, <1>3, <2>1 DEF Bad
<1>6. ASSUME NEW y \in T, y.seq < r.seq PROVE ~Bad(y, T)
  <2>1. y \in rows
    BY <1>2, <1>4, <1>6
  <2>2. Before(y, T) = Before(y, rows)
    BY <1>2, <1>4, <1>6, <2>1 DEF Before
  <2>3. ~Bad(y, rows)
    BY <2>1 DEF Chained
  <2> QED  BY <2>2, <2>3, GoodBefore
<1>7. \A y \in T : y.seq \in Nat
  BY <1>2, <1>4
<1>8. c \in T /\ \A y \in T : Bad(y, T) => c.seq <= y.seq
  BY <1>2, <1>4, <1>6, <1>7
<1>9. c.seq # 0
  BY <1>2, <1>4
<1>10. FirstBad(T) = c.seq
  <2> HIDE DEF T
  <2> QED  BY <1>5, <1>7, <1>8, <1>9, FirstBadAt
<1>11. Changed(r, content) = T
  BY DEF Changed, c
<1> QED  BY <1>2, <1>10, <1>11

\* Of two swapped rows, the one that moved forward does not fit.
LEMMA SwapReported ==
    ASSUME rows \subseteq Row, Chained(rows), Ordered(rows), NEW r \in rows, NEW x \in rows, r.seq < x.seq
    PROVE  FirstBad(Swapped(r, x)) = r.seq
<1> DEFINE m == [x EXCEPT !.seq = r.seq]
           n == [r EXCEPT !.seq = x.seq]
           T == (rows \ {r, x}) \cup {m, n}
<1>1. /\ m.seq = r.seq /\ m.prev_hash = x.prev_hash /\ n.seq = x.seq
      /\ r.seq \in Nat \ {0} /\ x.seq \in Nat /\ (\A y \in rows : y.seq \in Nat)
  BY DEF Row
<1>2. \A y \in rows : y.seq = r.seq => y = r
  BY DEF Ordered
<1> HIDE DEF m, n
<1>3. Before(m, T) = Before(r, rows)
  BY <1>1 DEF Before
<1>4. Bad(m, T)
  BY <1>1, <1>3, Misplaced DEF Bad
<1>5. ASSUME NEW y \in T, y.seq < r.seq PROVE ~Bad(y, T)
  <2>1. y \in rows
    BY <1>1, <1>5
  <2>2. Before(y, T) = Before(y, rows)
    BY <1>1, <1>5, <2>1 DEF Before
  <2>3. ~Bad(y, rows)
    BY <2>1 DEF Chained
  <2> QED  BY <2>2, <2>3, GoodBefore
<1>6. \A y \in T : y.seq \in Nat
  BY <1>1
<1>7. m \in T /\ m.seq # 0 /\ \A y \in T : Bad(y, T) => m.seq <= y.seq
  <2>1. m \in T
    OBVIOUS
  <2> HIDE DEF T
  <2> QED  BY <1>1, <1>5, <1>6, <2>1
<1>8. FirstBad(T) = m.seq
  <2> HIDE DEF T
  <2> QED  BY <1>4, <1>6, <1>7, FirstBadAt
<1>9. Swapped(r, x) = T
  BY DEF Swapped, m, n
<1> QED  BY <1>1, <1>8, <1>9

\* The row after a deleted one has lost the row it is linked to.
LEMMA DeletionReported ==
    ASSUME rows \subseteq Row, Chained(rows), Ordered(rows), NEW r \in rows, NEW x \in rows, r.seq < x.seq,
           \A y \in rows : ~(r.seq < y.seq /\ y.seq < x.seq)
    PROVE  FirstBad(rows \ {r}) = x.seq
<1> DEFINE T == rows \ {r}
<1>1. \A y \in rows : y.seq \in Nat \ {0}
  BY DEF Row
<1>2. \A y \in rows : y.seq = r.seq => y = r
  BY DEF Ordered
<1>3. Before(x, T) = Before(r, rows)
  BY <1>1, <1>2 DEF Before
<1>4. Bad(x, T)
  BY <1>3, Misplaced DEF Bad
<1>5. ASSUME NEW y \in T, y.seq < x.seq PROVE ~Bad(y, T)
  <2>1. y.seq < r.seq
    BY <1>1, <1>2, <1>5
  <2>2. Before(y, T) = Before(y, rows)
    BY <1>1, <2>1 DEF Before
  <2>3. ~Bad(y, rows)
    BY DEF Chained
  <2> QED  BY <2>2, <2>3, GoodBefore
<1>6. x \in T /\ \A y \in T : Bad(y, T) => x.seq <= y.seq
  <2>1. x \in T /\ x.seq \in Nat /\ \A y \in T : y.seq \in Nat
    BY <1>1
  <2> HIDE DEF T
  <2> QED  BY <1>5, <2>1
<1>7. (\A y \in T : y.seq \in Nat) /\ x.seq # 0
  BY <1>1
<1> HIDE DEF T
<1>8. FirstBad(T) = x.seq
  BY <1>4, <1>6, <1>7, FirstBadAt
<1> QED  BY <1>8 DEF T

\* Whoever changes, deletes or swaps committed rows is reported by verify, at
\* the row that shows it, however long the log is; the newest row is the only
\* one whose deletion shows nowhere.
THEOREM TamperingShows == Spec => []TamperingReported
<1>1. ChainInv /\ OrderedInv => TamperingReported
  <2> SUFFICES ASSUME ChainInv, OrderedInv PROVE TamperingReported
    OBVIOUS
  <2>1. rows \subseteq Row /\ Chained(rows) /\ Ordered(rows)
    BY DEF ChainInv, TypeOK, OrderedInv
  <2> QED  BY <2>1, ChangeReported, SwapReported, DeletionReported DEF TamperingReported
<1> QED  BY <1>1, OrderedInit, OrderedStep, ChainHolds, PTL DEF Spec

-----------------------------------------------------------------------------
(* Numbers                                                                 *)

\* A finite set of numbers has a greatest element.
LEMMA Greatest ==
  ASSUME NEW X, IsFiniteSet(X), X \subseteq Nat, X # {}
  PROVE  \E n \in X : \A m \in X : m <= n
<1> DEFINE above(n) == {m \in X : n < m}
           T == {above(n) : n \in X}
<1>1. IsWellFoundedOn(StrictSubsetOrdering(X), FiniteSubsetsOf(X))
  BY FS_StrictSubsetOrderingWellFounded
<1>2. \A n \in X : above(n) \in SUBSET X /\ IsFiniteSet(above(n))
  BY FS_Subset
<1>3. T \subseteq FiniteSubsetsOf(X) /\ T # {}
  BY <1>2 DEF FiniteSubsetsOf
<1>4. PICK t \in T : \A u \in T : <<u, t>> \notin StrictSubsetOrdering(X)
  <2> HIDE DEF T
  <2> QED BY <1>1, <1>3, WFMin
<1>5. PICK n \in X : t = above(n)
  BY <1>4
<1>6. \A m \in X : m <= n
  <2> SUFFICES ASSUME NEW m \in X, n < m PROVE FALSE
    BY <1>5
  <2>0. n \in Nat /\ m \in Nat
    OBVIOUS
  <2>1. above(m) \subseteq above(n) /\ m \in above(n) /\ m \notin above(m)
    <3>1. ASSUME NEW v \in above(m) PROVE v \in X /\ n < v
      <4>1. v \in X /\ v \in Nat /\ m < v
        OBVIOUS
      <4> QED BY <2>0, <4>1
    <3>2. above(m) \subseteq above(n)
      BY <3>1, Zenon
    <3>3. m \in above(n) /\ m \notin above(m)
      BY <2>0
    <3> QED BY <3>2, <3>3
  <2>3. above(m) \in T
    OBVIOUS
  <2>2. <<above(m), t>> \in StrictSubsetOrdering(X)
    BY <2>1, <1>2, <1>5 DEF StrictSubsetOrdering
  <2> QED BY <2>2, <2>3, <1>4
<1> QED BY <1>6

\* The top of a finite set is in it, or 0.
LEMMA TopIs ==
  ASSUME NEW S, IsFiniteSet(S), S \subseteq Nat
  PROVE  Top(S) \in S \cup {0} /\ \A x \in S : x <= Top(S)
<1>1. IsFiniteSet(S \cup {0})
  BY FS_AddElement
<1>2. \E n \in S \cup {0} : \A m \in S \cup {0} : m <= n
  <2> DEFINE X == S \cup {0}
  <2>1. X \subseteq Nat /\ X # {} /\ IsFiniteSet(X)
    BY <1>1
  <2> HIDE DEF X
  <2>2. \E n \in X : \A m \in X : m <= n
    BY <2>1, Greatest
  <2> QED BY <2>2 DEF X
<1> QED BY <1>2 DEF Top, Max

\* What a query with a limit returns comes before what it leaves out.
LEMMA FirstComeFirst ==
  ASSUME NEW S, IsFiniteSet(S), S \subseteq Nat, NEW n \in Nat,
         NEW x \in FirstOf(S, n), NEW y \in S, y < x
  PROVE  y \in FirstOf(S, n)
<1> DEFINE under(z) == {v \in S : v < z}
<1>1. under(y) \subseteq under(x)
  <2>1. x \in Nat /\ y \in Nat
    BY DEF FirstOf
  <2>2. ASSUME NEW v \in S, v < y PROVE v < x
    <3>1. v \in Nat
      OBVIOUS
    <3> QED BY <2>1, <2>2, <3>1
  <2> QED BY <2>2
<1>2. IsFiniteSet(under(x)) /\ IsFiniteSet(under(y))
  BY FS_Subset
<1>3. Cardinality(under(y)) <= Cardinality(under(x))
  BY <1>1, <1>2, FS_Subset
<1>4. Cardinality(under(x)) < n
  BY DEF FirstOf
<1>5. Cardinality(under(y)) \in Nat /\ Cardinality(under(x)) \in Nat
  BY <1>2, FS_CardinalityType
<1>6. Cardinality(under(y)) < n
  BY <1>3, <1>4, <1>5
<1> QED BY <1>6 DEF FirstOf

-----------------------------------------------------------------------------
(* The reader: the invariant                                               *)

Cursors == [audit: Nat, id: [Tables -> Nat]]
CallRow == [table: Tables, id: 1..MaxCalls, incident: Incidents]
Frame == [event: {"ready", "audit", "activity"}, seq: Nat, calls: SUBSET CallRow, cursor: Cursors]

AtMostOne(S) == \A x, y \in S : x = y

StreamTypeOK ==
    /\ calls \subseteq CallRow /\ drawn \subseteq CallRow
    /\ server \in [up: BOOLEAN, cursor: Cursors, frames: SUBSET Frame]
    /\ lastId \subseteq Cursors /\ AtMostOne(lastId)
    /\ start \subseteq Cursors /\ AtMostOne(start) /\ (start = {} <=> lastId = {})
    /\ handled \in Seq(Nat) /\ (lastId = {} => handled = <<>>)
    /\ torn \in Nat

\* An id is drawn once.
IdsApart ==
    /\ calls \cap drawn = {}
    /\ \A x, y \in calls \cup drawn : x.table = y.table /\ x.id = y.id => x = y

\* A cursor is at a row that can be seen, or before all.
Placed(c) ==
    /\ c.audit \in Seqs \cup {0}
    /\ \A t \in Tables : c.id[t] \in Ids(calls, t) \cup {0}

\* The frames of a poll: they come after the client's cursor and lead to the
\* server's.  The cursors of the activity frames are all the same.
FramesLead ==
    \A f \in server.frames :
        /\ f.event = "ready" =>
              server.frames = {f} /\ f.cursor = server.cursor /\ f.calls = {} /\ lastId \subseteq {f.cursor}
        /\ f.event = "audit" =>
              /\ f.calls = {} /\ f.seq \in Seqs /\ f.seq <= server.cursor.audit
              /\ \A c \in lastId : c.audit < f.seq /\ f.cursor = [c EXCEPT !.audit = f.seq]
              /\ f.cursor.id = server.cursor.id \/ \E g \in server.frames : g.event = "activity"
        /\ f.event = "activity" => f.cursor = server.cursor

\* Before the first frame a client has no id; a poll comes after the last one.
FramesLeft ==
    /\ ~server.up => server.frames = {}
    /\ server.up /\ lastId = {} => \E f \in server.frames : f.event = "ready"
    /\ server.up /\ server.frames = {} => lastId = {server.cursor}

\* What lies between the client's cursor and the server's is on its way.
OnItsWay ==
    server.up => \A c \in lastId :
        /\ c.audit <= server.cursor.audit
        /\ \A t \in Tables : c.id[t] <= server.cursor.id[t]
        /\ \A s \in Seqs : c.audit < s /\ s <= server.cursor.audit =>
              \E f \in server.frames : f.event = "audit" /\ f.seq = s
        /\ \A x \in calls : c.id[x.table] < x.id /\ x.id <= server.cursor.id[x.table] =>
              x \in excused \/ \E f \in server.frames : x \in f.calls

StreamInv ==
    /\ StreamTypeOK /\ IdsApart
    /\ Placed(server.cursor) /\ \A c \in lastId : Placed(c)
    /\ FramesLead /\ FramesLeft /\ OnItsWay

\* Rows the client is past and was not told of.
Missing(a, c) == {s \in Seqs : a.audit < s /\ s <= c.audit} \ Range(handled)

RowsTold ==
    /\ \A k \in DOMAIN handled : handled[k] \in Seqs
    /\ \A j, k \in DOMAIN handled : j < k => handled[j] < handled[k]
    /\ \A c \in lastId : \A k \in DOMAIN handled : handled[k] <= c.audit
    /\ \A a \in start, c \in lastId : Cardinality(Missing(a, c)) <= torn

CallsTold ==
    \A a \in start, c \in lastId, x \in calls :
        a.id[x.table] < x.id /\ x.id <= c.id[x.table] => x \in told \cup excused \cup TakenBy(lastId)

\* The rows up to the last one the page was told of
Due == {s \in Seqs : \E k \in DOMAIN handled : s <= handled[k]}

PageOK ==
    /\ fetch.at = "idle" => fetch = Idle
    /\ fetch.at \in {"idle", "asked", "answered"} /\ stale \in BOOLEAN
    /\ ~stale /\ fetch.at = "idle" => Due \subseteq page
    /\ ~stale /\ fetch.at = "answered" => Due \subseteq fetch.rows

-----------------------------------------------------------------------------
(* The reader: facts                                                       *)

LEMMA SeqsFinite ==
    ASSUME ChainInv
    PROVE  Seqs \subseteq Nat \ {0} /\ IsFiniteSet(Seqs)
<1>1. nextSeq \in Nat /\ rows \subseteq Row
  BY DEF ChainInv, TypeOK
<1>2. \A s \in Seqs : s \in Nat \ {0} /\ s <= nextSeq
  BY <1>1 DEF ChainInv, SeqsUsed, Seqs, Row
<1>3. Seqs \subseteq 0..nextSeq
  BY <1>1, <1>2
<1>4. IsFiniteSet(0..nextSeq)
  BY <1>1, FS_Interval
<1> QED BY <1>2, <1>3, <1>4, FS_Subset

LEMMA IdsFinite ==
    ASSUME NEW S, S \subseteq CallRow, NEW t
    PROVE  Ids(S, t) \subseteq Nat \ {0} /\ IsFiniteSet(Ids(S, t)) /\ \A n \in Ids(S, t) : n <= MaxCalls
<1>1. Ids(S, t) \subseteq 1..MaxCalls
  BY DEF Ids, CallRow
<1>2. IsFiniteSet(1..MaxCalls)
  BY StreamConstants, FS_Interval
<1>3. \A n \in 1..MaxCalls : n \in Nat \ {0} /\ n <= MaxCalls
  BY StreamConstants
<1> QED BY <1>1, <1>2, <1>3, FS_Subset

\* A cursor stays at its row.
LEMMA StaysPlaced ==
    ASSUME NEW c, Placed(c), Seqs \subseteq Seqs', calls \subseteq calls'
    PROVE  Placed(c)'
BY DEF Placed, Ids

\* Rows of the log appear behind those that are there.
LEMMA LogStep ==
    ASSUME ChainInv, [Next]_vars
    PROVE  Seqs \subseteq Seqs' /\ \A s \in Seqs' \ Seqs, x \in Seqs : x < s
<1>1. rows' = rows \/ \E w \in Writers : rows' = rows \cup pending[w]
  BY DEF Next, Call, TakeLock, ReadLast, Insert, Commit, Rollback, vars
<1> QED BY <1>1 DEF ChainInv, Later, Seqs

-----------------------------------------------------------------------------
(* The reader: the tables it reads                                         *)

\* A call that every cursor has before it
InFront(x) ==
    /\ server.up => server.cursor.id[x.table] < x.id
    /\ \A c \in lastId : c.id[x.table] < x.id

\* Neither a commit to the log nor one to the tables changes what the client
\* should have been told.
LEMMA RowsAppear ==
    ASSUME ChainInv, ChainInv', StreamInv, RowsTold, CallsTold,
           UNCHANGED <<server, lastId, handled, told, start, torn>>,
           calls' \subseteq CallRow, drawn' \subseteq CallRow, IdsApart',
           Seqs \subseteq Seqs', \A s \in Seqs' \ Seqs, x \in Seqs : x < s,
           calls \subseteq calls', excused \subseteq excused',
           \A x \in calls' \ calls : x \in excused' \/ InFront(x)
    PROVE  StreamInv' /\ RowsTold' /\ CallsTold'
<1>0. StreamTypeOK /\ Placed(server.cursor) /\ \A c \in lastId : Placed(c)
  BY DEF StreamInv
<1>1. StreamTypeOK'
  BY <1>0 DEF StreamTypeOK
<1>2. Placed(server.cursor)' /\ \A c \in lastId' : Placed(c)'
  BY <1>0, StaysPlaced
<1>3. FramesLead' /\ FramesLeft'
  BY DEF StreamInv, FramesLead, FramesLeft
<1>4. Seqs' \subseteq Nat \ {0} /\ Seqs \subseteq Nat \ {0}
  <2>1. Seqs \subseteq Nat \ {0}
    BY SeqsFinite
  <2>2. \A s \in Seqs' : s \in Nat \ {0}
    BY DEF ChainInv, TypeOK, Seqs, Row
  <2> QED BY <2>1, <2>2
\* What appears is behind every cursor.
<1>5. ASSUME NEW c, c \in Cursors, Placed(c), NEW s \in Seqs', s <= c.audit PROVE s \in Seqs
  BY <1>4, <1>5 DEF Placed, Cursors
<1>6. ASSUME NEW c, c \in lastId \/ (server.up /\ c = server.cursor),
             NEW x \in calls', x.id <= c.id[x.table], x \notin excused'
      PROVE  x \in calls
  <2>1. x.table \in Tables /\ x.id \in Nat
    BY StreamConstants DEF CallRow
  <2>2. c.id[x.table] \in Nat
    BY <1>0, <1>6, <2>1 DEF StreamTypeOK, Cursors
  <2>3. ~(c.id[x.table] < x.id)
    BY <1>6, <2>1, <2>2
  <2> QED BY <1>6, <2>3 DEF InFront
<1>7. server.cursor \in Cursors /\ lastId \subseteq Cursors
  BY <1>0 DEF StreamTypeOK
<1>8. OnItsWay'
  <2> SUFFICES ASSUME server.up, NEW c \in lastId
               PROVE  /\ c.audit <= server.cursor.audit
                      /\ \A t \in Tables : c.id[t] <= server.cursor.id[t]
                      /\ \A s \in Seqs' : c.audit < s /\ s <= server.cursor.audit =>
                            \E f \in server.frames : f.event = "audit" /\ f.seq = s
                      /\ \A x \in calls' : c.id[x.table] < x.id /\ x.id <= server.cursor.id[x.table] =>
                            x \in excused' \/ \E f \in server.frames : x \in f.calls
    BY DEF OnItsWay
  <2>1. OnItsWay
    BY DEF StreamInv
  <2>2. ASSUME NEW s \in Seqs', c.audit < s, s <= server.cursor.audit
        PROVE  \E f \in server.frames : f.event = "audit" /\ f.seq = s
    BY <1>0, <1>5, <1>7, <2>1, <2>2 DEF OnItsWay
  <2>3. ASSUME NEW x \in calls', c.id[x.table] < x.id, x.id <= server.cursor.id[x.table], x \notin excused'
        PROVE  \E f \in server.frames : x \in f.calls
    <3>1. x \in calls
      BY <1>6, <2>3
    <3> QED BY <2>1, <2>3, <3>1 DEF OnItsWay
  <2> QED BY <2>1, <2>2, <2>3 DEF OnItsWay
<1>9. RowsTold'
  <2>1. \A a \in start, c \in lastId : Missing(a, c)' = Missing(a, c)
    BY <1>0, <1>5, <1>7 DEF Missing
  <2> QED BY <2>1 DEF RowsTold
<1>10. CallsTold'
  <2> SUFFICES ASSUME NEW a \in start, NEW c \in lastId, NEW x \in calls',
                      a.id[x.table] < x.id, x.id <= c.id[x.table], x \notin excused'
               PROVE  x \in told \cup TakenBy(lastId)
    BY DEF CallsTold, TakenBy
  <2>1. x \in calls
    BY <1>6
  <2> QED BY <2>1 DEF CallsTold
<1> QED BY <1>1, <1>2, <1>3, <1>8, <1>9, <1>10 DEF StreamInv

-----------------------------------------------------------------------------
(* The reader: the connection                                              *)

\* The newest rows are where a first connection starts.
LEMMA LatestPlaced ==
    ASSUME ChainInv, StreamInv
    PROVE  Latest \in Cursors /\ Placed(Latest)
<1>1. Top(Seqs) \in Seqs \cup {0} /\ Top(Seqs) \in Nat
  <2>1. Seqs \subseteq Nat /\ IsFiniteSet(Seqs)
    BY SeqsFinite
  <2>2. Top(Seqs) \in Seqs \cup {0}
    BY <2>1, TopIs
  <2>3. \A s \in Seqs \cup {0} : s \in Nat
    BY <2>1
  <2> QED BY <2>2, <2>3
<1>2. ASSUME NEW t \in Tables
      PROVE  Top(Ids(calls, t)) \in Ids(calls, t) \cup {0} /\ Top(Ids(calls, t)) \in Nat
  <2>1. Ids(calls, t) \subseteq Nat /\ IsFiniteSet(Ids(calls, t))
    BY IdsFinite DEF StreamInv, StreamTypeOK
  <2>2. Top(Ids(calls, t)) \in Ids(calls, t) \cup {0}
    BY <2>1, TopIs
  <2> QED BY <2>1, <2>2
<1>3. Latest.audit = Top(Seqs) /\ Latest.id = [t \in Tables |-> Top(Ids(calls, t))]
  BY DEF Latest
<1>4. Latest \in Cursors
  BY <1>1, <1>2 DEF Latest, Cursors
<1> QED BY <1>1, <1>2, <1>3, <1>4 DEF Placed

\* Nothing was lost or told: the invariants are about the connection only.
LEMMA ConnectStep ==
    ASSUME ChainInv, StreamInv, RowsTold, CallsTold, Connect
    PROVE  StreamInv' /\ RowsTold' /\ CallsTold'
<1>0. StreamTypeOK
  BY DEF StreamInv
<1> DEFINE fromWhere == IF lastId = {} THEN {Latest} ELSE lastId
<1>1. PICK from \in fromWhere :
        server' = [up |-> TRUE, cursor |-> from,
                   frames |-> {[event |-> "ready", seq |-> 0, calls |-> {}, cursor |-> from]}]
  BY DEF Connect
<1>2. UNCHANGED <<calls, drawn, lastId, handled, told, start, torn, excused, rows>> /\ ~server.up
  BY DEF Connect, vars
<1>3. from \in Cursors /\ Placed(from) /\ lastId \subseteq {from}
  <2>1. CASE lastId = {}
    BY <2>1, LatestPlaced
  <2>2. CASE lastId # {}
    BY <1>0, <2>2 DEF StreamInv, StreamTypeOK, AtMostOne
  <2> QED BY <2>1, <2>2
<1> DEFINE ready == [event |-> "ready", seq |-> 0, calls |-> {}, cursor |-> from]
<1>4. ready \in Frame /\ ready.event = "ready" /\ ready.calls = {} /\ ready.cursor = from
  BY <1>3 DEF Frame
<1>5. server'.up = TRUE /\ server'.cursor = from /\ server'.frames = {ready}
  BY <1>1
<1>6. server' \in [up: BOOLEAN, cursor: Cursors, frames: SUBSET Frame]
  BY <1>1, <1>3, <1>4
<1> HIDE DEF ready
<1>7. StreamTypeOK' /\ IdsApart'
  BY <1>0, <1>2, <1>6 DEF StreamInv, StreamTypeOK, IdsApart
<1>8. Seqs' = Seqs
  BY <1>2 DEF Seqs
<1>9. Placed(server.cursor)' /\ \A c \in lastId' : Placed(c)'
  BY <1>2, <1>3, <1>5, <1>8, StaysPlaced
<1>10. FramesLead' /\ FramesLeft'
  BY <1>2, <1>3, <1>4, <1>5 DEF FramesLead, FramesLeft
<1>11. OnItsWay'
  <2>1. \A c \in lastId : c = from
    BY <1>3
  <2>2. from.audit \in Nat /\ \A t \in Tables : from.id[t] \in Nat
    BY <1>3 DEF Cursors
  <2>3. \A s \in Seqs : s \in Nat
    BY SeqsFinite
  <2>4. \A x \in calls : x.table \in Tables /\ x.id \in Nat
    BY <1>0, StreamConstants DEF StreamTypeOK, CallRow
  <2>5. \A s \in Seqs : ~(from.audit < s /\ s <= from.audit)
    BY <2>2, <2>3
  <2>6. \A x \in calls : ~(from.id[x.table] < x.id /\ x.id <= from.id[x.table])
    BY <2>2, <2>4
  <2> QED BY <1>2, <1>5, <1>8, <2>1, <2>2, <2>5, <2>6 DEF OnItsWay
<1>12. RowsTold'
  BY <1>2, <1>8 DEF RowsTold, Missing
<1>13. CallsTold'
  <2>1. server.frames = {}
    BY <1>2 DEF StreamInv, FramesLeft
  <2>2. TakenBy(lastId) = {}
    BY <2>1 DEF TakenBy
  <2> QED BY <1>2, <2>2 DEF CallsTold
<1> QED BY <1>7, <1>9, <1>10, <1>11, <1>12, <1>13 DEF StreamInv

\* The connection ends: what was on its way is gone.
LEMMA CloseStep ==
    ASSUME ChainInv, StreamInv, RowsTold, CallsTold, Close
    PROVE  StreamInv' /\ RowsTold' /\ CallsTold'
<1>0. StreamTypeOK
  BY DEF StreamInv
<1>1. UNCHANGED <<calls, drawn, lastId, handled, told, start, torn, excused, rows>>
  BY DEF Close, vars
<1>2. server.up /\ server.frames = {}
  BY DEF Close
<1>3. server' \in [up: BOOLEAN, cursor: Cursors, frames: SUBSET Frame]
      /\ server'.up = FALSE /\ server'.cursor = server.cursor /\ server'.frames = {}
  BY <1>0, <1>2 DEF Close, StreamTypeOK
<1>4. StreamTypeOK' /\ IdsApart'
  BY <1>0, <1>1, <1>3 DEF StreamInv, StreamTypeOK, IdsApart
<1>5. Seqs' = Seqs
  BY <1>1 DEF Seqs
<1>6. Placed(server.cursor)' /\ \A c \in lastId' : Placed(c)'
  BY <1>1, <1>3, <1>5 DEF StreamInv, Placed
<1>7. FramesLead' /\ FramesLeft' /\ OnItsWay'
  BY <1>3 DEF FramesLead, FramesLeft, OnItsWay
<1>8. RowsTold'
  BY <1>1, <1>5 DEF RowsTold, Missing
<1>9. CallsTold'
  <2>1. TakenBy(lastId) = {} /\ TakenBy(lastId)' = {}
    BY <1>2, <1>3 DEF TakenBy
  <2> QED BY <1>1, <2>1 DEF CallsTold
<1> QED BY <1>4, <1>6, <1>7, <1>8, <1>9 DEF StreamInv

-----------------------------------------------------------------------------
(* The reader: a poll                                                      *)

\* A query with a limit and the cursor after it: what lies between is found.
FindsAll(S, c, Found, after) ==
    /\ after \in Nat /\ after \in S \cup {c} /\ c <= after
    /\ \A n \in Found : n \in S /\ c < n /\ n <= after
    /\ \A n \in S : c < n /\ n <= after => n \in Found
    /\ (Found = {} => after = c)

LEMMA LimitedQuery ==
    ASSUME NEW S, IsFiniteSet(S), S \subseteq Nat, NEW c \in Nat, NEW Found,
           Found = FirstOf({n \in S : n > c}, Batch)
    PROVE  FindsAll(S, c, Found, Top({c} \cup Found))
<1> DEFINE New == {n \in S : n > c}
           after == Top({c} \cup Found)
<1>1. IsFiniteSet(New) /\ New \subseteq Nat /\ Found \subseteq New
  BY FS_Subset DEF FirstOf
<1>2. IsFiniteSet(Found)
  BY <1>1, FS_Subset
<1>3. IsFiniteSet({c} \cup Found) /\ {c} \cup Found \subseteq Nat
  <2>1. IsFiniteSet(Found \cup {c})
    BY <1>2, FS_AddElement
  <2>2. Found \cup {c} = {c} \cup Found
    OBVIOUS
  <2> QED BY <1>1, <2>1, <2>2
<1>4. after \in {c} \cup Found \cup {0} /\ \A x \in {c} \cup Found : x <= after
  BY <1>3, TopIs
<1> HIDE DEF after
<1>5. \A n \in Found : n \in S /\ n \in Nat /\ c < n
  BY <1>1
<1>6. after \in Nat
  BY <1>4, <1>5
<1>7. after \in Found \cup {c}
  BY <1>4, <1>6
<1>8. ASSUME NEW n \in S, c < n, n <= after PROVE n \in Found
  <2>1. after \in Found /\ n \in New /\ n \in Nat
    BY <1>5, <1>6, <1>7, <1>8
  <2>2. CASE n = after
    BY <2>1, <2>2
  <2>3. CASE n < after
    BY <1>1, <2>1, <2>3, StreamConstants, FirstComeFirst
  <2> QED BY <1>6, <1>8, <2>1, <2>2, <2>3
<1>9. Found = {} => after = c
  BY <1>7
<1>10. FindsAll(S, c, Found, after)
  BY <1>4, <1>5, <1>6, <1>7, <1>8, <1>9 DEF FindsAll
<1> QED BY <1>10 DEF after

\* What a poll returns is what lies between the cursor and the one after it.
LEMMA PollReturns ==
    ASSUME ChainInv, StreamInv, NEW c \in Cursors, Placed(c)
    PROVE  /\ After(c) \in Cursors /\ Placed(After(c)) /\ c.audit <= After(c).audit
           /\ \A s \in NewSeqs(c) : s \in Seqs /\ s \in Nat /\ c.audit < s /\ s <= After(c).audit
           /\ \A s \in Seqs : c.audit < s /\ s <= After(c).audit => s \in NewSeqs(c)
           /\ NewCalls(c) \subseteq calls
           /\ \A t \in Tables : c.id[t] <= After(c).id[t]
           /\ \A x \in calls : c.id[x.table] < x.id /\ x.id <= After(c).id[x.table] => x \in NewCalls(c)
           /\ (NewCalls(c) = {} => After(c).id = c.id)
<1>1. IsFiniteSet(Seqs) /\ Seqs \subseteq Nat /\ \A s \in Seqs : s \in Nat
  BY SeqsFinite
<1>2. c.audit \in Nat /\ c.id \in [Tables -> Nat]
  BY DEF Cursors
<1> DEFINE A == Top({c.audit} \cup NewSeqs(c))
           I(t) == Top({c.id[t]} \cup Ids(NewCalls(c), t))
<1>3. After(c).audit = A /\ After(c).id = [t \in Tables |-> I(t)]
  BY DEF After
<1>4. /\ A \in Nat /\ A \in Seqs \cup {c.audit} /\ c.audit <= A
      /\ \A s \in NewSeqs(c) : s \in Seqs /\ c.audit < s /\ s <= A
      /\ \A s \in Seqs : c.audit < s /\ s <= A => s \in NewSeqs(c)
  <2>1. FindsAll(Seqs, c.audit, NewSeqs(c), A)
    BY <1>1, <1>2, LimitedQuery DEF NewSeqs
  <2> QED BY <2>1 DEF FindsAll
<1> DEFINE F(t) == FirstOf({n \in Ids(calls, t) : n > c.id[t]}, Batch)
<1>5. ASSUME NEW t \in Tables
      PROVE  /\ Ids(NewCalls(c), t) = F(t)
             /\ I(t) \in Nat /\ I(t) \in Ids(calls, t) \cup {c.id[t]} /\ c.id[t] <= I(t)
             /\ \A n \in Ids(calls, t) : c.id[t] < n /\ n <= I(t) => n \in F(t)
             /\ (F(t) = {} => I(t) = c.id[t])
  <2>1. Ids(NewCalls(c), t) = F(t)
    <3>1. ASSUME NEW n \in F(t) PROVE n \in Ids(NewCalls(c), t)
      <4>1. PICK x \in calls : x.table = t /\ x.id = n
        BY DEF FirstOf, Ids
      <4> QED BY <4>1 DEF NewCalls, Ids
    <3>2. ASSUME NEW n \in Ids(NewCalls(c), t) PROVE n \in F(t)
      <4>1. PICK x \in NewCalls(c) : x.table = t /\ x.id = n
        BY DEF Ids
      <4> QED BY <4>1 DEF NewCalls
    <3> QED BY <3>1, <3>2
  <2>2. IsFiniteSet(Ids(calls, t)) /\ Ids(calls, t) \subseteq Nat
    BY IdsFinite DEF StreamInv, StreamTypeOK
  <2>3. c.id[t] \in Nat
    BY <1>2
  <2>4. PICK G : G = F(t)
    OBVIOUS
  <2>5. I(t) = Top({c.id[t]} \cup G)
    BY <2>1, <2>4
  <2> HIDE DEF I, F
  <2>6. G = FirstOf({n \in Ids(calls, t) : n > c.id[t]}, Batch)
    BY <2>4 DEF F
  <2>7. FindsAll(Ids(calls, t), c.id[t], G, I(t))
    BY <2>2, <2>3, <2>5, <2>6, LimitedQuery
  <2> QED BY <2>1, <2>2, <2>4, <2>7 DEF FindsAll
<1>6. After(c) \in Cursors
  <2>1. A \in Nat /\ [t \in Tables |-> I(t)] \in [Tables -> Nat]
    BY <1>4, <1>5
  <2>2. After(c) = [audit |-> A, id |-> [t \in Tables |-> I(t)]]
    BY DEF After
  <2> HIDE DEF A, I
  <2> QED BY <2>1, <2>2 DEF Cursors
<1>7. Placed(After(c))
  <2> HIDE DEF A, I, F
  <2>1. A \in Seqs \cup {0}
    BY <1>4 DEF Placed
  <2>2. ASSUME NEW t \in Tables PROVE I(t) \in Ids(calls, t) \cup {0}
    <3>1. c.id[t] \in Ids(calls, t) \cup {0}
      BY DEF Placed
    <3> QED BY <1>5, <3>1
  <2> QED BY <1>3, <2>1, <2>2 DEF Placed
<1>8. \A t \in Tables : c.id[t] <= After(c).id[t]
  <2> HIDE DEF A, I, F
  <2> QED BY <1>3, <1>5
<1>9. NewCalls(c) \subseteq calls
  BY DEF NewCalls
<1>10. ASSUME NEW x \in calls, c.id[x.table] < x.id, x.id <= After(c).id[x.table] PROVE x \in NewCalls(c)
  <2>1. x.table \in Tables
    BY DEF StreamInv, StreamTypeOK, CallRow
  <2>2. x.id \in Ids(calls, x.table)
    BY DEF Ids
  <2>3. After(c).id[x.table] = I(x.table)
    BY <1>3, <2>1
  <2> HIDE DEF A, I
  <2>4. x.id \in F(x.table)
    BY <1>5, <1>10, <2>1, <2>2, <2>3
  <2> QED BY <2>4 DEF NewCalls
<1>11. ASSUME NewCalls(c) = {} PROVE After(c).id = c.id
  <2>1. \A t \in Tables : Ids(NewCalls(c), t) = {}
    BY <1>11 DEF Ids
  <2> HIDE DEF A, I, F
  <2>2. \A t \in Tables : I(t) = c.id[t]
    BY <1>5, <2>1
  <2> QED BY <1>2, <1>3, <2>2
<1> HIDE DEF A, I, F
<1>12. \A s \in NewSeqs(c) : s \in Nat
  BY <1>1, <1>4
<1> QED BY <1>3, <1>4, <1>6, <1>7, <1>8, <1>9, <1>10, <1>11, <1>12

LEMMA PollStep ==
    ASSUME ChainInv, StreamInv, RowsTold, CallsTold, Poll
    PROVE  StreamInv' /\ RowsTold' /\ CallsTold'
<1>0. StreamTypeOK
  BY DEF StreamInv
<1>c. PICK c : c = server.cursor
  OBVIOUS
<1>1. UNCHANGED <<calls, drawn, lastId, handled, told, start, torn, excused, rows>>
  BY DEF Poll, vars
<1>2. server.up /\ server.frames = {} /\ changes(c) # {}
  BY <1>c DEF Poll
<1>3. c \in Cursors /\ Placed(c) /\ lastId = {c}
  BY <1>0, <1>c, <1>2 DEF StreamInv, StreamTypeOK, FramesLeft
<1>4. server' = [server EXCEPT !.frames = changes(c), !.cursor = After(c)]
  BY <1>c DEF Poll
<1>5. server'.up = server.up /\ server'.cursor = After(c) /\ server'.frames = changes(c)
  BY <1>0, <1>4 DEF StreamTypeOK
<1>6. /\ After(c) \in Cursors /\ Placed(After(c)) /\ c.audit <= After(c).audit
      /\ \A s \in NewSeqs(c) : s \in Seqs /\ s \in Nat /\ c.audit < s /\ s <= After(c).audit
      /\ \A s \in Seqs : c.audit < s /\ s <= After(c).audit => s \in NewSeqs(c)
      /\ NewCalls(c) \subseteq calls
      /\ \A t \in Tables : c.id[t] <= After(c).id[t]
      /\ \A x \in calls : c.id[x.table] < x.id /\ x.id <= After(c).id[x.table] => x \in NewCalls(c)
      /\ (NewCalls(c) = {} => After(c).id = c.id)
  BY <1>3, PollReturns
<1>7. ASSUME NEW s \in NewSeqs(c)
      PROVE  LET f == AuditFrame(c, s) IN
             f \in Frame /\ f.event = "audit" /\ f.seq = s /\ f.calls = {} /\ f.cursor = [c EXCEPT !.audit = s]
  <2>1. s \in Nat /\ [c EXCEPT !.audit = s] \in Cursors
    BY <1>3, <1>6 DEF Cursors
  <2> QED BY <2>1 DEF AuditFrame, Frame
<1>8. ASSUME NEW x \in NewCalls(c)
      PROVE  LET f == ActivityFrame(c, x.incident) IN
             f \in Frame /\ f.event = "activity" /\ x \in f.calls /\ f.cursor = After(c)
  <2>1. {y \in NewCalls(c) : y.incident = x.incident} \subseteq CallRow
    BY <1>0, <1>6 DEF StreamTypeOK
  <2> QED BY <1>6, <2>1 DEF ActivityFrame, Frame
<1>9. \A f \in changes(c) : (\E s \in NewSeqs(c) : f = AuditFrame(c, s)) \/ (\E x \in NewCalls(c) : f = ActivityFrame(c, x.incident))
  BY DEF changes
<1>10. /\ \A s \in NewSeqs(c) : AuditFrame(c, s) \in changes(c)
       /\ \A x \in NewCalls(c) : ActivityFrame(c, x.incident) \in changes(c)
  BY DEF changes
<1>11. changes(c) \subseteq Frame
  <2>1. ASSUME NEW f \in changes(c) PROVE f \in Frame
    <3>1. CASE \E s \in NewSeqs(c) : f = AuditFrame(c, s)
      BY <1>7, <3>1
    <3>2. CASE \E x \in NewCalls(c) : f = ActivityFrame(c, x.incident)
      BY <1>8, <3>2
    <3> QED BY <1>9, <3>1, <3>2
  <2> QED BY <2>1
<1>12. StreamTypeOK' /\ IdsApart'
  <2>1. server' \in [up: BOOLEAN, cursor: Cursors, frames: SUBSET Frame]
    BY <1>0, <1>4, <1>6, <1>11 DEF StreamTypeOK
  <2> QED BY <1>0, <1>1, <2>1 DEF StreamInv, StreamTypeOK, IdsApart
<1>13. Seqs' = Seqs
  BY <1>1 DEF Seqs
<1>14. Placed(server.cursor)' /\ \A d \in lastId' : Placed(d)'
  <2>1. PICK d : d = After(c)
    OBVIOUS
  <2>2. Placed(d)' /\ Placed(c)'
    BY <1>1, <1>3, <1>6, <1>13, <2>1, StaysPlaced
  <2>3. server'.cursor = d /\ lastId' = {c}
    BY <1>1, <1>3, <1>5, <2>1
  <2> QED BY <2>2, <2>3
<1>15. FramesLead'
  <2>1. ASSUME NEW s \in NewSeqs(c), NEW f, f = AuditFrame(c, s)
        PROVE  /\ f.event = "audit" /\ f.calls = {} /\ f.seq \in Seqs' /\ f.seq <= server'.cursor.audit
               /\ \A d \in lastId' : d.audit < f.seq /\ f.cursor = [d EXCEPT !.audit = f.seq]
               /\ f.cursor.id = server'.cursor.id \/ \E g \in server'.frames : g.event = "activity"
    <3>1. f.event = "audit" /\ f.seq = s /\ f.calls = {} /\ f.cursor = [c EXCEPT !.audit = s]
      BY <1>7, <2>1
    <3>2. f.cursor.id = c.id
      BY <1>3, <3>1 DEF Cursors
    <3>3. CASE NewCalls(c) = {}
      BY <1>1, <1>3, <1>5, <1>6, <1>13, <3>1, <3>2, <3>3
    <3>4. CASE NewCalls(c) # {}
      <4>1. PICK x \in NewCalls(c) : TRUE
        BY <3>4
      <4>2. \E g \in server'.frames : g.event = "activity"
        BY <1>5, <1>8, <1>10, <4>1
      <4> QED BY <1>1, <1>3, <1>5, <1>6, <1>13, <3>1, <4>2
    <3> QED BY <3>3, <3>4
  <2>2. ASSUME NEW x \in NewCalls(c), NEW f, f = ActivityFrame(c, x.incident)
        PROVE  f.event = "activity" /\ f.cursor = server'.cursor
    BY <1>5, <1>8, <2>2
  <2> QED BY <1>5, <1>9, <2>1, <2>2 DEF FramesLead
<1>16. FramesLeft'
  BY <1>1, <1>2, <1>3, <1>5 DEF FramesLeft
<1>17. OnItsWay'
  <2>1. ASSUME NEW s \in Seqs, c.audit < s, s <= After(c).audit
        PROVE  \E f \in server'.frames : f.event = "audit" /\ f.seq = s
    <3>1. s \in NewSeqs(c)
      BY <1>6, <2>1
    <3> QED BY <1>5, <1>7, <1>10, <3>1
  <2>2. ASSUME NEW x \in calls, c.id[x.table] < x.id, x.id <= After(c).id[x.table]
        PROVE  \E f \in server'.frames : x \in f.calls
    BY <1>5, <1>6, <1>8, <1>10, <2>2
  <2> QED BY <1>1, <1>3, <1>5, <1>6, <1>13, <2>1, <2>2 DEF OnItsWay
<1>18. RowsTold'
  BY <1>1, <1>13 DEF RowsTold, Missing
<1>19. CallsTold'
  <2>1. TakenBy(lastId) = {}
    BY <1>2 DEF TakenBy
  <2> QED BY <1>1, <2>1 DEF CallsTold
<1> QED BY <1>12, <1>14, <1>15, <1>16, <1>17, <1>18, <1>19 DEF StreamInv

-----------------------------------------------------------------------------
(* The reader: the next frame                                              *)

\* The row a frame tells the client of.
RowOf(f) == IF f.event = "audit" THEN {f.seq} ELSE {}

\* A client that goes on from a frame's cursor, told of it or not.
GoesOnFrom(f) ==
    \A a \in IF start = {} THEN {f.cursor} ELSE start :
        /\ Cardinality(Missing(a, f.cursor) \ RowOf(f)) <= torn
        /\ \A x \in calls : a.id[x.table] < x.id /\ x.id <= f.cursor.id[x.table] =>
              x \in told \cup excused \cup TakenBy({f.cursor})

\* Frames of one event, row, calls and cursor are one.
LEMMA SameFrame ==
    ASSUME NEW f \in Frame, NEW g \in Frame, f.event = g.event, f.seq = g.seq, f.calls = g.calls, f.cursor = g.cursor
    PROVE  f = g
<1>1. f = [event |-> f.event, seq |-> f.seq, calls |-> f.calls, cursor |-> f.cursor]
  BY DEF Frame
<1>2. g = [event |-> g.event, seq |-> g.seq, calls |-> g.calls, cursor |-> g.cursor]
  BY DEF Frame
<1> QED BY <1>1, <1>2

\* A client without an id gets the ready frame first; the frame of a row comes
\* before those of the rows after it; an activity frame comes after all rows.
LEMMA NextIs ==
    ASSUME ChainInv, StreamInv, NEW f \in Upcoming
    PROVE  /\ server.up /\ f \in server.frames /\ f \in Frame
           /\ f.event # "ready" => \E c \in lastId : lastId = {c} /\ c \in Cursors /\ Placed(c)
           /\ f.event = "audit" => \A g \in server.frames :
                 /\ g.event # "ready"
                 /\ g.event = "audit" => g = f \/ f.seq < g.seq
           /\ f.event = "activity" => \A g \in server.frames : g.event = "activity"
<1>0. StreamTypeOK /\ FramesLead /\ FramesLeft
  BY DEF StreamInv
<1>1. f \in server.frames /\ \A g \in server.frames : ~Ahead(g, f)
  BY DEF Upcoming
<1>2. server.frames \subseteq Frame /\ server.up \in BOOLEAN
  BY <1>0 DEF StreamTypeOK
<1>3. server.up /\ f \in Frame
  BY <1>0, <1>1, <1>2 DEF FramesLeft
<1>4. ASSUME f.event # "ready" PROVE \E c \in lastId : lastId = {c} /\ c \in Cursors /\ Placed(c)
  <2>1. lastId # {}
    BY <1>0, <1>1, <1>3, <1>4 DEF FramesLead, FramesLeft
  <2>2. PICK c \in lastId : TRUE
    BY <2>1
  <2>3. lastId = {c}
    BY <1>0, <2>2 DEF StreamTypeOK, AtMostOne
  <2> QED BY <1>0, <2>2, <2>3 DEF StreamInv, StreamTypeOK
<1>5. ASSUME f.event = "audit", NEW g \in server.frames
      PROVE  g.event # "ready" /\ (g.event = "audit" => g = f \/ f.seq < g.seq)
  <2>1. g.event # "ready"
    BY <1>0, <1>1, <1>5 DEF FramesLead
  <2>2. ASSUME g.event = "audit", ~(f.seq < g.seq) PROVE g = f
    <3>1. f.seq \in Nat /\ g.seq \in Nat /\ g \in Frame
      BY <1>2, <1>3 DEF Frame
    <3>2. f.seq = g.seq
      BY <1>1, <1>5, <2>2, <3>1 DEF Ahead
    <3>3. PICK c \in lastId : TRUE
      BY <1>4, <1>5
    <3>4. f.cursor = [c EXCEPT !.audit = f.seq] /\ g.cursor = [c EXCEPT !.audit = g.seq] /\ f.calls = {} /\ g.calls = {}
      BY <1>0, <1>1, <1>5, <2>2 DEF FramesLead
    <3> QED BY <1>3, <1>5, <2>2, <3>1, <3>2, <3>4, SameFrame
  <2> QED BY <2>1, <2>2
<1>6. ASSUME f.event = "activity", NEW g \in server.frames PROVE g.event = "activity"
  <2>1. g.event # "ready"
    BY <1>0, <1>1, <1>6 DEF FramesLead
  <2>2. g.event # "audit"
    BY <1>1, <1>6 DEF Ahead
  <2> QED BY <1>2, <2>1, <2>2 DEF Frame
<1> QED BY <1>1, <1>3, <1>4, <1>5, <1>6

\* Where the next frame takes the client.
LEMMA FrameLeads ==
    ASSUME ChainInv, StreamInv, RowsTold, CallsTold, NEW f \in Upcoming
    PROVE  /\ f.cursor \in Cursors /\ Placed(f.cursor)
           /\ f.event = "audit" => f.seq \in Seqs /\ f.seq = f.cursor.audit /\ \A k \in DOMAIN handled : handled[k] < f.seq
           /\ \A k \in DOMAIN handled : handled[k] <= f.cursor.audit
           /\ GoesOnFrom(f)
<1>0. StreamTypeOK /\ FramesLead /\ FramesLeft /\ OnItsWay /\ Placed(server.cursor)
  BY DEF StreamInv
<1>1. server.up /\ f \in server.frames /\ f \in Frame
  BY NextIs
<1>2. server.cursor \in Cursors /\ f.cursor \in Cursors /\ f.event \in {"ready", "audit", "activity"}
  BY <1>0, <1>1 DEF StreamTypeOK, Frame
<1>3. \A c \in Cursors : c.audit \in Nat /\ \A t \in Tables : c.id[t] \in Nat
  BY DEF Cursors
<1>4. \A x \in calls : x.table \in Tables /\ x.id \in Nat
  BY <1>0, StreamConstants DEF StreamTypeOK, CallRow
<1>5. \A k \in DOMAIN handled : handled[k] \in Nat
  BY <1>0 DEF StreamTypeOK
<1>6. IsFiniteSet(Seqs) /\ \A s \in Seqs : s \in Nat
  BY SeqsFinite
<1>7. \A a, c : IsFiniteSet(Missing(a, c)) /\ Missing(a, c) \subseteq Seqs
  BY <1>6, FS_Subset DEF Missing
<1>f. \A c : Missing(c, c) = {} \/ c \notin Cursors
  BY <1>3, <1>6 DEF Missing
<1>8. CASE f.event = "ready"
  <2>1. server.frames = {f} /\ f.cursor = server.cursor /\ lastId \subseteq {f.cursor}
    BY <1>0, <1>1, <1>8 DEF FramesLead
  <2>2. RowOf(f) = {}
    BY <1>8 DEF RowOf
  <2>3. CASE lastId = {}
    <3>1. handled = <<>> /\ start = {}
      BY <1>0, <2>3 DEF StreamTypeOK
    <3>2. Missing(f.cursor, f.cursor) \ RowOf(f) = {}
      BY <1>2, <1>f
    <3>3. Cardinality(Missing(f.cursor, f.cursor) \ RowOf(f)) <= torn
      <4>1. Cardinality(Missing(f.cursor, f.cursor) \ RowOf(f)) = 0
        BY <3>2, FS_EmptySet, Zenon
      <4>2. torn \in Nat
        BY <1>0 DEF StreamTypeOK
      <4> QED BY <4>1, <4>2
    <3>4. \A x \in calls : ~(f.cursor.id[x.table] < x.id /\ x.id <= f.cursor.id[x.table])
      BY <1>2, <1>3, <1>4
    <3>5. GoesOnFrom(f)
      BY <3>1, <3>3, <3>4 DEF GoesOnFrom
    <3> QED BY <1>0, <1>2, <1>8, <2>1, <3>1, <3>5
  <2>4. CASE lastId # {}
    <3>1. lastId = {f.cursor} /\ start # {}
      BY <1>0, <2>1, <2>4 DEF StreamTypeOK
    <3>2. \A a : Missing(a, f.cursor) \ RowOf(f) = Missing(a, f.cursor)
      BY <2>2
    <3>3. GoesOnFrom(f)
      BY <3>1, <3>2 DEF GoesOnFrom, RowsTold, CallsTold
    <3> QED BY <1>0, <1>2, <1>8, <2>1, <3>1, <3>3 DEF RowsTold
  <2> QED BY <2>3, <2>4
<1>9. ASSUME f.event # "ready"
      PROVE  \E c \in lastId : /\ lastId = {c} /\ c \in Cursors /\ Placed(c) /\ start # {}
                               /\ \A k \in DOMAIN handled : handled[k] <= c.audit
                               /\ c.audit <= server.cursor.audit
  BY <1>0, <1>1, <1>9, NextIs DEF StreamTypeOK, RowsTold, OnItsWay
\* A set of rows that is missing no more than before is small enough.
<1>10. ASSUME NEW a \in start, NEW c \in lastId, NEW M, M \subseteq Missing(a, c) PROVE Cardinality(M) <= torn
  <2>1. Cardinality(M) <= Cardinality(Missing(a, c)) /\ IsFiniteSet(M)
    BY <1>7, <1>10, FS_Subset
  <2>2. Cardinality(M) \in Nat /\ Cardinality(Missing(a, c)) \in Nat
    BY <1>7, <2>1, FS_CardinalityType
  <2>3. Cardinality(Missing(a, c)) <= torn /\ torn \in Nat
    BY <1>0 DEF RowsTold, StreamTypeOK
  <2> QED BY <2>1, <2>2, <2>3
<1>11. CASE f.event = "audit"
  <2>1. PICK c \in lastId : /\ lastId = {c} /\ c \in Cursors /\ Placed(c) /\ start # {}
                            /\ \A k \in DOMAIN handled : handled[k] <= c.audit
    BY <1>9, <1>11
  <2>2. f.seq \in Seqs /\ f.seq <= server.cursor.audit /\ c.audit < f.seq /\ f.cursor = [c EXCEPT !.audit = f.seq]
    BY <1>0, <1>1, <1>11 DEF FramesLead
  <2>3. f.cursor.audit = f.seq /\ f.cursor.id = c.id
    BY <2>1, <2>2 DEF Cursors
  <2>4. f.seq \in Nat /\ c.audit \in Nat /\ server.cursor.audit \in Nat
    BY <1>2, <1>3, <1>6, <2>1, <2>2
  <2>5. Placed(f.cursor)
    BY <2>1, <2>2, <2>3 DEF Placed
  <2>6. \A k \in DOMAIN handled : handled[k] < f.seq
    BY <1>5, <2>1, <2>2, <2>4
  <2>7. ASSUME NEW a \in start PROVE Cardinality(Missing(a, f.cursor) \ RowOf(f)) <= torn
    <3>1. ASSUME NEW s \in Missing(a, f.cursor) \ RowOf(f) PROVE s \in Missing(a, c)
      <4>1. s \in Seqs /\ s \in Nat /\ a.audit < s /\ s <= f.seq /\ s # f.seq /\ s \notin Range(handled)
        BY <1>6, <1>11, <2>3 DEF Missing, RowOf
      <4>2. CASE s <= c.audit
        BY <4>1, <4>2 DEF Missing
      <4>3. CASE c.audit < s
        <5>1. s <= server.cursor.audit
          BY <2>2, <2>4, <4>1
        <5>2. PICK g \in server.frames : g.event = "audit" /\ g.seq = s
          BY <1>0, <1>1, <4>1, <4>3, <5>1 DEF OnItsWay
        <5>3. g = f \/ f.seq < g.seq
          BY <1>11, <5>2, NextIs
        <5> QED BY <2>4, <4>1, <5>2, <5>3
      <4> QED BY <2>4, <4>1, <4>2, <4>3
    <3> QED BY <1>10, <3>1
  <2>8. ASSUME NEW a \in start, NEW x \in calls, a.id[x.table] < x.id, x.id <= f.cursor.id[x.table]
        PROVE  x \in told \cup excused
    <3>1. x \in told \cup excused \cup TakenBy(lastId)
      BY <2>3, <2>8 DEF CallsTold
    <3>2. ASSUME NEW g \in server.frames, g.cursor \in lastId PROVE g.calls = {}
      <4>1. g.event = "activity" => g.cursor = server.cursor
        BY <1>0 DEF FramesLead
      <4>2. g.event # "activity"
        BY <2>1, <2>2, <2>4, <3>2, <4>1
      <4>3. g.event \in {"ready", "audit", "activity"}
        BY <1>0 DEF StreamTypeOK, Frame
      <4> QED BY <1>0, <4>2, <4>3 DEF FramesLead
    <3>3. TakenBy(lastId) = {}
      BY <3>2 DEF TakenBy
    <3> QED BY <3>1, <3>3
  <2>9. GoesOnFrom(f)
    BY <2>1, <2>7, <2>8 DEF GoesOnFrom
  <2>10. \A k \in DOMAIN handled : handled[k] <= f.cursor.audit
    BY <1>5, <2>3, <2>4, <2>6
  <2> QED BY <1>2, <2>2, <2>3, <2>5, <2>6, <2>9, <2>10
<1>12. CASE f.event = "activity"
  <2>1. PICK c \in lastId : /\ lastId = {c} /\ c \in Cursors /\ Placed(c) /\ start # {}
                            /\ \A k \in DOMAIN handled : handled[k] <= c.audit
                            /\ c.audit <= server.cursor.audit
    BY <1>9, <1>12
  <2>2. f.cursor = server.cursor /\ \A g \in server.frames : g.event = "activity" /\ g.cursor = server.cursor
    BY <1>0, <1>1, <1>12, NextIs DEF FramesLead
  <2>3. c.audit \in Nat /\ server.cursor.audit \in Nat
    BY <1>2, <1>3, <2>1
  <2>4. ASSUME NEW a \in start PROVE Cardinality(Missing(a, f.cursor) \ RowOf(f)) <= torn
    <3>1. ASSUME NEW s \in Missing(a, f.cursor) PROVE s \in Missing(a, c)
      <4>1. s \in Seqs /\ s \in Nat /\ a.audit < s /\ s <= server.cursor.audit /\ s \notin Range(handled)
        BY <1>6, <2>2 DEF Missing
      <4>2. s <= c.audit
        BY <1>0, <1>1, <2>2, <2>3, <4>1 DEF OnItsWay
      <4> QED BY <4>1, <4>2 DEF Missing
    <3> QED BY <1>10, <3>1
  <2>5. ASSUME NEW a \in start, NEW x \in calls, a.id[x.table] < x.id, x.id <= f.cursor.id[x.table]
        PROVE  x \in told \cup excused \cup TakenBy({f.cursor})
    <3>1. ASSUME NEW g \in server.frames, x \in g.calls PROVE x \in TakenBy({f.cursor})
      BY <2>2, <3>1 DEF TakenBy
    <3>2. CASE x.id <= c.id[x.table]
      <4>1. x \in told \cup excused \cup TakenBy(lastId)
        BY <2>5, <3>2 DEF CallsTold
      <4>2. x \in TakenBy(lastId) => \E g \in server.frames : x \in g.calls
        BY DEF TakenBy
      <4> QED BY <3>1, <4>1, <4>2
    <3>3. CASE c.id[x.table] < x.id
      <4>1. x \in excused \/ \E g \in server.frames : x \in g.calls
        BY <1>0, <1>1, <2>2, <2>5, <3>3 DEF OnItsWay
      <4> QED BY <3>1, <4>1
    <3>4. c.id[x.table] \in Nat /\ x.id \in Nat
      BY <1>3, <1>4, <2>1
    <3> QED BY <3>2, <3>3, <3>4
  <2>6. GoesOnFrom(f)
    BY <2>1, <2>4, <2>5 DEF GoesOnFrom
  <2>7. \A k \in DOMAIN handled : handled[k] <= f.cursor.audit
    BY <1>5, <2>1, <2>2, <2>3
  <2> QED BY <1>0, <1>2, <1>12, <2>2, <2>6, <2>7
<1> QED BY <1>2, <1>8, <1>11, <1>12

-----------------------------------------------------------------------------
(* The reader: what the client does                                        *)

\* A frame arrives whole.
LEMMA DeliverStep ==
    ASSUME ChainInv, StreamInv, RowsTold, CallsTold, NEW f \in server.frames, Deliver(f)
    PROVE  StreamInv' /\ RowsTold' /\ CallsTold'
<1>0. StreamTypeOK /\ FramesLead /\ FramesLeft /\ OnItsWay /\ Placed(server.cursor)
  BY DEF StreamInv
<1>1. f \in Upcoming /\ UNCHANGED <<calls, drawn, torn, excused, rows>>
  BY DEF Deliver, vars
<1>2. /\ server.up /\ f \in Frame
      /\ f.event # "ready" => \E c \in lastId : lastId = {c} /\ c \in Cursors /\ Placed(c)
      /\ f.event = "audit" => \A g \in server.frames :
            /\ g.event # "ready"
            /\ g.event = "audit" => g = f \/ f.seq < g.seq
      /\ f.event = "activity" => \A g \in server.frames : g.event = "activity"
  BY <1>1, NextIs
<1>3. /\ f.cursor \in Cursors /\ Placed(f.cursor)
      /\ f.event = "audit" => f.seq \in Seqs /\ f.seq = f.cursor.audit /\ \A k \in DOMAIN handled : handled[k] < f.seq
      /\ \A k \in DOMAIN handled : handled[k] <= f.cursor.audit
      /\ GoesOnFrom(f)
  BY <1>1, FrameLeads
<1>4. server' \in [up: BOOLEAN, cursor: Cursors, frames: SUBSET Frame]
      /\ server'.up = server.up /\ server'.cursor = server.cursor /\ server'.frames = server.frames \ {f}
  BY <1>0 DEF Deliver, StreamTypeOK
<1>5. lastId' = {f.cursor} /\ start' = (IF start = {} THEN {f.cursor} ELSE start) /\ told' = told \cup f.calls
  BY DEF Deliver
<1>6. handled' = IF f.event = "audit" THEN Append(handled, f.seq) ELSE handled
  BY DEF Deliver
<1>7. Seqs' = Seqs /\ \A s \in Seqs : s \in Nat
  BY <1>1, SeqsFinite DEF Seqs
<1>8. \A c \in Cursors : c.audit \in Nat /\ c.id \in [Tables -> Nat] /\ c = [audit |-> c.audit, id |-> c.id]
  BY DEF Cursors
<1>9. server.cursor \in Cursors /\ f.seq \in Nat /\ handled \in Seq(Nat)
      /\ \A g \in server.frames : g.event \in {"ready", "audit", "activity"}
  BY <1>0, <1>2 DEF StreamTypeOK, Frame
<1>10. StreamTypeOK'
  <2>1. handled' \in Seq(Nat)
    BY <1>6, <1>9
  <2>2. start' \subseteq Cursors /\ AtMostOne(start') /\ start' # {}
    BY <1>0, <1>3, <1>5 DEF StreamTypeOK, AtMostOne
  <2>3. lastId' \subseteq Cursors /\ AtMostOne(lastId') /\ lastId' # {}
    BY <1>3, <1>5 DEF AtMostOne
  <2> QED BY <1>0, <1>1, <1>4, <2>1, <2>2, <2>3 DEF StreamTypeOK
<1>11. IdsApart'
  BY <1>1 DEF StreamInv, IdsApart
<1>12. Placed(server.cursor)' /\ \A c \in lastId' : Placed(c)'
  <2>1. \A c : Placed(c) => Placed(c)'
    BY <1>1, <1>7, StaysPlaced
  <2> QED BY <1>0, <1>3, <1>4, <1>5, <2>1
<1>13. ASSUME f.event # "audit" PROVE FramesLead' /\ FramesLeft' /\ OnItsWay'
  <2>1. f.cursor = server.cursor /\ \A g \in server'.frames : g.event = "activity" /\ g.cursor = server.cursor
    <3>1. CASE f.event = "ready"
      BY <1>0, <1>4, <3>1 DEF FramesLead
    <3>2. CASE f.event = "activity"
      BY <1>0, <1>2, <1>4, <3>2 DEF FramesLead
    <3> QED BY <1>9, <1>13, <3>1, <3>2
  <2>2. FramesLead'
    BY <1>4, <2>1 DEF FramesLead
  <2>3. FramesLeft'
    BY <1>2, <1>4, <1>5, <2>1 DEF FramesLeft
  <2>4. \A s \in Seqs : ~(server.cursor.audit < s /\ s <= server.cursor.audit)
    BY <1>7, <1>8, <1>9
  <2>5. ASSUME NEW x \in calls
        PROVE  ~(server.cursor.id[x.table] < x.id /\ x.id <= server.cursor.id[x.table])
    <3>1. x.table \in Tables /\ x.id \in Nat
      BY <1>0, StreamConstants DEF StreamTypeOK, CallRow
    <3>2. server.cursor.id[x.table] \in Nat
      BY <1>8, <1>9, <3>1
    <3> QED BY <3>1, <3>2
  <2>6. server.cursor.audit \in Nat /\ \A t \in Tables : server.cursor.id[t] \in Nat
    BY <1>8, <1>9
  <2>7. lastId' = {server.cursor} /\ calls' = calls
    BY <1>1, <1>5, <2>1
  <2>8. OnItsWay'
    BY <1>4, <1>7, <2>4, <2>5, <2>6, <2>7 DEF OnItsWay
  <2> QED BY <2>2, <2>3, <2>8
<1>14. ASSUME f.event = "audit" PROVE FramesLead' /\ FramesLeft' /\ OnItsWay'
  <2>1. PICK c \in lastId : lastId = {c} /\ c \in Cursors
    BY <1>2, <1>14
  <2>2. /\ f.calls = {} /\ f.seq \in Seqs /\ f.seq <= server.cursor.audit /\ c.audit < f.seq
        /\ f.cursor = [c EXCEPT !.audit = f.seq]
        /\ f.cursor.id = server.cursor.id \/ \E g \in server.frames : g.event = "activity"
    BY <1>0, <1>14, <2>1 DEF FramesLead
  <2>3. f.cursor.audit = f.seq /\ f.cursor.id = c.id
    BY <2>1, <2>2 DEF Cursors
  <2>4. c.audit \in Nat /\ f.seq \in Nat /\ server.cursor.audit \in Nat
    BY <1>8, <1>9, <2>1
  <2>5. FramesLead'
    <3> SUFFICES ASSUME NEW g \in server'.frames
        PROVE  /\ g.event # "ready"
               /\ g.event = "audit" =>
                     /\ g.calls = {} /\ g.seq \in Seqs /\ g.seq <= server.cursor.audit
                     /\ f.cursor.audit < g.seq /\ g.cursor = [f.cursor EXCEPT !.audit = g.seq]
                     /\ g.cursor.id = server.cursor.id \/ \E h \in server'.frames : h.event = "activity"
               /\ g.event = "activity" => g.cursor = server.cursor
      BY <1>4, <1>5, <1>7 DEF FramesLead
    <3>1. g \in server.frames /\ g # f
      BY <1>4
    <3>2. g.event # "ready" /\ (g.event = "audit" => f.seq < g.seq)
      BY <1>2, <1>14, <3>1
    <3>3. ASSUME g.event = "audit"
          PROVE  /\ g.calls = {} /\ g.seq \in Seqs /\ g.seq <= server.cursor.audit
                 /\ g.cursor = [c EXCEPT !.audit = g.seq]
                 /\ g.cursor.id = server.cursor.id \/ \E h \in server'.frames : h.event = "activity"
      <4>1. ASSUME NEW h \in server.frames, h.event = "activity" PROVE h \in server'.frames
        BY <1>4, <1>14, <4>1
      <4> QED BY <1>0, <2>1, <3>1, <3>3, <4>1 DEF FramesLead
    <3>4. [f.cursor EXCEPT !.audit = g.seq] = [c EXCEPT !.audit = g.seq]
      BY <2>1, <2>2 DEF Cursors
    <3>5. g.event = "activity" => g.cursor = server.cursor
      BY <1>0, <3>1 DEF FramesLead
    <3> QED BY <2>3, <3>2, <3>3, <3>4, <3>5
  <2>6. FramesLeft'
    <3> SUFFICES ASSUME server'.frames = {} PROVE f.cursor = server.cursor
      BY <1>2, <1>4, <1>5 DEF FramesLeft
    <3>1. \A g \in server.frames : g = f
      BY <1>4
    <3>2. f.cursor.id = server.cursor.id
      BY <1>14, <2>2, <3>1
    <3>3. f.seq = server.cursor.audit
      <4> SUFFICES ASSUME f.seq < server.cursor.audit PROVE FALSE
        BY <2>2, <2>4
      <4>1. server.cursor.audit \in Seqs
        BY <1>0, <2>4 DEF Placed
      <4>2. c.audit < server.cursor.audit /\ server.cursor.audit <= server.cursor.audit
        BY <2>2, <2>4
      <4>3. PICK g \in server.frames : g.event = "audit" /\ g.seq = server.cursor.audit
        BY <1>0, <1>2, <4>1, <4>2 DEF OnItsWay
      <4> QED BY <2>4, <3>1, <4>3
    <3> QED BY <1>3, <1>8, <1>9, <2>3, <3>2, <3>3
  <2>7. OnItsWay'
    <3>0. OnItsWay /\ server.up
      BY <1>0, <1>2
    <3>1. ASSUME NEW s \in Seqs, f.seq < s, s <= server.cursor.audit
          PROVE  \E g \in server'.frames : g.event = "audit" /\ g.seq = s
      <4>1. c.audit < s /\ s \in Nat
        BY <1>7, <2>2, <2>4, <3>1
      <4>2. PICK g \in server.frames : g.event = "audit" /\ g.seq = s
        BY <3>0, <3>1, <4>1 DEF OnItsWay
      <4>3. g # f
        BY <2>4, <3>1, <4>1, <4>2
      <4> QED BY <1>4, <4>2, <4>3
    <3>2. ASSUME NEW x \in calls, c.id[x.table] < x.id, x.id <= server.cursor.id[x.table]
          PROVE  x \in excused \/ \E g \in server'.frames : x \in g.calls
      <4>1. x \in excused \/ \E g \in server.frames : x \in g.calls
        BY <2>1, <3>0, <3>2 DEF OnItsWay
      <4> QED BY <1>4, <2>2, <4>1
    <3>3. \A t \in Tables : c.id[t] <= server.cursor.id[t]
      BY <2>1, <3>0 DEF OnItsWay
    <3>4. PICK d : d = f.cursor
      OBVIOUS
    <3>5. /\ d.audit <= server.cursor.audit
          /\ \A t \in Tables : d.id[t] <= server.cursor.id[t]
          /\ \A s \in Seqs : d.audit < s /\ s <= server.cursor.audit =>
                \E g \in server'.frames : g.event = "audit" /\ g.seq = s
          /\ \A x \in calls : d.id[x.table] < x.id /\ x.id <= server.cursor.id[x.table] =>
                x \in excused \/ \E g \in server'.frames : x \in g.calls
      BY <2>2, <2>3, <3>1, <3>2, <3>3, <3>4
    <3>6. lastId' = {d} /\ Seqs' = Seqs /\ calls' = calls /\ excused' = excused /\ server'.cursor = server.cursor
      BY <1>1, <1>4, <1>5, <1>7, <3>4
    <3> QED BY <3>5, <3>6 DEF OnItsWay
  <2> QED BY <2>5, <2>6, <2>7
<1>15. RowsTold'
  <2>1. \A k \in DOMAIN handled' : \/ k \in DOMAIN handled /\ handled'[k] = handled[k]
                                   \/ k = Len(handled) + 1 /\ f.event = "audit" /\ handled'[k] = f.seq
    BY <1>6, <1>9
  <2>2. DOMAIN handled = 1..Len(handled) /\ Len(handled) \in Nat
    BY <1>9
  <2>3. \A k \in DOMAIN handled' : handled'[k] \in Seqs'
    BY <1>3, <1>7, <2>1 DEF RowsTold
  <2>4. ASSUME NEW j \in DOMAIN handled', NEW k \in DOMAIN handled', j < k PROVE handled'[j] < handled'[k]
    <3>1. j \in DOMAIN handled /\ handled'[j] = handled[j]
      BY <1>6, <1>9, <2>1, <2>2, <2>4
    <3> QED BY <1>3, <2>1, <2>4, <3>1 DEF RowsTold
  <2>5. \A k \in DOMAIN handled' : handled'[k] <= f.cursor.audit
    BY <1>3, <1>8, <2>1
  <2>6. Range(handled') = Range(handled) \cup RowOf(f)
    <3>1. CASE f.event = "audit"
      <4>1. handled' = Append(handled, f.seq)
        BY <1>6, <3>1
      <4>2. \A k \in DOMAIN handled : k \in DOMAIN handled' /\ handled'[k] = handled[k]
        BY <1>9, <4>1
      <4>3. Len(handled) + 1 \in DOMAIN handled' /\ handled'[Len(handled) + 1] = f.seq
        BY <1>9, <4>1
      <4>4. RowOf(f) = {f.seq}
        BY <3>1 DEF RowOf
      <4> QED BY <2>1, <4>2, <4>3, <4>4 DEF Range
    <3>2. CASE f.event # "audit"
      BY <1>6, <3>2 DEF RowOf
    <3> QED BY <3>1, <3>2
  <2>7. \A a, c : Missing(a, c)' = Missing(a, c) \ RowOf(f)
    BY <1>7, <2>6 DEF Missing
  <2>8. \A a \in start', c \in lastId' : Cardinality(Missing(a, c)') <= torn'
    <3>1. ASSUME NEW a \in start', NEW c \in lastId' PROVE Cardinality(Missing(a, c)') <= torn'
      <4>1. c = f.cursor /\ a \in (IF start = {} THEN {f.cursor} ELSE start) /\ torn' = torn
        BY <1>1, <1>5
      <4>2. Cardinality(Missing(a, f.cursor) \ RowOf(f)) <= torn
        BY <1>3, <4>1 DEF GoesOnFrom
      <4> QED BY <2>7, <4>1, <4>2
    <3> QED BY <3>1
  <2> QED BY <1>5, <2>3, <2>4, <2>5, <2>8 DEF RowsTold
<1>16. CallsTold'
  <2> SUFFICES ASSUME NEW a \in start', NEW c \in lastId', NEW x \in calls',
                      a.id[x.table] < x.id, x.id <= c.id[x.table]
               PROVE  x \in told' \cup excused' \cup TakenBy(lastId)'
    BY DEF CallsTold
  <2>1. x \in told \cup excused \cup TakenBy({f.cursor})
    BY <1>1, <1>3, <1>5 DEF GoesOnFrom
  <2>2. TakenBy({f.cursor}) \subseteq f.calls \cup TakenBy(lastId)'
    BY <1>4, <1>5 DEF TakenBy
  <2> QED BY <1>1, <1>5, <2>1, <2>2
<1> QED BY <1>10, <1>11, <1>12, <1>13, <1>14, <1>15, <1>16 DEF StreamInv

\* A connection is lost, between two frames or inside one.
LEMMA LostStep ==
    ASSUME ChainInv, StreamInv, RowsTold, CallsTold, Cut \/ \E f \in server.frames : CutInFrame(f)
    PROVE  StreamInv' /\ RowsTold' /\ CallsTold'
<1>0. StreamTypeOK
  BY DEF StreamInv
<1>1. PICK ids : /\ Lost(ids)
                 /\ \/ ids = lastId /\ torn' = torn
                    \/ \E f \in Upcoming : ids = {f.cursor} /\ torn' = torn + 1
  BY DEF Cut, CutInFrame
<1>2. UNCHANGED <<calls, drawn, handled, told, rows>> /\ excused' = excused \cup TakenBy(ids)
      /\ lastId' = ids /\ start' = (IF start = {} THEN ids ELSE start)
  BY <1>1 DEF Lost, vars
<1>3. server' \in [up: BOOLEAN, cursor: Cursors, frames: SUBSET Frame]
      /\ server'.up = FALSE /\ server'.cursor = server.cursor /\ server'.frames = {}
  BY <1>0, <1>1 DEF Lost, StreamTypeOK
<1>4. Seqs' = Seqs /\ IsFiniteSet(Seqs)
  BY <1>2, SeqsFinite DEF Seqs
<1>5. IdsApart'
  BY <1>2 DEF StreamInv, IdsApart
<1>6. FramesLead' /\ FramesLeft' /\ OnItsWay'
  BY <1>3 DEF FramesLead, FramesLeft, OnItsWay
<1>7. \A c : Placed(c) => Placed(c)'
  BY <1>2, <1>4, StaysPlaced
<1>8. \A a, c : Missing(a, c)' = Missing(a, c) /\ IsFiniteSet(Missing(a, c))
  BY <1>2, <1>4, FS_Subset DEF Missing
<1>9. CASE ids = lastId /\ torn' = torn
  <2>1. start' = start
    BY <1>0, <1>2, <1>9 DEF StreamTypeOK
  <2>2. StreamTypeOK'
    BY <1>0, <1>2, <1>3, <1>9, <2>1 DEF StreamTypeOK
  <2>3. Placed(server.cursor)' /\ \A c \in lastId' : Placed(c)'
    BY <1>2, <1>3, <1>7, <1>9 DEF StreamInv
  <2>4. RowsTold'
    BY <1>2, <1>4, <1>8, <1>9, <2>1 DEF RowsTold
  <2>5. CallsTold'
    BY <1>2, <1>9, <2>1 DEF CallsTold
  <2> QED BY <1>5, <1>6, <2>2, <2>3, <2>4, <2>5 DEF StreamInv
<1>10. ASSUME NEW f \in Upcoming, ids = {f.cursor}, torn' = torn + 1 PROVE StreamInv' /\ RowsTold' /\ CallsTold'
  <2>1. /\ f.cursor \in Cursors /\ Placed(f.cursor)
        /\ \A k \in DOMAIN handled : handled[k] <= f.cursor.audit
        /\ GoesOnFrom(f)
    BY FrameLeads
  <2>2. StreamTypeOK'
    <3>1. start' \subseteq Cursors /\ AtMostOne(start') /\ start' # {}
      BY <1>0, <1>2, <1>10, <2>1 DEF StreamTypeOK, AtMostOne
    <3>2. lastId' \subseteq Cursors /\ AtMostOne(lastId') /\ lastId' # {}
      BY <1>2, <1>10, <2>1 DEF AtMostOne
    <3>3. torn' \in Nat
      BY <1>0, <1>10 DEF StreamTypeOK
    <3> QED BY <1>0, <1>2, <1>3, <3>1, <3>2, <3>3 DEF StreamTypeOK
  <2>3. Placed(server.cursor)' /\ \A c \in lastId' : Placed(c)'
    BY <1>2, <1>3, <1>7, <1>10, <2>1 DEF StreamInv
  <2>4. ASSUME NEW a \in start' PROVE Cardinality(Missing(a, f.cursor)) <= torn + 1
    <3> DEFINE M == Missing(a, f.cursor) \ RowOf(f)
    <3>1. Cardinality(M) <= torn
      BY <1>2, <1>10, <2>1 DEF GoesOnFrom
    <3>2. IsFiniteSet(M) /\ IsFiniteSet(Missing(a, f.cursor)) /\ Missing(a, f.cursor) \subseteq M \cup {f.seq}
      BY <1>8, FS_Subset DEF RowOf
    <3> HIDE DEF M
    <3>3. IsFiniteSet(M \cup {f.seq}) /\ Cardinality(M \cup {f.seq}) <= Cardinality(M) + 1 /\ Cardinality(M) \in Nat
      <4>1. Cardinality(M) \in Nat
        BY <3>2, FS_CardinalityType
      <4>2. /\ IsFiniteSet(M \cup {f.seq})
            /\ Cardinality(M \cup {f.seq}) = IF f.seq \in M THEN Cardinality(M) ELSE Cardinality(M) + 1
        BY <3>2, FS_AddElement
      <4> QED BY <4>1, <4>2
    <3>4. Cardinality(Missing(a, f.cursor)) <= Cardinality(M \cup {f.seq})
      BY <3>2, <3>3, FS_Subset
    <3>5. Cardinality(Missing(a, f.cursor)) \in Nat /\ Cardinality(M \cup {f.seq}) \in Nat /\ torn \in Nat
      BY <1>0, <3>2, <3>3, FS_CardinalityType DEF StreamTypeOK
    <3> QED BY <3>1, <3>3, <3>4, <3>5
  <2>5. RowsTold'
    <3>1. \A a \in start', c \in lastId' : Cardinality(Missing(a, c)') <= torn'
      BY <1>2, <1>8, <1>10, <2>4
    <3> QED BY <1>2, <1>4, <1>10, <2>1, <3>1 DEF RowsTold
  <2>6. CallsTold'
    BY <1>2, <1>10, <2>1 DEF CallsTold, GoesOnFrom
  <2> QED BY <1>5, <1>6, <2>2, <2>3, <2>5, <2>6 DEF StreamInv
<1> QED BY <1>1, <1>9, <1>10

-----------------------------------------------------------------------------
(* The reader: every step                                                  *)

ToldInv == StreamInv /\ RowsTold /\ CallsTold

LEMMA ToldInit == StreamInit => ToldInv
<1> SUFFICES ASSUME StreamInit PROVE ToldInv
  OBVIOUS
<1>1. /\ rows = {} /\ calls = {} /\ drawn = {} /\ lastId = {} /\ start = {} /\ handled = <<>> /\ torn = 0
      /\ server = [up |-> FALSE, cursor |-> NoId, frames |-> {}]
  BY DEF StreamInit, Init
<1>2. NoId \in Cursors /\ NoId.audit = 0 /\ NoId.id = [t \in Tables |-> 0]
  BY DEF NoId, Cursors
<1>3. server.up = FALSE /\ server.cursor = NoId /\ server.frames = {}
      /\ server \in [up: BOOLEAN, cursor: Cursors, frames: SUBSET Frame]
  BY <1>1, <1>2
<1>4. StreamTypeOK
  BY <1>1, <1>3 DEF StreamTypeOK, AtMostOne
<1>5. IdsApart /\ Placed(NoId)
  BY <1>1, <1>2 DEF IdsApart, Placed
<1>6. FramesLead /\ FramesLeft /\ OnItsWay
  BY <1>3 DEF FramesLead, FramesLeft, OnItsWay
<1>7. RowsTold /\ CallsTold
  BY <1>1 DEF RowsTold, CallsTold
<1> QED BY <1>1, <1>3, <1>4, <1>5, <1>6, <1>7 DEF ToldInv, StreamInv

\* An agent's call gets an id nobody has.
LEMMA DrawStep ==
    ASSUME ChainInv, ChainInv', ToldInv, NEW t \in Tables, NEW i \in Incidents, Draw(t, i)
    PROVE  ToldInv'
<1>0. StreamTypeOK /\ IdsApart
  BY DEF ToldInv, StreamInv
<1> DEFINE n == Top(Ids(calls \cup drawn, t)) + 1
           new == [table |-> t, id |-> n, incident |-> i]
<1>1. n <= MaxCalls /\ drawn' = drawn \cup {new}
      /\ UNCHANGED <<calls, server, lastId, handled, told, start, torn, excused, rows>>
  BY DEF Draw, vars
<1>2. Ids(calls \cup drawn, t) \subseteq Nat /\ IsFiniteSet(Ids(calls \cup drawn, t))
  <2>1. calls \cup drawn \subseteq CallRow
    BY <1>0 DEF StreamTypeOK
  <2> QED BY <2>1, IdsFinite
<1>3. Top(Ids(calls \cup drawn, t)) \in Nat /\ \A k \in Ids(calls \cup drawn, t) : k \in Nat /\ k < n
  <2>1. PICK top : top = Top(Ids(calls \cup drawn, t))
    OBVIOUS
  <2>2. top \in Ids(calls \cup drawn, t) \cup {0} /\ \A k \in Ids(calls \cup drawn, t) : k <= top
    BY <1>2, <2>1, TopIs
  <2>3. top \in Nat /\ \A k \in Ids(calls \cup drawn, t) : k \in Nat
    BY <1>2, <2>2
  <2>4. ASSUME NEW k \in Ids(calls \cup drawn, t) PROVE k < top + 1
    <3>1. k \in Nat /\ k <= top
      BY <2>2, <2>3
    <3> QED BY <2>3, <3>1
  <2> QED BY <2>1, <2>3, <2>4
<1>4. n \in 1..MaxCalls
  BY <1>1, <1>3, StreamConstants
<1> HIDE DEF n
<1>5. new \in CallRow /\ new.table = t /\ new.id = n
  BY <1>4 DEF CallRow
<1> HIDE DEF new
<1>6. \A x \in calls \cup drawn : x.table = t => x.id # n
  BY <1>3, <1>4 DEF Ids
<1>7. IdsApart'
  BY <1>0, <1>1, <1>5, <1>6 DEF IdsApart
<1>8. Seqs' = Seqs
  BY <1>1 DEF Seqs
<1>9. calls' \subseteq CallRow /\ drawn' \subseteq CallRow
  BY <1>0, <1>1, <1>5 DEF StreamTypeOK
<1> QED BY <1>1, <1>7, <1>8, <1>9, RowsAppear DEF ToldInv

\* It becomes visible, perhaps behind a cursor that has moved on.
LEMMA RecordStep ==
    ASSUME ChainInv, ChainInv', ToldInv, NEW c \in drawn, Record(c)
    PROVE  ToldInv'
<1>0. StreamTypeOK /\ IdsApart
  BY DEF ToldInv, StreamInv
<1>1. calls' = calls \cup {c} /\ drawn' = drawn \ {c}
      /\ excused' = (IF Overtaken(c) THEN excused \cup {c} ELSE excused)
      /\ UNCHANGED <<server, lastId, handled, told, start, torn, rows>>
  BY DEF Record, vars
<1>2. calls \subseteq CallRow /\ drawn \subseteq CallRow
  BY <1>0 DEF StreamTypeOK
<1>3. \A x \in CallRow : x.id \in Nat
  BY StreamConstants DEF CallRow
<1>4. IdsApart'
  BY <1>0, <1>1 DEF IdsApart
<1>5. ASSUME NEW x \in calls' \ calls, x \notin excused' PROVE InFront(x)
  <2>1. x = c /\ ~Overtaken(c)
    BY <1>1, <1>5
  <2>2. c.id \in Nat /\ c.table \in Tables
    BY <1>2, <1>3 DEF CallRow
  <2>3. server.cursor.id[c.table] \in Nat /\ \A i \in lastId : i.id[c.table] \in Nat
    BY <1>0, <2>2 DEF StreamTypeOK, Cursors
  <2> QED BY <2>1, <2>2, <2>3 DEF Overtaken, InFront
<1>6. Seqs' = Seqs
  BY <1>1 DEF Seqs
<1>7. calls' \subseteq CallRow /\ drawn' \subseteq CallRow
  BY <1>1, <1>2
<1>8. calls \subseteq calls' /\ excused \subseteq excused'
  BY <1>1
<1> QED BY <1>1, <1>4, <1>5, <1>6, <1>7, <1>8, RowsAppear DEF ToldInv

\* The reader does nothing: the log may have moved on.
LEMMA OthersStep ==
    ASSUME ChainInv, ChainInv', ToldInv, [Next]_vars, UNCHANGED streamVars
    PROVE  ToldInv'
<1>1. Seqs \subseteq Seqs' /\ \A s \in Seqs' \ Seqs, x \in Seqs : x < s
  BY LogStep
<1>2. UNCHANGED <<calls, drawn, server, lastId, handled, told, start, torn, excused>>
  BY DEF streamVars
<1>3. calls' \subseteq CallRow /\ drawn' \subseteq CallRow /\ IdsApart'
  BY <1>2 DEF ToldInv, StreamInv, StreamTypeOK, IdsApart
<1> QED BY <1>1, <1>2, <1>3, RowsAppear DEF ToldInv

LEMMA ToldStep ==
    ASSUME ChainInv, ChainInv', ToldInv, [StreamNext]_<<vars, streamVars, pageVars>>
    PROVE  ToldInv'
<1>1. CASE Next /\ UNCHANGED <<streamVars, pageVars>>
  BY <1>1, OthersStep
<1>2. CASE \E t \in Tables, i \in Incidents : Draw(t, i)
  BY <1>2, DrawStep
<1>3. CASE \E c \in drawn : Record(c)
  BY <1>3, RecordStep
<1>4. CASE \E f \in server.frames : Deliver(f)
  BY <1>4, DeliverStep DEF ToldInv
<1>5. CASE Cut \/ \E f \in server.frames : CutInFrame(f)
  BY <1>5, LostStep DEF ToldInv
<1>6. CASE Connect
  BY <1>6, ConnectStep DEF ToldInv
<1>7. CASE Poll
  BY <1>7, PollStep DEF ToldInv
<1>8. CASE Close
  BY <1>8, CloseStep DEF ToldInv
<1>9. CASE Answer \/ Arrive
  BY <1>9, OthersStep DEF Answer, Arrive
<1>10. CASE UNCHANGED <<vars, streamVars, pageVars>>
  BY <1>10, OthersStep
<1> QED BY <1>1, <1>2, <1>3, <1>4, <1>5, <1>6, <1>7, <1>8, <1>9, <1>10 DEF StreamNext

\* The log below the stream is the log.
LEMMA LogUnchanged ==
    ASSUME [StreamNext]_<<vars, streamVars, pageVars>>
    PROVE  [Next]_vars
BY DEF StreamNext, Draw, Record, Connect, Poll, Deliver, Cut, CutInFrame, Lost, Close, Answer, Arrive

LEMMA StreamHolds == StreamSpec => [](ChainInv /\ ToldInv)
<1>1. StreamInit => ChainInv /\ ToldInv
  BY ChainInit, ToldInit DEF StreamInit
<1>2. ChainInv /\ ToldInv /\ [StreamNext]_<<vars, streamVars, pageVars>> => (ChainInv /\ ToldInv)'
  BY LogUnchanged, ChainStep, ToldStep
<1> QED BY <1>1, <1>2, PTL DEF StreamSpec

\* Of a set of one, what is chosen is it.
LEMMA OnlyOne == ASSUME NEW S, NEW x \in S, AtMostOne(S) PROVE x = CHOOSE y \in S : TRUE
BY DEF AtMostOne

\* A client misses at most one audit row for each connection that was lost
\* inside a frame, and is told of the others once, in order.
THEOREM RowsDelivered == StreamSpec => []AuditDelivered
<1>1. ToldInv => AuditDelivered
  <2> SUFFICES ASSUME ToldInv PROVE AuditDelivered
    OBVIOUS
  <2>1. StreamTypeOK /\ RowsTold
    BY DEF ToldInv, StreamInv
  <2>2. ASSUME start # {} PROVE Cardinality(MissedRows) <= torn
    <3>1. PICK a \in start, c \in lastId : TRUE
      BY <2>1, <2>2 DEF StreamTypeOK
    <3>2. a = FirstCursor /\ c = Passed
      BY <2>1, <3>1, OnlyOne DEF StreamTypeOK, FirstCursor, Passed
    <3>3. MissedRows = Missing(a, c)
      BY <3>2 DEF MissedRows, Missing
    <3> QED BY <2>1, <3>3 DEF RowsTold
  <2> QED BY <2>1, <2>2 DEF AuditDelivered, RowsTold
<1> QED BY <1>1, StreamHolds, PTL

\* A call the client's cursor has passed was announced, or is on its way, unless
\* it was committed behind a cursor or a cut took its frame.
THEOREM CallsDelivered == StreamSpec => []ActivityDelivered
<1>1. ToldInv => ActivityDelivered
  <2> SUFFICES ASSUME ToldInv, start # {} PROVE ActivityDelivered
    BY DEF ActivityDelivered
  <2>1. StreamTypeOK /\ CallsTold
    BY DEF ToldInv, StreamInv
  <2>2. PICK a \in start, c \in lastId : TRUE
    BY <2>1 DEF StreamTypeOK
  <2>3. a = FirstCursor /\ c = Passed
    BY <2>1, <2>2, OnlyOne DEF StreamTypeOK, FirstCursor, Passed
  <2> QED BY <2>1, <2>3 DEF ActivityDelivered, CallsTold
<1> QED BY <1>1, StreamHolds, PTL

-----------------------------------------------------------------------------
(* The page                                                                *)

\* A row that appears comes after those the page was told of.
LEMMA DueStays ==
    ASSUME ChainInv, ToldInv, [Next]_vars, UNCHANGED handled
    PROVE  Due' = Due
<1>1. Seqs \subseteq Seqs' /\ \A s \in Seqs' \ Seqs, x \in Seqs : x < s
  BY LogStep
<1>2. \A k \in DOMAIN handled : handled[k] \in Seqs
  BY DEF ToldInv, RowsTold
<1>3. Seqs \subseteq Nat
  BY SeqsFinite
<1>4. \A s \in Seqs' : s \in Nat
  <2>1. ChainInv'
    BY ChainStep
  <2> QED BY <2>1 DEF ChainInv, TypeOK, Seqs, Row
<1>5. ASSUME NEW s \in Seqs', NEW k \in DOMAIN handled, s <= handled[k] PROVE s \in Seqs
  <2>1. handled[k] \in Seqs /\ handled[k] \in Nat /\ s \in Nat
    BY <1>2, <1>3, <1>4
  <2>2. ~(handled[k] < s)
    BY <1>5, <2>1
  <2> QED BY <1>1, <2>1, <2>2
<1> QED BY <1>1, <1>5 DEF Due

\* A refetch that was asked for after the last event brings what it is about.
LEMMA PageStep ==
    ASSUME ChainInv, ToldInv, PageOK, [StreamNext]_<<vars, streamVars, pageVars>>
    PROVE  PageOK'
<1>1. CASE UNCHANGED <<handled, fetch, stale, page>>
  <2>1. Due' = Due
    BY <1>1, LogUnchanged, DueStays
  <2> QED BY <1>1, <2>1 DEF PageOK, Idle
<1>2. ASSUME NEW f \in server.frames, Deliver(f) PROVE PageOK'
  <2>1. Invalidate(f.event) /\ handled' = (IF f.event = "audit" THEN Append(handled, f.seq) ELSE handled)
    BY <1>2 DEF Deliver
  <2>2. CASE f.event # "audit"
    BY <1>1, <2>1, <2>2 DEF Invalidate
  <2>3. CASE f.event = "audit" /\ fetch.at = "idle"
    <3>1. fetch = Idle /\ stale' = FALSE /\ fetch' = [Idle EXCEPT !.at = "asked"]
      BY <2>1, <2>3 DEF Invalidate, PageOK, Idle
    <3>2. fetch'.at = "asked" /\ stale' \in BOOLEAN
      BY <3>1 DEF Idle
    <3> QED BY <3>2 DEF PageOK
  <2>4. CASE f.event = "audit" /\ fetch.at = "asked"
    <3>1. fetch' = fetch /\ stale' = stale
      BY <2>1, <2>4 DEF Invalidate, Idle
    <3> QED BY <2>4, <3>1 DEF PageOK
  <2>5. CASE f.event = "audit" /\ fetch.at = "answered"
    <3>1. fetch # Idle
      BY <2>5 DEF Idle
    <3>2. fetch' = fetch /\ stale'
      BY <2>1, <2>5, <3>1 DEF Invalidate
    <3>3. stale' \in BOOLEAN
      BY <2>1, <2>5 DEF Invalidate
    <3> QED BY <2>5, <3>2, <3>3, Zenon DEF PageOK
  <2> QED BY <2>2, <2>3, <2>4, <2>5 DEF PageOK
<1>3. CASE Answer
  <2>1. fetch' = [at |-> "answered", rows |-> Seqs] /\ UNCHANGED <<handled, page, stale, rows>>
    BY <1>3 DEF Answer, streamVars, vars
  <2>2. fetch'.at = "answered" /\ fetch'.rows = Seqs
    BY <2>1
  <2>3. Due' = Due /\ Due \subseteq Seqs
    BY <2>1 DEF Due, Seqs
  <2> QED BY <2>1, <2>2, <2>3 DEF PageOK
<1>4. CASE Arrive
  <2>1. fetch.at = "answered" /\ page' = fetch.rows /\ fetch' = Idle /\ UNCHANGED <<handled, stale, rows>>
    BY <1>4 DEF Arrive, streamVars, vars
  <2>2. fetch'.at = "idle"
    BY <2>1 DEF Idle
  <2>3. Due' = Due
    BY <2>1 DEF Due, Seqs
  <2> QED BY <2>1, <2>2, <2>3 DEF PageOK
<1>5. CASE Next /\ UNCHANGED <<streamVars, pageVars>>
  BY <1>1, <1>5 DEF streamVars, pageVars
<1>6. CASE \/ \E t \in Tables, i \in Incidents : Draw(t, i)
           \/ \E c \in drawn : Record(c)
           \/ \E f \in server.frames : CutInFrame(f)
           \/ Connect \/ Poll \/ Cut \/ Close
  BY <1>1, <1>6 DEF Draw, Record, Connect, Poll, Cut, CutInFrame, Lost, Close, pageVars
<1>7. CASE UNCHANGED <<vars, streamVars, pageVars>>
  BY <1>1, <1>7 DEF streamVars, pageVars
<1> QED BY <1>2, <1>3, <1>4, <1>5, <1>6, <1>7 DEF StreamNext

\* A page at rest shows every row up to the last it was told of, unless that
\* event came between an API's read of the log and its answer.
THEOREM PageUpToDate == StreamSpec => []PageFollows
<1>1. StreamInit => PageOK
  <2> SUFFICES ASSUME StreamInit PROVE PageOK
    OBVIOUS
  <2>1. handled = <<>> /\ fetch = Idle /\ stale = FALSE
    BY DEF StreamInit
  <2>2. fetch.at = "idle" /\ stale \in BOOLEAN
    BY <2>1 DEF Idle
  <2>3. Due = {}
    BY <2>1 DEF Due
  <2> QED BY <2>1, <2>2, <2>3 DEF PageOK
<1>2. ChainInv /\ ToldInv /\ PageOK /\ [StreamNext]_<<vars, streamVars, pageVars>> => PageOK'
  BY PageStep
<1>3. PageOK => PageFollows
  <2>1. {s \in Seqs : \E n \in Range(handled) : s <= n} = Due
    BY DEF Due, Range
  <2> QED BY <2>1 DEF PageOK, PageFollows, Idle
<1> QED BY <1>1, <1>2, <1>3, StreamHolds, PTL DEF StreamSpec

=============================================================================
