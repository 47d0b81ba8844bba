----------------------------- MODULE Knowledge ------------------------------
(***************************************************************************)
(* The knowledge base of one tenant: ingest (app/kb/store.py), run by      *)
(* several processes at once, and the hybrid search (app/kb/search.py).    *)
(*                                                                         *)
(* The tables are external.  A document's transaction holds the lock of    *)
(* its row, or of the key it inserts, until it commits, so transactions    *)
(* on one document follow each other and each is a step; one that finds    *)
(* its row gone, or its key taken, raises and is undone.  A text's content *)
(* is its hash; the full text and the embedding may rank texts in any      *)
(* order.  The reranker that follows drops and reorders what it is given,  *)
(* and is left out.                                                        *)
(***************************************************************************)
EXTENDS Naturals, Sequences, SequencesExt, FiniteSetsExt

CONSTANTS
    Ingesters,
    KbTargets,     \* what one may be told to store: [dir, embedder, chunking, prune]
    Pieces(_),     \* the number of chunks of a document, from its key
    RRF_K,
    Candidates,    \* per path, and of the fused list
    MaxIngests     \* bound: runs of ingest

\* With these, agreement of the paths outweighs the top of one (search.py:13).
ASSUME KnowledgeConstants ==
    /\ RRF_K \in Nat /\ Candidates \in Nat \ {0}
    /\ Candidates < RRF_K + 2
    \* Documents are numbered in the order of their files; an embedder has a name.
    /\ \A t \in KbTargets : DOMAIN t.dir \subseteq Nat /\ t.embedder # ""

VARIABLES
    documents,   \* kb_documents: doc_id -> its key [hash, embedder, chunking]
    kbChunks,    \* kb_chunks: [doc, ordinal, key], a chunk of the document as of key
    ingester,    \* per process: its run
    ingests,     \* runs so far
    query        \* the last search

kbVars == <<documents, kbChunks, ingester, ingests, query>>

KbDocs == UNION {DOMAIN t.dir : t \in KbTargets}
NoKey == [hash |-> 0, embedder |-> "", chunking |-> ""]
KeyIn(t, d) ==
    IF d \in DOMAIN t.dir THEN [hash |-> t.dir[d], embedder |-> t.embedder, chunking |-> t.chunking] ELSE NoKey
PiecesOf(d, key) == {[doc |-> d, ordinal |-> n, key |-> key] : n \in 1..Pieces(key)}

AnyTarget == CHOOSE t \in KbTargets : TRUE
NoDocs == [d \in KbDocs |-> NoKey]
\* others: whether a run with another target has committed since this one began.
NotRunning == [pc |-> "idle", target |-> AnyTarget, stored |-> NoDocs, todo |-> {}, others |-> FALSE]
NoSearch == [at |-> "idle", texts |-> {}, between |-> {}]

KnowledgeInit ==
    /\ documents = NoDocs
    /\ kbChunks = {}
    /\ ingester = [p \in Ingesters |-> NotRunning]
    /\ ingests = 0
    /\ query = NoSearch

-----------------------------------------------------------------------------
(* ingest                                                                  *)

\* What a transaction of p writes, and who sees it: a search between its two
\* queries, the runs with another target.
Committed(p, written, next) ==
    /\ query' = IF query.at = "bm25" THEN [query EXCEPT !.between = @ \cup written] ELSE query
    /\ ingester' = [q \in Ingesters |->
          IF q = p THEN next
          ELSE [ingester[q] EXCEPT !.others = @ \/ (ingester[q].pc # "idle" /\ ingester[q].target # next.target)]]

\* What is stored is read once, before the first document.
StartIngest(p, target) ==
    /\ ingester[p].pc \in {"idle", "done"} /\ ingests < MaxIngests
    /\ ingester' = [ingester EXCEPT ![p] = [pc |-> "docs", target |-> target, stored |-> documents,
                                            todo |-> DOMAIN target.dir, others |-> FALSE]]
    /\ ingests' = ingests + 1
    /\ UNCHANGED <<documents, kbChunks, query>>

\* The comparison without the embedder: its vectors would be of two models.
Same_Slip(stored, key) == stored.hash = key.hash /\ stored.chunking = key.chunking
\* Content, embedder and chunking are those stored.
Same(stored, key) == stored = key

\* The next document in the order of the files: left alone, or stored in one
\* transaction.  An UPDATE that meets no row and an INSERT that meets one raise.
StoreDocument(p) ==
    LET run == ingester[p]
        d == Min(run.todo)
        key == KeyIn(run.target, d)
        there == run.stored[d] # NoKey
        raises == there # (documents[d] # NoKey)
        next == [run EXCEPT !.todo = @ \ {d}]
    IN  /\ run.pc = "docs" /\ run.todo # {}
        /\ IF Same(run.stored[d], key)
           THEN ingester' = [ingester EXCEPT ![p] = next] /\ UNCHANGED <<documents, kbChunks, query>>
           ELSE IF raises
           THEN /\ ingester' = [ingester EXCEPT ![p] = NotRunning]
                /\ UNCHANGED <<documents, kbChunks, query>>
           ELSE /\ documents' = [documents EXCEPT ![d] = key]
                /\ kbChunks' = {c \in kbChunks : c.doc # d} \cup PiecesOf(d, key)
                /\ Committed(p, {d}, next)
        /\ UNCHANGED ingests

\* The documents that were stored at the start and are not in the directory, in
\* one transaction; their chunks go with them (ON DELETE CASCADE).
PruneDocuments(p) ==
    LET run == ingester[p]
        gone == IF run.target.prune THEN {d \in KbDocs : run.stored[d] # NoKey} \ DOMAIN run.target.dir ELSE {}
        next == [run EXCEPT !.pc = "done", !.stored = NoDocs]
    IN  /\ run.pc = "docs" /\ run.todo = {}
        /\ IF gone = {}
           THEN ingester' = [ingester EXCEPT ![p] = next] /\ UNCHANGED <<documents, kbChunks, query>>
           ELSE /\ documents' = [d \in KbDocs |-> IF d \in gone THEN NoKey ELSE documents[d]]
                /\ kbChunks' = {c \in kbChunks : c.doc \notin gone}
                /\ Committed(p, gone, next)
        /\ UNCHANGED ingests

\* The process ends, or the embedder or the database fails it.
IngestFails(p) ==
    /\ ingester[p].pc = "docs"
    /\ ingester' = [ingester EXCEPT ![p] = NotRunning]
    /\ UNCHANGED <<documents, kbChunks, ingests, query>>

-----------------------------------------------------------------------------
(* search                                                                  *)

Id(hit) == <<hit.doc, hit.ordinal>>
HitIds(hits) == {Id(hits[i]) : i \in DOMAIN hits}
IdBefore(a, b) == a[1] < b[1] \/ (a[1] = b[1] /\ a[2] < b[2])

\* The orders in which a path may rank n of the chunks.
Rankings(chunks, n) == {r \in [1..n -> chunks] : \A i, j \in 1..n : r[i] = r[j] => i = j}

\* 1 / (RRF_K + rank) over the lists a chunk is in, times what makes it whole.
Whole == FoldFunction(LAMBDA x, y : x * y, 1, [i \in 1..Candidates |-> RRF_K + i])
Weight(hits, id) ==
    LET at == {i \in DOMAIN hits : Id(hits[i]) = id}
    IN  FoldSet(LAMBDA i, sum : sum + Whole \div (RRF_K + i), 0, at)

\* Of a chunk in both lists, the first list's text is kept.
rrf(first, second) ==
    LET ids == HitIds(first) \cup HitIds(second)
        score(id) == Weight(first, id) + Weight(second, id)
        kept(id) == LET all == first \o second IN all[Min({i \in DOMAIN all : Id(all[i]) = id})]
        order == SetToSortSeq(ids, LAMBDA a, b : score(a) > score(b) \/ (score(a) = score(b) /\ IdBefore(a, b)))
    IN  [i \in DOMAIN order |-> kept(order[i])]

TopOf(hits, n) == SubSeq(hits, 1, Min({n, Len(hits)}))

\* "k=60 keeps one list's top hit from outvoting agreement between the two"
\* (search.py:13): what both paths found is before everything that one found, and
\* the cut to the candidates loses none of it.
ASSUME AgreementFirst ==
    LET lists == UNION {Rankings([doc: 1..2, ordinal: 1..2], n) : n \in 0..Candidates} IN
    \A first, second \in lists :
        LET both == HitIds(first) \cap HitIds(second)
            fused == TopOf(rrf(first, second), Candidates)
        IN  /\ both \subseteq HitIds(fused)
            /\ \A i, j \in DOMAIN fused : Id(fused[i]) \in both /\ Id(fused[j]) \notin both => i < j

\* search: two queries, each a transaction of its own.  _bm25: the best of the
\* chunks that match a word of the query, which may be any.
SearchText ==
    /\ query.at \in {"idle", "fused"}
    /\ \E texts \in SUBSET kbChunks :
          /\ Cardinality(texts) <= Candidates
          /\ query' = [at |-> "bm25", texts |-> texts, between |-> {}]
    /\ UNCHANGED <<documents, kbChunks, ingester, ingests>>

\* _vector: the nearest of the chunks embedded by the query's model; the texts of
\* both go into rrf.
SearchVector(embedder) ==
    /\ query.at = "bm25"
    /\ LET near == {c \in kbChunks : documents[c.doc].embedder = embedder} IN
       \E texts \in kSubset(Min({Candidates, Cardinality(near)}), near) :
          query' = [query EXCEPT !.at = "fused", !.texts = @ \cup texts]
    /\ UNCHANGED <<documents, kbChunks, ingester, ingests>>

KnowledgeNext ==
    \/ \E p \in Ingesters : \/ \E t \in KbTargets : StartIngest(p, t)
                            \/ StoreDocument(p) \/ PruneDocuments(p) \/ IngestFails(p)
    \/ SearchText
    \/ \E t \in KbTargets : SearchVector(t.embedder)

KnowledgeSpec == KnowledgeInit /\ [][KnowledgeNext]_kbVars

-----------------------------------------------------------------------------

\* The chunks of a document are those of its row, all of them and of one content,
\* one chunking and one embedding model, whoever stored or removed it last.
OneVersion == kbChunks = UNION {PiecesOf(d, documents[d]) : d \in {e \in KbDocs : documents[e] # NoKey}}

\* A run that ends has stored its directory: also when another with the same
\* directory ran beside it, when earlier ones failed half way, and although what
\* it compares with was read at its start.  Only a run with another target that
\* commits meanwhile can undo it.
IngestConverges ==
    \A p \in Ingesters : ingester[p].pc = "done" /\ ~ingester[p].others =>
        \A d \in KbDocs :
            d \in DOMAIN ingester[p].target.dir \/ ingester[p].target.prune =>
                documents[d] = KeyIn(ingester[p].target, d)

\* "a search never sees half a document" (store.py:4): the texts that one search
\* has of a document are of one version, unless the document was replaced between
\* its two queries, which are two transactions.
SearchOfOneVersion ==
    \A a, b \in query.texts :
        a.doc = b.doc /\ a.doc \notin query.between => a.key = b.key

\* What is found is what was stored.
KnowledgeSound == OneVersion /\ IngestConverges /\ SearchOfOneVersion

=============================================================================
