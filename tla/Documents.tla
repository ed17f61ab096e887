----------------------------- MODULE Documents -----------------------------
(***************************************************************************)
(* The vector store behind rag_search (tools/rag_search.h): files are      *)
(* scanned and cut into chunks (TextChunks), the embedder turns all chunks *)
(* of an addition into vectors in one request, and a search ranks what the *)
(* store holds when the vectors of its query arrive.  Additions and        *)
(* searches are coroutines of one thread that interleave at those          *)
(* requests.  A text is known by how similar its vector is to the query's. *)
(***************************************************************************)
EXTENDS Integers, SequencesExt

CONSTANTS
  Texts,     \* the texts of chunks: naturals, their similarity to the query
  Files,     \* what a path leads to: records of kind, content (chunks) and path
  Adders,    \* the coroutines that add documents
  Limits,    \* values of top_k, which the model that calls the tool chooses
  MaxBatch,  \* bound: files of a scan
  Complete   \* whether the embedder answers with a vector for every text

VARIABLES
  docs,      \* the documents of the store
  adding,    \* the documents each adder waits to have embedded
  outcome,   \* what each addition came to: "none", "added", "refused" or "thrown"
  search,    \* of the one search: "idle", "asked", "answered" or "failed", and its top_k
  results,   \* its answer: a sequence of [doc, chunk, similarity]
  held       \* history: the documents in the store when it was answered

vars == <<docs, adding, outcome, search, results, held>>

Init ==
  /\ docs = <<>> /\ adding = [a \in Adders |-> <<>>] /\ outcome = [a \in Adders |-> "none"]
  /\ search = [state |-> "idle", top_k |-> 0] /\ results = <<>> /\ held = 0

(***************************************************************************)
(* EmbeddingClient (the embedder itself is external): the vectors of the   *)
(* texts in their order; without texts no request is made.                 *)
(***************************************************************************)
Replies(texts) ==
  IF Complete \/ texts = <<>> THEN {texts} ELSE {SubSeq(texts, 1, n) : n \in 0..Len(texts)}

(***************************************************************************)
(* Adding documents                                                        *)
(***************************************************************************)
\* scanDocument: readable .md files alone; the id is the place in this scan.
scanDocument(files) ==
  LET loaded == SelectSeq(files, LAMBDA f : f.kind = "markdown")
  IN  [i \in DOMAIN loaded |-> [id |-> i - 1, source |-> loaded[i].path,
                                content |-> loaded[i].content, embedding |-> <<>>]]

ChunksOf(batch) == FlattenSeq([i \in DOMAIN batch |-> batch[i].content])

Scan(a) ==
  /\ outcome[a] = "none" /\ adding[a] = <<>>
  /\ \E n \in 0..MaxBatch : \E files \in [1..n -> Files] :
       LET batch == scanDocument(files)
       IN  /\ adding' = [adding EXCEPT ![a] = batch]
           /\ outcome' = [outcome EXCEPT ![a] = IF batch = <<>> THEN "added" ELSE "none"]
  /\ UNCHANGED <<docs, search, results, held>>

\* Slip: every document begins with the first vector.
StartStays(batch, i) == 0

\* start: the vectors of the documents before.
Start(batch, i) == Len(ChunksOf(SubSeq(batch, 1, i - 1)))

\* A vector the embedder did not send is read past the end of its answer.
Vector(vectors, n) == IF n \in DOMAIN vectors THEN vectors[n] ELSE -1

Embedded(batch, vectors) ==
  [i \in DOMAIN batch |->
     [batch[i] EXCEPT !.embedding =
        [j \in DOMAIN batch[i].content |-> Vector(vectors, Start(batch, i) + j)]]]

addDocuments(a) ==
  /\ adding[a] # <<>>
  /\ \E vectors \in Replies(ChunksOf(adding[a])) : docs' = docs \o Embedded(adding[a], vectors)
  /\ adding' = [adding EXCEPT ![a] = <<>>]
  /\ outcome' = [outcome EXCEPT ![a] = "added"]
  /\ UNCHANGED <<search, results, held>>

\* The request failed, or its answer is no JSON.
AddingFails(a) ==
  /\ adding[a] # <<>> /\ ChunksOf(adding[a]) # <<>>
  /\ adding' = [adding EXCEPT ![a] = <<>>]
  /\ \E o \in {"refused", "thrown"} : outcome' = [outcome EXCEPT ![a] = o]
  /\ UNCHANGED <<docs, search, results, held>>

(***************************************************************************)
(* Searching                                                               *)
(***************************************************************************)
\* cosineSimilarity of the query's vectors and one of a chunk, which is 0 when they do not fit.
Similarity(vector) == IF vector \in Texts THEN vector ELSE 0

\* Slip: the first chunk speaks for its document.
FirstChunks ==
  {[doc |-> d, chunk |-> 1, similarity |-> Similarity(docs[d].embedding[1])] :
     d \in {e \in DOMAIN docs : docs[e].embedding # <<>>}}

Scores ==
  UNION {{[doc |-> d, chunk |-> c, similarity |-> Similarity(docs[d].embedding[c])] :
            c \in DOMAIN docs[d].embedding} : d \in DOMAIN docs}

\* top_k becomes a size_t: a negative one is beyond every count.
Count(scores, top_k) ==
  IF top_k < 0 THEN Cardinality(scores) ELSE Min({top_k, Cardinality(scores)})

\* The first n by similarity.  The sort leaves the order of equals open: here the oldest of them
\* come first, or the newest.
Best(scores, n, newestFirst) ==
  LET older(s, t) == s.doc < t.doc \/ (s.doc = t.doc /\ s.chunk < t.chunk)
      before(s, t) == \/ s.similarity > t.similarity
                      \/ /\ s.similarity = t.similarity
                         /\ IF newestFirst THEN older(t, s) ELSE older(s, t)
  IN  [i \in 1..n |-> CHOOSE s \in scores : Cardinality({t \in scores : before(t, s)}) = i - 1]

Ask ==
  /\ search.state = "idle"
  /\ \E k \in Limits : search' = [state |-> "asked", top_k |-> k]
  /\ UNCHANGED <<docs, adding, outcome, results, held>>

\* The query's vectors arrive.
Answer ==
  /\ search.state = "asked"
  /\ \E newestFirst \in BOOLEAN :
       results' = Best(Scores, Count(Scores, search.top_k), newestFirst)
  /\ search' = [search EXCEPT !.state = "answered"]
  /\ held' = Len(docs)
  /\ UNCHANGED <<docs, adding, outcome>>

\* They do not, or an empty query has none.
AnswersNothing ==
  /\ search.state = "asked"
  /\ search' = [search EXCEPT !.state = "failed"]
  /\ UNCHANGED <<docs, adding, outcome, results, held>>

Next ==
  \/ \E a \in Adders : Scan(a) \/ addDocuments(a) \/ AddingFails(a)
  \/ Ask \/ Answer \/ AnswersNothing

Spec == Init /\ [][Next]_vars

----------------------------------------------------------------------------
\* Whatever other additions the store took while the vectors of one were awaited, every chunk in
\* it has the vector of its own text (rag_search.h:559-583).
VectorsOwn == \A d \in DOMAIN docs : docs[d].embedding = docs[d].content

\* The best chunks of the whole store as it was when the query's vectors came, best first, none
\* twice, and as many as were asked for or there were (rag_search.h:585-631).
BestFound ==
  search.state = "answered" =>
    LET chunks == UNION {{<<d, c>> : c \in DOMAIN docs[d].content} : d \in 1..held}
        place == [i \in DOMAIN results |-> <<results[i].doc, results[i].chunk>>]
        text(p) == docs[p[1]].content[p[2]]
    IN  /\ IsInjective(place) /\ Range(place) \subseteq chunks
        /\ \A i \in DOMAIN place : i > 1 => text(place[i - 1]) >= text(place[i])
        /\ \A p \in chunks \ Range(place) : \A q \in Range(place) : text(p) <= text(q)
        /\ Len(results) = IF search.top_k < 0 THEN Cardinality(chunks)
                          ELSE Min({search.top_k, Cardinality(chunks)})

\* (Does not hold with Complete = FALSE.)  A short answer of the embedder is noticed: its vectors
\* are not counted, and the missing ones are read past its end (rag_search.h:571-577).
ShortAnswerNoticed == \A d \in DOMAIN docs : \A c \in DOMAIN docs[d].embedding :
                        docs[d].embedding[c] # -1

\* (Does not hold.)  An id names one document: ids count from 0 in every scan (rag_search.h:513),
\* and rag_search gives them to the model (:698).
IdsDistinct == \A d, e \in DOMAIN docs : docs[d].id = docs[e].id => d = e
=============================================================================
