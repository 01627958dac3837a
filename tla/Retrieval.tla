----------------------------- MODULE Retrieval -----------------------------
(***************************************************************************)
(* How one question or search finds its chunks: the search endpoint of     *)
(* backend/app/api/v1/search.py and the retrieval part of                  *)
(* services/rag_service.py, with the calls to Elasticsearch, to the        *)
(* embedding API and Milvus, and to the reranker.  Each call is a step     *)
(* that comes back with any answer the service may give, or fails, and the *)
(* caller goes on with less; documents may be deleted between the steps.   *)
(*                                                                         *)
(* A hit is its chunk; a backend's answer is a sequence of distinct chunks *)
(* in descending score, of which only the order is used afterwards.        *)
(* Milvus answers are already in that order, so the filter on similarity   *)
(* (score >= 0.5) keeps a prefix of any length.                            *)
(*                                                                         *)
(* An operator introduced by "Mutant:" is no part of the model: it is what *)
(* the definition after it would be with a plausible bug.                  *)
(***************************************************************************)
EXTENDS Integers, Sequences, FiniteSets, SequencesExt

CONSTANTS
  Docs,         \* documents
  Chunks,       \* chunks in the two indexes
  DocOf,        \* DocOf[c]: the document of chunk c
  All,          \* the doc_id of a request that names no document
  RrfK,         \* constant of the reciprocal rank fusion (60)
  TopRetrieval, \* hits asked of each backend for a question (30)
  TopFeed,      \* fused chunks given to the reranker (20)
  TopRerank,    \* chunks asked of the reranker (5)
  MaxContext,   \* chunks given to the LLM (5)
  MaxAttempts,  \* calls of the embedding API per query (2)
  PageSize,     \* size of a page of the search endpoint
  MaxPage       \* bound on the page a search asks for

Kinds == {"ask", "fulltext", "vector", "hybrid"}

ASSUME RetrievalAssumption ==
  /\ IsFiniteSet(Chunks) /\ IsFiniteSet(Docs)
  /\ DocOf \in [Chunks -> Docs] /\ All \notin Docs
  /\ RrfK \in Nat
  /\ {TopRetrieval, TopFeed, TopRerank, MaxContext, MaxAttempts, PageSize, MaxPage}
       \subseteq Nat \ {0}

\* Two places among TopRetrieval are worth more than the first place alone.
ASSUME FusionAssumption == TopRetrieval <= RrfK + 1

VARIABLES
  asked,   \* the request: kind, doc_id, page
  stage,   \* what it does next
  words,   \* what is searched for: the user's words or a model's
  ft, vec, \* the hits of Elasticsearch and of Milvus
  tries,   \* calls of the embedding API so far
  ranked,  \* the chunks in fused, then in reranked order
  order,   \* what decided that order: "fused", "reranked", "unanswered"
  present, \* documents that have a row
  answer   \* what the client gets

retrievalVars == <<asked, stage, words, ft, vec, tries, ranked, order, present, answer>>
found == <<ft, vec>>

Unasked == [kind |-> "none", doc |-> All, page |-> 1]
NoAnswer == [status |-> "none", items |-> <<>>]
\* A source or a search result: the chunk, and whether the file name of its
\* document was found.
Item == [chunk : Chunks, named : BOOLEAN]

RetrievalInit ==
  /\ asked = Unasked /\ stage = "idle" /\ words = "none"
  /\ ft = <<>> /\ vec = <<>> /\ tries = 0 /\ ranked = <<>> /\ order = "none"
  /\ present = Docs /\ answer = NoAnswer

Matching(doc) == {c \in Chunks : doc \in {All, DocOf[c]}}
Rankings(S) == SetToAllKPermutations(S)
Window(s, from, n) == SubSeq(s, from, IF from + n - 1 < Len(s) THEN from + n - 1 ELSE Len(s))
Top(s, n) == Window(s, 1, n)
PageOf(s, page) == Window(s, (page - 1) * PageSize + 1, PageSize)

-----------------------------------------------------------------------------
(* Reciprocal rank fusion.                                                  *)

RankIn(s, c) == CHOOSE i \in 1..Len(s) : s[i] = c

\* Mutant: the rank alone, without the constant of the fusion.
DenomRankOnly(s, c) == RankIn(s, c)

\* A backend that ranks c adds 1 / Denom to its score.
Denom(s, c) == RrfK + RankIn(s, c)

\* The score as a fraction: no backend, one, or both.
Score(a, b, c) ==
  LET inA == Contains(a, c)  inB == Contains(b, c) IN
  [num |-> IF inA /\ inB THEN Denom(a, c) + Denom(b, c) ELSE IF inA \/ inB THEN 1 ELSE 0,
   den |-> (IF inA THEN Denom(a, c) ELSE 1) * (IF inB THEN Denom(b, c) ELSE 1)]

Above(a, b, c, d) ==
  Score(a, b, c).num * Score(a, b, d).den > Score(a, b, d).num * Score(a, b, c).den

\* The fused orders: all hits of either backend, no one above an earlier one.
\* Hits of one score come in the order of a Python set, which may be any.
Fusions(a, b) ==
  {s \in SetToSeqs(ToSet(a) \cup ToSet(b)) :
     \A i, j \in 1..Len(s) : i < j => ~Above(a, b, s[j], s[i])}

-----------------------------------------------------------------------------
\* What is searched for: the user's words, or what the rewriting with the
\* history made of them, also nothing at all; a failed rewriting keeps them.
Rewritten == {"user's", "model's", "empty"}

(* A request arrives.  For a question, the LLM that detects the intent may   *)
(* answer directly, give a query of its own, or fail, which counts as a      *)
(* retrieval with the user's words.                                          *)
Ask ==
  /\ stage = "idle"
  /\ \E doc \in Docs \cup {All} :
       \/ /\ asked' = [kind |-> "ask", doc |-> doc, page |-> 1]
          /\ words' \in Rewritten
          /\ stage' = "fulltext" /\ UNCHANGED answer
       \/ /\ asked' = [kind |-> "ask", doc |-> doc, page |-> 1]
          /\ answer' = [status |-> "chat", items |-> <<>>]
          /\ stage' = "answered" /\ UNCHANGED words
       \/ /\ \E kind \in Kinds \ {"ask"}, page \in 1..MaxPage :
               /\ asked' = [kind |-> kind, doc |-> doc, page |-> page]
               /\ stage' = IF kind = "vector" THEN "embedding" ELSE "fulltext"
          /\ words' = "user's" /\ UNCHANGED answer
  /\ UNCHANGED <<found, tries, ranked, order, present>>

AfterFulltext == IF asked.kind = "fulltext" THEN "listing" ELSE "embedding"

(* search_fulltext answers with one page of the matching chunks: for a       *)
(* question the first TopRetrieval.  Nothing matches an empty query.         *)
FullText ==
  /\ stage = "fulltext"
  /\ \E hits \in Rankings(IF words = "empty" THEN {} ELSE Matching(asked.doc)) :
       ft' = IF asked.kind = "ask" THEN Top(hits, TopRetrieval) ELSE PageOf(hits, asked.page)
  /\ stage' = AfterFulltext
  /\ UNCHANGED <<asked, words, vec, tries, ranked, order, present, answer>>

(* Elasticsearch fails: the request goes on without its hits.               *)
FullTextFails ==
  /\ stage = "fulltext" /\ stage' = AfterFulltext
  /\ UNCHANGED <<asked, words, found, tries, ranked, order, present, answer>>

AfterVector == IF asked.kind = "ask" THEN "fusing" ELSE "listing"

(* The search endpoint has no Milvus client.  A search by vectors alone says *)
(* so; a hybrid one goes on with the full-text hits.                         *)
NoMilvus ==
  /\ stage = "embedding" /\ tries = 0 /\ asked.kind # "ask"
  /\ IF asked.kind = "vector"
       THEN answer' = [status |-> "unavailable", items |-> <<>>] /\ stage' = "answered"
       ELSE stage' = "listing" /\ UNCHANGED answer
  /\ UNCHANGED <<asked, words, found, tries, ranked, order, present>>

(* The embedding API is called, again only after a transient error.         *)
Embed ==
  /\ stage = "embedding" /\ tries < MaxAttempts
  /\ tries' = tries + 1
  /\ stage' \in {"embedding", "nearest"}
  /\ UNCHANGED <<asked, words, found, ranked, order, present, answer>>

(* A refused or exhausted embedding call, or a failed search of Milvus.      *)
VectorFails ==
  /\ \/ stage = "embedding" /\ tries > 0
     \/ stage = "nearest"
  /\ IF asked.kind = "vector"
       THEN answer' = [status |-> "failed", items |-> <<>>] /\ stage' = "answered"
       ELSE stage' = AfterVector /\ UNCHANGED answer
  /\ UNCHANGED <<asked, words, found, tries, ranked, order, present>>

(* MilvusClient.search.  A question keeps the hits that are similar enough,  *)
(* a search all of them, of one page's length whatever the page.             *)
Nearest ==
  /\ stage = "nearest"
  /\ \E hits \in Rankings(Matching(asked.doc)) :
       \E similar \in IF asked.kind = "ask" THEN 0..Len(hits) ELSE {Len(hits)} :
         vec' = Top(hits, IF asked.kind = "ask"
                          THEN IF similar < TopRetrieval THEN similar ELSE TopRetrieval
                          ELSE PageSize)
  /\ stage' = AfterVector
  /\ UNCHANGED <<asked, words, ft, tries, ranked, order, present, answer>>

-----------------------------------------------------------------------------
(* _retrieve_chunks: the fused chunks, cut to what the reranker is given.    *)
Fuse ==
  /\ stage = "fusing"
  /\ \E s \in Fusions(ft, vec) : ranked' = Top(s, TopFeed)
  /\ order' = "fused" /\ stage' = "reranking"
  /\ UNCHANGED <<asked, words, found, tries, present, answer>>

\* Mutant: a failed reranker leaves nothing to answer from.
RerankFailsEmpty ==
  /\ stage = "reranking"
  /\ ranked' = <<>> /\ stage' = "citing"
  /\ UNCHANGED <<asked, words, found, tries, order, present, answer>>

(* The reranker times out, refuses, or names an index it was not given: the  *)
(* chunks stay in fused order.                                               *)
RerankFails ==
  /\ stage = "reranking"
  /\ ranked' = Top(ranked, TopRerank) /\ stage' = "citing"
  /\ UNCHANGED <<asked, words, found, tries, order, present, answer>>

(* The reranker answers with its best TopRerank chunks, or with no results.  *)
Rerank ==
  /\ stage = "reranking" /\ ranked # <<>>
  /\ \/ /\ \E s \in SetToSeqs(ToSet(ranked)) : ranked' = Top(s, TopRerank)
        /\ order' = "reranked"
     \/ ranked' = <<>> /\ order' = "unanswered"
  /\ stage' = "citing"
  /\ UNCHANGED <<asked, words, found, tries, present, answer>>

\* File names come from the rows there are; a failed lookup finds none.
Items(s, names) == [i \in 1..Len(s) |-> [chunk |-> s[i], named |-> DocOf[s[i]] \in names]]
Lookups == {present, {}}

\* _call_llm: without a chunk the answer is the sentence that no document was
\* found, and a failed call is answered with an apology.
Spoken(context) == IF context = <<>> THEN {"notice"} ELSE {"answered", "apology"}

(* The chunks become the context of the LLM and the sources of the answer,   *)
(* which an apology has too.                                                 *)
Cite ==
  /\ stage = "citing"
  /\ LET context == Top(ranked, MaxContext) IN
       \E names \in Lookups, status \in Spoken(context) :
         answer' = [status |-> status, items |-> Items(context, names)]
  /\ stage' = "answered"
  /\ UNCHANGED <<asked, words, found, tries, ranked, order, present>>

\* Milvus hits carry doc_id where the endpoint reads document_id: any hit of
\* Milvus fails the search.
BadHits == vec # <<>>

(* The search endpoint lists a page: the hits of full text as they came, or  *)
(* the page of the fused hits, which were themselves one page already.       *)
ListHits ==
  /\ stage = "listing"
  /\ \/ /\ BadHits
        /\ answer' = [status |-> "error", items |-> <<>>]
     \/ /\ ~BadHits
        /\ \E names \in Lookups, s \in Fusions(ft, vec) :
             answer' = [status |-> "listed",
                        items |-> Items(IF asked.kind = "fulltext" THEN ft
                                        ELSE PageOf(s, asked.page), names)]
  /\ stage' = "answered"
  /\ UNCHANGED <<asked, words, found, tries, ranked, order, present>>

(* A document is deleted; its chunks stay in both indexes.                   *)
DeleteRow(d) ==
  /\ stage \notin {"idle", "answered"}
  /\ d \in present /\ present' = present \ {d}
  /\ UNCHANGED <<asked, stage, words, found, tries, ranked, order, answer>>

RetrievalNext ==
  \/ Ask \/ FullText \/ FullTextFails \/ NoMilvus \/ Embed \/ VectorFails \/ Nearest
  \/ Fuse \/ RerankFails \/ Rerank \/ Cite \/ ListHits
  \/ \E d \in Docs : DeleteRow(d)

RetrievalSpec == RetrievalInit /\ [][RetrievalNext]_retrievalVars

-----------------------------------------------------------------------------
Before(s, c, d) == Contains(s, c) /\ (~Contains(s, d) \/ RankIn(s, c) < RankIn(s, d))
Both(c) == Contains(ft, c) /\ Contains(vec, c)

\* The chunks given to the reranker are distinct hits, in an order both
\* backends agree with: a chunk that one backend ranks before another, and the
\* other does not rank after it, is never behind it; a chunk found by both
\* backends is before every chunk found by one only, however they rank them;
\* and the cut takes no chunk away that belongs before one it keeps (the
\* purpose of RRF with k = 60, rag_service.py 683-727).
FusedByAgreement ==
  stage = "reranking" =>
    /\ ToSet(ranked) \subseteq ToSet(ft) \cup ToSet(vec)
    /\ Cardinality(ToSet(ranked)) = Len(ranked)
    /\ \A c, d \in ToSet(ft) \cup ToSet(vec) :
         (\/ Before(ft, c, d) /\ ~Before(vec, d, c)
          \/ Before(vec, c, d) /\ ~Before(ft, d, c)
          \/ Both(c) /\ ~Both(d)) => ~Before(ranked, d, c)

\* An answer from documents cites what was found for the request and nothing
\* else: its sources are distinct hits of the two backends in the document it
\* was restricted to, at most MaxContext; if the reranker did not answer they
\* are the first chunks of the fused order; and the answer says that nothing
\* was found exactly if it has no source, which takes that both backends came
\* back empty or the reranker returned no result (rag_service.py 157-193,
\* reranker_service.py "If the API call fails, the original list ...").
AnswerIsGrounded ==
  asked.kind = "ask" /\ answer.status \notin {"none", "chat"} =>
    LET cited == [i \in 1..Len(answer.items) |-> answer.items[i].chunk] IN
    /\ ToSet(cited) \subseteq (ToSet(ft) \cup ToSet(vec)) \cap Matching(asked.doc)
    /\ Cardinality(ToSet(cited)) = Len(cited) /\ Len(cited) <= MaxContext
    /\ order = "fused" => \E s \in Fusions(ft, vec) : IsPrefix(cited, s)
    /\ answer.status = "notice" <=> cited = <<>>
    /\ cited = <<>> => order = "unanswered" \/ (ft = <<>> /\ vec = <<>>)
=============================================================================
