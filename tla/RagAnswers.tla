----------------------------- MODULE RagAnswers -----------------------------
(***************************************************************************)
(* The knowledge agents: an answer from the knowledge base (KnowledgeAgent *)
(* over HybridRetriever, RRFRanker and ContextBuilder) or from public pages*)
(* (WebKnowledgeAgent over LiveWebContextBuilder).  The retrieval reads the*)
(* base twice while publications go on.  Questions only read and do not    *)
(* meet one another: one at a time stands for any number.                  *)
(***************************************************************************)
EXTENDS RagPublication, SequencesExt

CONSTANTS
  Limit,          \* candidates of each channel
  TopK,           \* final_top_k
  Pages           \* [url, registered, host]: what a web search may return

ASSUME AnswersAssumption == Limit \in 1 .. 10 /\ TopK \in Nat \ {0}

VARIABLE question \* what the agent that answers knows so far

answersVars == <<ragVars, question>>

NoQuestion == [pc |-> "free", scope |-> "NONE", query |-> "question", snapshot |-> {},
               lexical |-> <<>>, evidence |-> <<>>, status |-> "none"]

AnswersInit == RagInit /\ question = NoQuestion

At(pc) == question.pc = pc

Concludes(status) ==
  question' = [NoQuestion EXCEPT !.status = status]

-----------------------------------------------------------------------------
(* Ranking: rank positions only, with K = 60 (ranking/rrf.py).             *)

K == 60

Positions(list, c) == {i \in DOMAIN list : list[i] = c}

\* The ranks a candidate has in the two channels, one or two of them.
Points(ranks) ==
  LET a == ranks.lexical b == ranks.semantic
  IN IF a = 0 THEN <<1, K + b>>
     ELSE IF b = 0 THEN <<1, K + a>>
     ELSE <<(K + a) + (K + b), (K + a) * (K + b)>>

BestRank(ranks) ==
  IF ranks.lexical = 0 \/ (ranks.semantic # 0 /\ ranks.semantic < ranks.lexical)
  THEN ranks.semantic ELSE ranks.lexical

IdLess(x, y) == x.serial < y.serial \/ (x.serial = y.serial /\ x.order < y.order)

\* The order of the fused list: score, then best rank, then chunk id.
Before(x, y) ==
  LET p == Points(x.ranks) q == Points(y.ranks)
  IN \/ p[1] * q[2] > q[1] * p[2]
     \/ /\ p[1] * q[2] = q[1] * p[2]
        /\ \/ BestRank(x.ranks) < BestRank(y.ranks)
           \/ BestRank(x.ranks) = BestRank(y.ranks) /\ IdLess(x.row, y.row)

RankIn(list, c) == IF Positions(list, c) = {} THEN 0 ELSE CHOOSE i \in Positions(list, c) : TRUE

\* The rows either channel found, with their ranks.
Found(lexical, semantic) ==
  {[row |-> c, ranks |-> [lexical |-> RankIn(lexical, c), semantic |-> RankIn(semantic, c)]]
     : c \in ToSet(lexical) \cup ToSet(semantic)}

\* Its rows in order; no two have the same id, so there is one such list.
Ranked(found) ==
  {list \in [1 .. Cardinality(found) -> found] :
     \A i, k \in DOMAIN list : i < k => Before(list[i], list[k])}

Smaller(m, n) == IF m < n THEN m ELSE n

Fuse(lexical, semantic) ==
  {SubSeq(list, 1, Smaller(TopK, Len(list))) : list \in Ranked(Found(lexical, semantic))}

-----------------------------------------------------------------------------
(* Grounding: by tier, and within a tier as ranked; citation i is C<i>.    *)

\* ContextBuilder._priority_tier.
Tier(row) ==
  IF Corpus[SourceOf[row.doc]] = "PUBLIC" THEN 3
  ELSE IF row.type \in {"PDD", "SDD"} THEN 1 ELSE 2

\* The one rearrangement of a list that does so.
ByTier(list, tier) ==
  LET sooner(i, k) == \/ tier[list[i]] < tier[list[k]]
                      \/ tier[list[i]] = tier[list[k]] /\ i < k
  IN {[i \in DOMAIN list |-> list[place[i]]] : place \in
       {p \in [DOMAIN list -> DOMAIN list] : \A i, k \in DOMAIN list : i < k => sooner(p[i], p[k])}}

Ground(ranked) == ByTier(ranked, [e \in ToSet(ranked) |-> Tier(e.row)])

\* LiveWebContextBuilder.build: an address once, and only one with a host.
FirstOf(list, i) == \A k \in 1 .. i - 1 : list[k].url # list[i].url

GroundLive(list) ==
  LET usable == {i \in DOMAIN list : list[i].host /\ FirstOf(list, i)}
      kept == SetToSortSeq(usable, <)
      pages == [i \in DOMAIN kept |-> list[kept[i]]]
  IN ByTier(pages, [e \in ToSet(pages) |-> IF e.registered THEN 3 ELSE 4])

-----------------------------------------------------------------------------
(* A question to the knowledge base.                                       *)

Scopes == {"INTERNAL", "PUBLIC_GETNET"}

OriginOf(scope) == IF scope = "PUBLIC_GETNET" THEN {"PUBLIC"} ELSE {"R1", "R2"}

\* What both search statements select from: chunks of active documents in scope.
InBase(scope) ==
  UNION {{[doc |-> d, type |-> document[d].type, serial |-> r.serial, order |-> r.order] : r \in chunk[d]} :
           d \in {e \in Docs : /\ document[e].status = "ACTIVE"
                               /\ source[SourceOf[e]] = "ACTIVE"
                               /\ Corpus[SourceOf[e]] \in OriginOf(scope)}}

\* Candidates in an order the texts decide.
Listings(rows, n) == UNION {SetToSeqs(s) : s \in {x \in SUBSET rows : Cardinality(x) = n}}

AskKnowledge ==
  /\ At("free")
  /\ \E s \in Scopes :
       question' = [NoQuestion EXCEPT !.scope = s,
                      !.pc = IF s = "PUBLIC_GETNET" THEN "formulate" ELSE "lexical"]
  /\ UNCHANGED ragVars

\* SemanticSearchQueryFormulator: a failure, an uncertain or an unfit phrase
\* leaves the question as it was asked.
Formulate ==
  /\ At("formulate")
  /\ \E phrase \in {"question", "formulated"} :
       question' = [question EXCEPT !.pc = "lexical", !.query = phrase]
  /\ UNCHANGED ragVars

\* The read-only transaction: its first statement fixes the snapshot.
Lexical ==
  /\ At("lexical")
  /\ \E n \in 0 .. Smaller(Limit, Cardinality(InBase(question.scope))) :
       \E list \in Listings(InBase(question.scope), n) :
         question' = [question EXCEPT !.pc = "semantic", !.snapshot = InBase(question.scope),
                                      !.lexical = list]
  /\ UNCHANGED ragVars

\* Mutated form: each statement reads what is committed when it runs.
SemanticRowsNow == InBase(question.scope)

\* The second statement has no condition but the scope: it fills its limit.
SemanticRows == question.snapshot

Semantic ==
  /\ At("semantic")
  /\ \E list \in Listings(SemanticRows, Smaller(Limit, Cardinality(SemanticRows))) :
     \E fused \in Fuse(question.lexical, list) :
     \E grounded \in Ground(fused) :
       IF grounded = <<>> THEN Concludes("INSUFFICIENT_EVIDENCE")
       ELSE question' = [question EXCEPT !.pc = "generate", !.evidence = grounded,
                                         !.snapshot = {}, !.lexical = <<>>]
  /\ UNCHANGED ragVars

\* A question without a searchable term, or a statement or model that fails:
\* the agent raises, which its node of the workflow catches.
Raises ==
  /\ question.pc \in {"lexical", "semantic"}
  /\ Concludes("raised")
  /\ UNCHANGED ragVars

-----------------------------------------------------------------------------
(* Public pages.                                                           *)

AskWeb ==
  /\ At("free")
  /\ question' = [NoQuestion EXCEPT !.pc = "search", !.scope = "WEB"]
  /\ UNCHANGED ragVars

\* A forecast without a place asks for one; a search may fail or find nothing.
Search ==
  /\ At("search")
  /\ \/ Concludes("ASKS_PLACE")
     \/ Concludes("PROVIDER_ERROR")
     \/ \E list \in SeqOf(Pages, 2) : \E grounded \in GroundLive(list) :
          IF grounded = <<>> THEN Concludes("INSUFFICIENT_EVIDENCE")
          ELSE question' = [question EXCEPT !.pc = "generate", !.evidence = grounded]
  /\ UNCHANGED ragVars

-----------------------------------------------------------------------------
(* Generation, of either.                                                  *)

\* What the model may say: any ids, also ones that were not supplied, with inline
\* markers that may not be the same.
Generated ==
  [answered : BOOLEAN, ids : SUBSET (1 .. Len(question.evidence) + 1), marked : BOOLEAN]

\* GroundedGenerationOutcome and validate_grounded_citations.
Valid(reply) ==
  IF reply.answered
  THEN /\ reply.ids # {}
       /\ reply.ids \subseteq DOMAIN question.evidence
       /\ reply.marked
  ELSE reply.ids = {}

Generate ==
  /\ At("generate")
  /\ \/ Concludes("PROVIDER_ERROR")
     \/ \E r \in Generated :
          IF ~Valid(r) THEN Concludes("PROVIDER_ERROR")
          ELSE IF ~r.answered THEN Concludes("INSUFFICIENT_EVIDENCE")
          ELSE Concludes("ANSWERED")
  /\ UNCHANGED ragVars

Answering ==
  \/ AskKnowledge \/ Formulate \/ Lexical \/ Semantic \/ Raises
  \/ AskWeb \/ Search \/ Generate

AnswersNext == Answering \/ (RagNext /\ UNCHANGED question)

AnswersSpec == AnswersInit /\ [][AnswersNext]_answersVars

-----------------------------------------------------------------------------
(* Properties.                                                             *)

FromBase == question.scope \in Scopes

AnswersTypeOK ==
  /\ RagTypeOK
  /\ question.pc \in {"free", "formulate", "lexical", "semantic", "search", "generate"}
  /\ question.status \in {"none", "ANSWERED", "INSUFFICIENT_EVIDENCE", "PROVIDER_ERROR",
                          "ASKS_PLACE", "raised"}
  /\ FromBase => Len(question.evidence) <= TopK

\* The evidence of an answer never mixes two versions of a document, although it
\* is read by two statements between which a publication may commit
\* (retrieval/hybrid.py search, begin_read_only_repeatable_read).
OneVersionOfEach ==
  FromBase =>
    \A i, j \in DOMAIN question.evidence :
      LET x == question.evidence[i].row y == question.evidence[j].row
      IN x.doc = y.doc => x.serial = y.serial

=============================================================================
