--------------------------- MODULE RagPublication ---------------------------
(***************************************************************************)
(* The knowledge base (schema rag) and the processes that publish into it: *)
(* the command line publishes the curated internal corpora and the public  *)
(* registry.  A document is loaded, prepared against what is stored, and   *)
(* published in a transaction of its own; between these steps another      *)
(* process may publish the same document, and its file may be edited.      *)
(***************************************************************************)
EXTENDS Naturals, Sequences, FiniteSets

CONSTANTS
  Sources, Docs,
  SourceOf,       \* [Docs -> Sources]
  Corpus,         \* [Sources -> {"R1", "R2", "PUBLIC"}]
  Registries,     \* what the file of the public registry may hold
  Described,      \* [Docs -> [class, mentions]]: what names its document type
  Contents,       \* sequences of paragraphs [heading, size]; size 0 is blank
  MaxChars,       \* StructuralChunker.max_safeguard_chars
  Publishers,     \* processes of the command line
  Jobs,           \* the sequences of documents a process is asked to publish
  MaxJobs, MaxEdits   \* bounds

ASSUME RagAssumption ==
  /\ IsFiniteSet(Docs)
  /\ SourceOf \in [Docs -> Sources] /\ Corpus \in [Sources -> {"R1", "R2", "PUBLIC"}]
  /\ Contents \subseteq Seq([heading : BOOLEAN, size : Nat])
  /\ Jobs \subseteq Seq(Docs)
  /\ \A j \in Jobs : j # <<>> /\ \A i \in DOMAIN j : Corpus[SourceOf[j[i]]] = Corpus[SourceOf[j[1]]]
  /\ MaxJobs \in Nat /\ MaxEdits \in Nat

VARIABLES
  registry,       \* the public registry: [policy, entries]
  file,           \* [Docs -> Contents]: what a file or an address holds
  source,         \* [Sources -> status of the row, or "absent"]
  document,       \* rag.documents: [Docs -> rows]
  chunk,          \* rag.chunks: [Docs -> sets of rows]
  runs,           \* rag.ingestion_runs: the rows committed
  job,            \* [Publishers -> what the process is doing]
  jobs, edits     \* how many were begun, and edits made (bounds)

ragVars == <<registry, file, source, document, chunk, runs, job, jobs, edits>>

Absent == [content |-> <<>>, status |-> "absent", type |-> "none", serial |-> 0]

-----------------------------------------------------------------------------
(* Preparation.                                                            *)

Blank(c) == \A i \in DOMAIN c : c[i].size = 0

\* Characters of the block that paragraph i belongs to, up to it: a heading
\* begins a block, and so does a paragraph that would exceed the safeguard.
Block(c) ==
  LET load[i \in 1 .. Len(c)] ==
        IF \/ i = 1
           \/ c[i].heading
           \/ load[i - 1] > 0 /\ load[i - 1] + c[i].size > MaxChars
        THEN c[i].size
        ELSE load[i - 1] + c[i].size
  IN load

Begins(c) ==
  {i \in 1 .. Len(c) :
     \/ i = 1
     \/ c[i].heading
     \/ Block(c)[i - 1] > 0 /\ Block(c)[i - 1] + c[i].size > MaxChars}

Extent(c, s) == {i \in s .. Len(c) : \A b \in Begins(c) : b <= i => b <= s}

\* The paragraphs of each chunk; a blank block makes none.
Parts(c) == {p \in {Extent(c, s) : s \in Begins(c)} : \E i \in p : c[i].size > 0}

OrderOf(c, p) ==
  Cardinality({q \in Parts(c) : \E i \in q : \A k \in p : i < k})

Chunk(c) == {[order |-> OrderOf(c, p), text |-> {c[i] : i \in p}, part |-> p] : p \in Parts(c)}

\* resolve_document_type: the class of the source, then words of its identity.
AllowedTypes == {"PDD", "SDD", "TECHNICAL_OVERVIEW", "POLICY", "PUBLIC_PAGE", "OTHER"}

ResolveDocumentType(d) ==
  LET says(w) == w \in Described[d].mentions
  IN IF Described[d].class \in AllowedTypes THEN Described[d].class
     ELSE IF says("pdd") THEN "PDD"
     ELSE IF says("sdd") THEN "SDD"
     ELSE IF says("technical") THEN "TECHNICAL_OVERVIEW"
     ELSE IF says("policy") THEN "POLICY"
     ELSE IF Corpus[SourceOf[d]] = "PUBLIC" THEN "PUBLIC_PAGE" ELSE "OTHER"

\* The load of the public registry: refused whole when a policy is not
\* fail-closed, an entry is invalid, or two share an identity or an address.
RegistryAccepted ==
  LET e == registry.entries
  IN /\ registry.policy
     /\ \A i \in DOMAIN e : e[i].valid
     /\ \A i, k \in DOMAIN e : i # k => e[i].id # e[k].id /\ e[i].url # e[k].url

Eligible ==
  {d \in Docs : /\ RegistryAccepted
                /\ \E i \in DOMAIN registry.entries :
                     LET e == registry.entries[i]
                     IN e.id = d /\ e.approved /\ e.active /\ e.enabled}

-----------------------------------------------------------------------------
Idle == [pc |-> "idle", todo |-> <<>>, content |-> <<>>, op |-> "none",
         linked |-> FALSE, hops |-> 0]

RagInit ==
  /\ registry \in Registries
  /\ file \in [Docs -> Contents]
  /\ source = [s \in Sources |-> "absent"]
  /\ document = [d \in Docs |-> Absent]
  /\ chunk = [d \in Docs |-> {}]
  /\ runs = {}
  /\ job = [p \in Publishers |-> Idle]
  /\ jobs = 0
  /\ edits = 0

Target(p) == job[p].todo[1]
Public(p) == Corpus[SourceOf[Target(p)]] = "PUBLIC"
In(p, pc) == job[p].pc = pc
Goes(p, pc) == job' = [job EXCEPT ![p].pc = pc]

\* What a process does after a document, of those it was asked for.
Continues(p) ==
  job' = [job EXCEPT ![p] =
    IF Len(job[p].todo) = 1 THEN Idle
    ELSE [Idle EXCEPT !.pc = IF Public(p) THEN "acquire" ELSE "load",
                      !.todo = Tail(job[p].todo)]]

\* publish_curated_corpus, publish_r2_curated_corpus and the loop of
\* publish-public-registry, begun by hand.
Publish(p) ==
  /\ In(p, "idle")
  /\ jobs < MaxJobs
  /\ \E todo \in Jobs :
       /\ Corpus[SourceOf[todo[1]]] = "PUBLIC" => \A i \in DOMAIN todo : todo[i] \in Eligible
       /\ job' = [job EXCEPT ![p] = [Idle EXCEPT
                 !.pc = IF Corpus[SourceOf[todo[1]]] = "PUBLIC" THEN "acquire" ELSE "source",
                 !.todo = todo]]
  /\ jobs' = jobs + 1
  /\ UNCHANGED <<registry, file, source, document, chunk, runs, edits>>

\* PublicSourceFetcher.fetch: at most two redirects, all on the approved host;
\* a page that is not of its type, too large or too short is refused (Fails).
Redirected(p) ==
  /\ In(p, "acquire")
  /\ Target(p) \in Eligible
  /\ job[p].hops < 2
  /\ job' = [job EXCEPT ![p].hops = @ + 1]
  /\ UNCHANGED <<registry, file, source, document, chunk, runs, jobs, edits>>

Acquired(p) ==
  /\ In(p, "acquire")
  /\ Target(p) \in Eligible
  /\ ~Blank(file[Target(p)])
  /\ job' = [job EXCEPT ![p].pc = "source", ![p].content = file[Target(p)]]
  /\ UNCHANGED <<registry, file, source, document, chunk, runs, jobs, edits>>

\* The source of the documents is looked up by its reference.  An existing one
\* must be the approved one (_assert_source_identity and R2), except for R1.
FindSource(p) ==
  LET s == SourceOf[Target(p)]
  IN /\ In(p, "source")
     /\ \/ source[s] = "absent" /\ Goes(p, "register")
        \/ /\ source[s] = "ACTIVE" \/ (source[s] = "INACTIVE" /\ Corpus[s] = "R1")
           /\ Goes(p, IF Public(p) THEN "prepare" ELSE "load")
     /\ UNCHANGED <<registry, file, source, document, chunk, runs, jobs, edits>>

\* register_source, in the same transaction: the reference is unique, and a
\* process that meets another's row there fails (Fails).
Register(p) ==
  LET s == SourceOf[Target(p)]
  IN /\ In(p, "register")
     /\ source[s] = "absent"
     /\ source' = [source EXCEPT ![s] = "ACTIVE"]
     /\ Goes(p, IF Public(p) THEN "prepare" ELSE "load")
     /\ UNCHANGED <<registry, file, document, chunk, runs, jobs, edits>>

\* InternalMarkdownLoader.load.
Load(p) ==
  /\ In(p, "load")
  /\ job' = [job EXCEPT ![p].pc = "prepare", ![p].content = file[Target(p)]]
  /\ UNCHANGED <<registry, file, source, document, chunk, runs, jobs, edits>>

\* IngestionPreparationService.prepare, with the validation before the lookup.
\* document_checksum_changed also holds of a document that is not ACTIVE.
Operation(row, content) ==
  IF row = Absent THEN "INGEST"
  ELSE IF row.content = content /\ row.status = "ACTIVE" THEN "SKIPPED_UNCHANGED"
  ELSE "REINGEST"

Prepare(p) ==
  /\ In(p, "prepare")
  /\ ~Blank(job[p].content)
  /\ job' = [job EXCEPT ![p].pc = "publish",
                        ![p].op = Operation(document[Target(p)], job[p].content)]
  /\ UNCHANGED <<registry, file, source, document, chunk, runs, jobs, edits>>

-----------------------------------------------------------------------------
(* RAGPublicationService.publish.                                          *)

Run(p, status, linked, n) ==
  [doc |-> Target(p), operation |-> job[p].op, linked |-> linked,
   status |-> status, chunks |-> n]

\* A transaction that only records the run.
Skip(p) ==
  /\ In(p, "publish")
  /\ job[p].op = "SKIPPED_UNCHANGED"
  /\ runs' = runs \cup {Run(p, "SKIPPED", document[Target(p)] # Absent, 0)}
  /\ Continues(p)
  /\ UNCHANGED <<registry, file, source, document, chunk, jobs, edits>>

\* The embeddings, then the transaction up to the start of its run.
OpenRun(p) ==
  /\ In(p, "publish")
  /\ job[p].op # "SKIPPED_UNCHANGED"
  /\ source[SourceOf[Target(p)]] # "absent"
  /\ job' = [job EXCEPT ![p].pc = "opened", ![p].linked = (document[Target(p)] # Absent)]
  /\ UNCHANGED <<registry, file, source, document, chunk, runs, jobs, edits>>

\* save_document: the upsert waits for a transaction that wrote the same row.
Save(p) ==
  /\ In(p, "opened")
  /\ \A q \in Publishers \ {p} : In(q, "saved") => Target(q) # Target(p)
  /\ Goes(p, "saved")
  /\ UNCHANGED <<registry, file, source, document, chunk, runs, jobs, edits>>

\* The identity column of the chunks counts upwards: a later replacement has the
\* higher numbers.
NextSerial == 1 + CHOOSE n \in {document[d].serial : d \in Docs} :
                    \A d \in Docs : document[d].serial <= n

\* replace_document_chunks deletes what is stored and inserts its own.
Rows(p) == {[order |-> r.order, text |-> r.text, serial |-> NextSerial]
              : r \in Chunk(job[p].content)}

\* Mutated form: the rows are added to those of the version before.
ReplacedByAdding(p) == chunk[Target(p)] \cup Rows(p)

Replaced(p) == Rows(p)

\* The row of the document, its chunks and the end of the run become visible.
Commit(p) ==
  LET d == Target(p)
  IN /\ In(p, "saved")
     /\ document' = [document EXCEPT ![d] =
          [content |-> job[p].content, status |-> "ACTIVE",
           type |-> ResolveDocumentType(d), serial |-> NextSerial]]
     /\ chunk' = [chunk EXCEPT ![d] = Replaced(p)]
     /\ runs' = runs \cup {Run(p, "SUCCESS", job[p].linked, Cardinality(Rows(p)))}
     /\ Continues(p)
     /\ UNCHANGED <<registry, file, source, jobs, edits>>

\* A refused load, an error of a provider or a statement, or the end of the
\* process: the transaction leaves nothing.  The loop over the public registry
\* goes on with the next source, a curated corpus is abandoned.
Fails(p) ==
  /\ ~In(p, "idle")
  /\ \/ job' = [job EXCEPT ![p] = Idle]
     \/ Public(p) /\ Continues(p)
  /\ UNCHANGED <<registry, file, source, document, chunk, runs, jobs, edits>>

-----------------------------------------------------------------------------
(* Hands outside the program: an editor, and the withdrawal of a row.      *)

Edit ==
  /\ edits < MaxEdits
  /\ \E d \in Docs, c \in Contents : c # file[d] /\ file' = [file EXCEPT ![d] = c]
  /\ edits' = edits + 1
  /\ UNCHANGED <<registry, source, document, chunk, runs, job, jobs>>

Withdraw ==
  /\ edits < MaxEdits
  /\ \/ \E s \in Sources : /\ source[s] = "ACTIVE"
                           /\ source' = [source EXCEPT ![s] = "INACTIVE"]
                           /\ UNCHANGED document
     \/ \E d \in Docs : /\ document[d].status = "ACTIVE"
                        /\ document' = [document EXCEPT ![d].status = "INACTIVE"]
                        /\ UNCHANGED source
  /\ edits' = edits + 1
  /\ UNCHANGED <<registry, file, chunk, runs, job, jobs>>

PublisherStep(p) ==
  \/ Publish(p) \/ Redirected(p) \/ Acquired(p) \/ FindSource(p) \/ Register(p)
  \/ Load(p) \/ Prepare(p) \/ Skip(p) \/ OpenRun(p) \/ Save(p) \/ Commit(p) \/ Fails(p)

RagNext == Edit \/ Withdraw \/ \E p \in Publishers : PublisherStep(p)

RagSpec == RagInit /\ [][RagNext]_ragVars

-----------------------------------------------------------------------------
(* Properties.                                                             *)

Statuses == {"idle", "acquire", "source", "register", "load", "prepare", "publish", "opened", "saved"}

\* Every variable has a value of its type.
RagTypeOK ==
  /\ file \in [Docs -> Contents]
  /\ source \in [Sources -> {"absent", "ACTIVE", "INACTIVE"}]
  /\ \A d \in Docs : document[d] = Absent \/
       /\ document[d].content \in Contents
       /\ document[d].status \in {"ACTIVE", "INACTIVE"}
       /\ document[d].type \in AllowedTypes
       /\ document[d].serial \in Nat
  /\ \A p \in Publishers : job[p].pc \in Statuses /\ job[p].hops \in 0 .. 2
  /\ jobs \in 0 .. MaxJobs /\ edits \in 0 .. MaxEdits

\* What is stored of a document is one whole version of it: its chunks are those
\* of the content its row names, numbered without a gap, with every paragraph in
\* exactly one of them, and a run that succeeded accounts for their number;
\* whichever publications of it overlap, fail or die (publication/service.py
\* publish, repositories/rag.py save_document and replace_document_chunks).
WholeDocuments ==
  \A d \in Docs :
    LET c == document[d].content
    IN IF document[d] = Absent THEN chunk[d] = {}
       ELSE /\ {r.order : r \in chunk[d]} = 0 .. Cardinality(chunk[d]) - 1
            /\ \A r \in chunk[d] : r.serial = document[d].serial
            /\ {r.text : r \in chunk[d]} = {r.text : r \in Chunk(c)}
            /\ \A i \in DOMAIN c : c[i].size > 0 => \E r \in chunk[d] : c[i] \in r.text
            /\ \E r \in runs : r.doc = d /\ r.status = "SUCCESS"
                                /\ r.chunks = Cardinality(chunk[d])

=============================================================================
