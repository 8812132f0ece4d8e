-------------------------- MODULE Knowledge_proofs --------------------------
(***************************************************************************)
(* Proofs about RagPublication and RagAnswers: what is stored of a         *)
(* document is one whole version of it, and the evidence of an answer      *)
(* never mixes two.  The chunks of a content are numbered by the rank of   *)
(* the paragraph each begins with; the ranks of a finite set by a key that *)
(* tells its elements apart are the numbers from 0.                        *)
(***************************************************************************)
EXTENDS RagAnswers, SequenceTheorems, FiniteSetTheorems, WellFoundedInduction, TLAPS

-----------------------------------------------------------------------------
(* Numbers.                                                                *)

LessThan == {pair \in Nat \X Nat : pair[1] < pair[2]}

LEMMA LessThanWellFounded == IsWellFoundedOn(LessThan, Nat)
  BY NatLessThanWellFounded DEF LessThan, OpToRel

LEMMA LeastElement ==
  ASSUME NEW T, T \subseteq Nat, T # {}
  PROVE  \E x \in T : \A y \in T : x <= y
<1>1. \E x \in T : \A y \in T : ~ (<<y, x>> \in LessThan)
  BY LessThanWellFounded, WFMin
<1>2. PICK x \in T : \A y \in T : <<y, x>> \notin LessThan
  BY <1>1
<1>3. ASSUME NEW y \in T
      PROVE  x <= y
  <2>1. <<y, x>> \in Nat \X Nat /\ <<y, x>>[1] = y /\ <<y, x>>[2] = x
    OBVIOUS
  <2>2. ~(y < x)
    BY <1>2, <2>1 DEF LessThan
  <2>3. QED
    BY <2>2
<1>4. QED
  BY <1>3

\* A set of numbers with a bound has a greatest element.
LEMMA GreatestElement ==
  ASSUME NEW T, T \subseteq Nat, T # {}, NEW n \in Nat, \A x \in T : x <= n
  PROVE  \E x \in T : \A y \in T : y <= x
<1> DEFINE B == {m \in Nat : \A x \in T : x <= m}
<1>1. B \subseteq Nat /\ n \in B
  OBVIOUS
<1>2. PICK m \in B : \A y \in B : m <= y
  BY <1>1, LeastElement
<1>3. m \in Nat /\ \A x \in T : x <= m
  OBVIOUS
<1>4. m \in T
  <2> SUFFICES ASSUME m \notin T
               PROVE  FALSE
    OBVIOUS
  <2>1. \A x \in T : x <= m - 1 /\ m - 1 \in Nat
    BY <1>3
  <2>2. m - 1 \in B
    BY <2>1
  <2>3. QED
    BY <1>2, <1>3, <2>2
<1>5. QED
  BY <1>3, <1>4

\* How many of a set come before one of its elements, by a key that tells them apart.
Below(S, key, x) == {y \in S : key[y] < key[x]}

\* Such ranks number the set without a gap and without a repetition.
LEMMA RanksNumber ==
  ASSUME NEW S, IsFiniteSet(S), NEW key \in [S -> Nat],
         \A x, y \in S : key[x] = key[y] => x = y
  PROVE  LET rank(x) == Cardinality(Below(S, key, x))
         IN /\ {rank(x) : x \in S} = 0 .. Cardinality(S) - 1
            /\ \A x, y \in S : rank(x) = rank(y) => x = y
<1> DEFINE rank(x) == Cardinality(Below(S, key, x))
           n == Cardinality(S)
           r == [x \in S |-> rank(x)]
           T == 0 .. n - 1
<1>1. n \in Nat
  BY FS_CardinalityType
<1>2. ASSUME NEW x \in S
      PROVE  rank(x) \in T
  <2>1. Below(S, key, x) \in SUBSET (S \ {x})
    BY DEF Below
  <2>2. IsFiniteSet(S \ {x}) /\ Cardinality(S \ {x}) = n - 1
    BY FS_RemoveElement
  <2>3. IsFiniteSet(Below(S, key, x)) /\ rank(x) <= n - 1
    BY <2>1, <2>2, FS_Subset
  <2>4. rank(x) \in Nat
    BY <2>3, FS_CardinalityType
  <2> HIDE DEF rank, n
  <2>5. QED
    BY <1>1, <2>3, <2>4
<1>3. ASSUME NEW x \in S, NEW y \in S, key[x] < key[y]
      PROVE  rank(x) < rank(y)
  <2>1. Below(S, key, x) \in SUBSET Below(S, key, y)
    BY <1>3 DEF Below
  <2>2. x \in Below(S, key, y) /\ x \notin Below(S, key, x)
    BY <1>3 DEF Below
  <2>3. IsFiniteSet(Below(S, key, y))
    BY FS_Subset DEF Below
  <2>4. IsFiniteSet(Below(S, key, x)) /\ rank(x) <= rank(y)
        /\ (rank(y) = rank(x) => Below(S, key, y) = Below(S, key, x))
    BY <2>1, <2>3, FS_Subset
  <2>5. rank(x) \in Nat /\ rank(y) \in Nat
    BY <2>3, <2>4, FS_CardinalityType
  <2> HIDE DEF rank
  <2>6. QED
    BY <2>2, <2>4, <2>5
<1>4. ASSUME NEW x \in S, NEW y \in S, rank(x) = rank(y)
      PROVE  x = y
  <2>1. rank(x) \in Nat /\ rank(y) \in Nat
    BY <1>1, <1>2
  <2> HIDE DEF rank
  <2>2. ~(key[x] < key[y]) /\ ~(key[y] < key[x])
    BY <1>3, <1>4, <2>1
  <2>3. QED
    BY <2>2
<1>5. r \in Injection(S, T)
  <2>1. r \in [S -> T]
    BY <1>2
  <2>2. \A a, b \in S : r[a] = r[b] => a = b
    BY <1>4
  <2> HIDE DEF r, T
  <2>3. QED
    BY <2>1, <2>2 DEF Injection, IsInjective
<1>6. IsFiniteSet(T) /\ Cardinality(T) = n
  <2>1. IsFiniteSet(0 .. n - 1) /\ Cardinality(0 .. n - 1) = IF 0 > n - 1 THEN 0 ELSE n - 1 - 0 + 1
    BY <1>1, FS_Interval
  <2> HIDE DEF n
  <2>2. QED
    BY <1>1, <2>1
<1>7. r \in Surjection(S, T)
  BY <1>5, <1>6, FS_Injection
<1>8. {rank(x) : x \in S} = T
  <2>1. \A t \in T : \E x \in S : r[x] = t
    BY <1>7 DEF Surjection
  <2>2. QED
    BY <1>2, <2>1
<1>9. QED
  BY <1>4, <1>8

-----------------------------------------------------------------------------
(* The chunks of a content.                                                *)

Paragraphs == [heading : BOOLEAN, size : Nat]

LEMMA BeginsIn ==
  ASSUME NEW c \in Seq(Paragraphs)
  PROVE  /\ Len(c) \in Nat /\ DOMAIN c = 1 .. Len(c) /\ Begins(c) \subseteq 1 .. Len(c)
         /\ Len(c) # 0 => 1 \in Begins(c)
<1>1. Len(c) \in Nat /\ DOMAIN c = 1 .. Len(c)
  OBVIOUS
<1>2. Len(c) # 0 => 1 \in 1 .. Len(c)
  BY <1>1
<1>3. QED
  BY <1>1, <1>2 DEF Begins

\* A chunk is known by the paragraph it begins with.
LEMMA ExtentBegins ==
  ASSUME NEW c \in Seq(Paragraphs), NEW s \in Begins(c)
  PROVE  s \in Extent(c, s) /\ \A i \in Extent(c, s) : i \in Nat /\ s <= i
<1>1. Len(c) \in Nat /\ s \in 1 .. Len(c)
  BY BeginsIn
<1>2. s \in s .. Len(c)
  BY <1>1
<1>3. QED
  BY <1>1, <1>2 DEF Extent

\* Every paragraph is in the chunk of the last beginning up to it.
LEMMA ExtentsCover ==
  ASSUME NEW c \in Seq(Paragraphs), NEW i \in DOMAIN c
  PROVE  \E s \in Begins(c) : i \in Extent(c, s)
<1> DEFINE T == {b \in Begins(c) : b <= i}
<1>1. i \in 1 .. Len(c) /\ Len(c) \in Nat /\ Begins(c) \subseteq 1 .. Len(c) /\ 1 \in Begins(c)
  <2>1. i \in 1 .. Len(c) /\ Len(c) \in Nat /\ Begins(c) \subseteq 1 .. Len(c)
    BY BeginsIn
  <2>2. Len(c) # 0
    BY <2>1
  <2>3. QED
    BY <2>1, <2>2, BeginsIn
<1>2. T \subseteq Nat /\ 1 \in T /\ i \in Nat /\ \A b \in T : b <= i
  BY <1>1
<1> HIDE DEF T
<1>3. PICK s \in T : \A b \in T : b <= s
  BY <1>2, GreatestElement
<1>4. s \in Begins(c) /\ s <= i /\ \A b \in Begins(c) : b <= i => b <= s
  BY <1>3 DEF T
<1>5. s \in Nat /\ i \in s .. Len(c)
  BY <1>1, <1>4
<1>6. QED
  BY <1>4, <1>5 DEF Extent

LEMMA PartsFinite ==
  ASSUME NEW c \in Seq(Paragraphs)
  PROVE  IsFiniteSet(Parts(c)) /\ \A p \in Parts(c) : \E s \in Begins(c) : p = Extent(c, s)
<1>1. IsFiniteSet(Begins(c))
  <2>1. Len(c) \in Nat /\ Begins(c) \in SUBSET (1 .. Len(c))
    BY BeginsIn
  <2>2. IsFiniteSet(1 .. Len(c))
    BY <2>1, FS_Interval
  <2>3. QED
    BY <2>1, <2>2, FS_Subset
<1> DEFINE E == {Extent(c, s) : s \in Begins(c)}
           f == [s \in Begins(c) |-> Extent(c, s)]
<1>2. IsFiniteSet(E)
  <2>1. f \in Surjection(Begins(c), E)
    BY DEF Surjection
  <2>2. QED
    BY <1>1, <2>1, FS_Surjection
<1>3. Parts(c) \in SUBSET E
  BY DEF Parts
<1>4. QED
  BY <1>2, <1>3, FS_Subset

\* The numbers of the chunks: 0, 1, 2 and so on, each once.
LEMMA OrdersNumber ==
  ASSUME NEW c \in Seq(Paragraphs)
  PROVE  /\ {OrderOf(c, p) : p \in Parts(c)} = 0 .. Cardinality(Parts(c)) - 1
         /\ \A p, q \in Parts(c) : OrderOf(c, p) = OrderOf(c, q) => p = q
<1> DEFINE S == Parts(c)
           key == [p \in S |-> CHOOSE s \in Begins(c) : p = Extent(c, s)]
<1>1. \A p \in S : key[p] \in Begins(c) /\ p = Extent(c, key[p])
  BY PartsFinite
<1>2. key \in [S -> Nat]
  <2>1. Begins(c) \subseteq Nat
    BY BeginsIn
  <2>2. QED
    BY <1>1, <2>1
<1> HIDE DEF key
<1>3. \A p, q \in S : key[p] = key[q] => p = q
  BY <1>1
<1>4. ASSUME NEW p \in S
      PROVE  OrderOf(c, p) = Cardinality(Below(S, key, p))
  <2>1. ASSUME NEW q \in S
        PROVE  (\E i \in q : \A k \in p : i < k) <=> key[q] < key[p]
    <3>1. /\ key[p] \in p /\ \A i \in p : i \in Nat /\ key[p] <= i
          /\ key[q] \in q /\ \A i \in q : i \in Nat /\ key[q] <= i
      BY <1>1, ExtentBegins
    <3>2. ASSUME NEW i \in q, \A k \in p : i < k
          PROVE  key[q] < key[p]
      <4>1. i < key[p] /\ key[q] <= i /\ i \in Nat /\ key[p] \in Nat /\ key[q] \in Nat
        BY <3>1, <3>2
      <4>2. QED
        BY <4>1
    <3>3. ASSUME key[q] < key[p]
          PROVE  \A k \in p : key[q] < k
      <4>1. key[p] \in Nat /\ key[q] \in Nat
        BY <3>1
      <4>2. QED
        BY <3>1, <3>3, <4>1
    <3>4. QED
      BY <3>1, <3>2, <3>3
  <2>2. {q \in S : \E i \in q : \A k \in p : i < k} = {q \in S : key[q] < key[p]}
    BY <2>1
  <2>3. QED
    BY <2>2 DEF OrderOf, Below
<1>5. IsFiniteSet(S)
  BY PartsFinite
<1> HIDE DEF S
<1>6. /\ {Cardinality(Below(S, key, p)) : p \in S} = 0 .. Cardinality(S) - 1
      /\ \A p, q \in S : Cardinality(Below(S, key, p)) = Cardinality(Below(S, key, q)) => p = q
  BY <1>2, <1>3, <1>5, RanksNumber
<1>7. QED
  BY <1>4, <1>6 DEF S

\* The rows a publication makes of a content.
RowsOf(c, serial) ==
  {[order |-> r.order, text |-> r.text, serial |-> serial] : r \in Chunk(c)}

LEMMA RowsNumber ==
  ASSUME NEW c \in Seq(Paragraphs), NEW serial
  PROVE  /\ IsFiniteSet(RowsOf(c, serial))
         /\ {r.order : r \in RowsOf(c, serial)} = 0 .. Cardinality(RowsOf(c, serial)) - 1
<1> DEFINE S == Parts(c)
           row(p) == [order |-> OrderOf(c, p), text |-> {c[i] : i \in p}, serial |-> serial]
           R == RowsOf(c, serial)
           f == [p \in S |-> row(p)]
<1>1. R = {row(p) : p \in S}
  <2>1. ASSUME NEW r \in R
        PROVE  r \in {row(p) : p \in S}
    BY DEF RowsOf, Chunk
  <2>2. ASSUME NEW p \in S
        PROVE  row(p) \in R
    <3> DEFINE h == [order |-> OrderOf(c, p), text |-> {c[i] : i \in p}, part |-> p]
    <3>1. h \in Chunk(c) /\ h.order = OrderOf(c, p) /\ h.text = {c[i] : i \in p}
      BY DEF Chunk
    <3> HIDE DEF h
    <3>2. [order |-> h.order, text |-> h.text, serial |-> serial] \in R
      BY <3>1 DEF RowsOf
    <3>3. QED
      BY <3>1, <3>2
  <2>3. QED
    BY <2>1, <2>2
<1>2. \A p \in S : row(p).order = OrderOf(c, p)
  OBVIOUS
<1> HIDE DEF row, R
<1>3. f \in [S -> R] /\ \A r \in R : \E p \in S : f[p] = r
  BY <1>1
<1>4. \A p, q \in S : f[p] = f[q] => p = q
  <2>1. ASSUME NEW p \in S, NEW q \in S, row(p) = row(q)
        PROVE  p = q
    BY <1>2, <2>1, OrdersNumber
  <2>2. QED
    BY <2>1
<1>5. f \in Bijection(S, R)
  <2> HIDE DEF f, S
  <2>1. QED
    BY <1>3, <1>4 DEF Bijection, Injection, IsInjective, Surjection
<1>6. IsFiniteSet(S) /\ ExistsBijection(S, R)
  BY <1>5, PartsFinite DEF ExistsBijection
<1>7. IsFiniteSet(R) /\ Cardinality(R) = Cardinality(S)
  BY <1>6, FS_Bijection
<1>8. {r.order : r \in R} = {OrderOf(c, p) : p \in S}
  BY <1>1, <1>2
<1>9. QED
  BY <1>7, <1>8, OrdersNumber DEF R

LEMMA RowsHold ==
  ASSUME NEW c \in Seq(Paragraphs), NEW serial
  PROVE  /\ \A r \in RowsOf(c, serial) : r.serial = serial
         /\ {r.text : r \in RowsOf(c, serial)} = {r.text : r \in Chunk(c)}
         /\ \A i \in DOMAIN c : c[i].size > 0 => \E r \in RowsOf(c, serial) : c[i] \in r.text
<1> DEFINE R == RowsOf(c, serial)
           row(r) == [order |-> r.order, text |-> r.text, serial |-> serial]
<1>1. R = {row(r) : r \in Chunk(c)} /\ \A r \in Chunk(c) : row(r).text = r.text /\ row(r).serial = serial
  BY DEF RowsOf
<1>2. (\A r \in R : r.serial = serial) /\ {r.text : r \in R} = {r.text : r \in Chunk(c)}
  <2> HIDE DEF R, row
  <2>1. QED
    BY <1>1
<1>3. ASSUME NEW i \in DOMAIN c, c[i].size > 0
      PROVE  \E r \in R : c[i] \in r.text
  <2>1. PICK s \in Begins(c) : i \in Extent(c, s)
    BY ExtentsCover
  <2> DEFINE p == Extent(c, s)
             h == [order |-> OrderOf(c, p), text |-> {c[k] : k \in p}, part |-> p]
  <2>2. p \in Parts(c)
    BY <1>3, <2>1 DEF Parts
  <2> HIDE DEF p
  <2>3. h \in Chunk(c) /\ c[i] \in h.text
    BY <2>1, <2>2 DEF Chunk, p
  <2> HIDE DEF h, row, R
  <2>4. row(h) \in R /\ c[i] \in row(h).text
    BY <1>1, <2>3
  <2>5. QED
    BY <2>4
<1>4. QED
  BY <1>2, <1>3

-----------------------------------------------------------------------------
(* The publication of documents.                                           *)

DocumentRows ==
  [content : Contents, status : {"ACTIVE", "INACTIVE"}, type : AllowedTypes, serial : Nat]

Works ==
  [pc : Statuses, todo : Seq(Docs), content : Contents \cup {<<>>},
   op : {"none", "INGEST", "REINGEST", "SKIPPED_UNCHANGED"}, linked : BOOLEAN, hops : 0 .. 2]

\* A process that is to write a content has one that was loaded.
Carries(j) ==
  /\ j.pc # "idle" => j.todo # <<>>
  /\ \/ j.pc \in {"prepare", "publish", "opened", "saved"}
     \/ j.pc \in {"source", "register"} /\ Corpus[SourceOf[j.todo[1]]] = "PUBLIC"
     => j.content \in Contents

RagShape ==
  /\ file \in [Docs -> Contents]
  /\ source \in [Sources -> {"absent", "ACTIVE", "INACTIVE"}]
  /\ document \in [Docs -> DocumentRows \cup {Absent}]
  /\ chunk = [d \in Docs |-> chunk[d]]
  /\ job \in [Publishers -> Works]
  /\ jobs \in 0 .. MaxJobs /\ edits \in 0 .. MaxEdits

SerialsBounded == \E n \in Nat : \A d \in Docs : document[d].serial <= n

RagInv ==
  RagShape /\ SerialsBounded /\ WholeDocuments /\ \A p \in Publishers : Carries(job[p])

LEMMA AbsentIsNoRow ==
  /\ Absent \notin DocumentRows /\ Absent.serial = 0 /\ Absent.status = "absent"
BY DEF Absent, DocumentRows

LEMMA ContentsTyped == \A c \in Contents : c \in Seq(Paragraphs)
BY RagAssumption DEF Paragraphs

\* The next serial is a number, and so every publication's number bounds the rest.
LEMMA NextSerialBounds ==
  ASSUME RagShape, SerialsBounded, NEW e \in Docs
  PROVE  NextSerial \in Nat /\ \A d \in Docs : document[d].serial <= NextSerial
<1> DEFINE T == {document[d].serial : d \in Docs}
<1>1. \A d \in Docs : document[d].serial \in Nat
  BY AbsentIsNoRow DEF RagShape, DocumentRows
<1>2. PICK n \in Nat : \A d \in Docs : document[d].serial <= n
  BY DEF SerialsBounded
<1>3. T \subseteq Nat /\ T # {} /\ \A x \in T : x <= n
  BY <1>1, <1>2
<1>4. \E x \in T : \A y \in T : y <= x
  <2> HIDE DEF T
  <2>1. QED
    BY <1>3, GreatestElement
<1> DEFINE m == CHOOSE k \in {document[d].serial : d \in Docs} : \A d \in Docs : document[d].serial <= k
<1>5. m \in T /\ \A d \in Docs : document[d].serial <= m
  BY <1>4
<1>6. NextSerial = 1 + m
  BY DEF NextSerial
<1> HIDE DEF m
<1>7. QED
  BY <1>1, <1>3, <1>5, <1>6

LEMMA TypesAllowed ==
  ASSUME NEW d
  PROVE  ResolveDocumentType(d) \in AllowedTypes
BY DEF ResolveDocumentType, AllowedTypes

\* What another process holds is not touched.
LEMMA OneWorks ==
  ASSUME RagInv, NEW p \in Publishers, NEW new \in Works, Carries(new), job' = [job EXCEPT ![p] = new]
  PROVE  job' \in [Publishers -> Works] /\ \A q \in Publishers : Carries(job'[q])
BY DEF RagInv, RagShape

LEMMA IdleWorks == Idle \in Works /\ Carries(Idle)
<1>1. <<>> \in Seq(Docs)
  OBVIOUS
<1>2. QED
  BY <1>1 DEF Idle, Works, Carries, Statuses

\* A field of a piece of work replaced.
LEMMA WorkReplaced ==
  ASSUME NEW j \in Works
  PROVE  /\ \A x \in Statuses : LET n == [j EXCEPT !.pc = x]
                                IN n \in Works /\ n.pc = x /\ n.todo = j.todo /\ n.content = j.content
         /\ \A x \in Seq(Docs) : LET n == [j EXCEPT !.todo = x]
                                 IN n \in Works /\ n.pc = j.pc /\ n.todo = x /\ n.content = j.content
         /\ \A x \in Contents : LET n == [j EXCEPT !.content = x]
                                IN n \in Works /\ n.pc = j.pc /\ n.todo = j.todo /\ n.content = x
         /\ \A x \in {"INGEST", "REINGEST", "SKIPPED_UNCHANGED"} :
              LET n == [j EXCEPT !.op = x]
              IN n \in Works /\ n.pc = j.pc /\ n.todo = j.todo /\ n.content = j.content
         /\ \A x \in BOOLEAN : LET n == [j EXCEPT !.linked = x]
                               IN n \in Works /\ n.pc = j.pc /\ n.todo = j.todo /\ n.content = j.content
         /\ \A x \in 0 .. 2 : LET n == [j EXCEPT !.hops = x]
                              IN n \in Works /\ n.pc = j.pc /\ n.todo = j.todo /\ n.content = j.content
<1>1. ASSUME NEW x \in Statuses
      PROVE  LET n == [j EXCEPT !.pc = x]
             IN n \in Works /\ n.pc = x /\ n.todo = j.todo /\ n.content = j.content
  BY DEF Works
<1>2. ASSUME NEW x \in Seq(Docs)
      PROVE  LET n == [j EXCEPT !.todo = x]
             IN n \in Works /\ n.pc = j.pc /\ n.todo = x /\ n.content = j.content
  BY DEF Works
<1>3. ASSUME NEW x \in Contents
      PROVE  LET n == [j EXCEPT !.content = x]
             IN n \in Works /\ n.pc = j.pc /\ n.todo = j.todo /\ n.content = x
  BY DEF Works
<1>4. ASSUME NEW x \in {"INGEST", "REINGEST", "SKIPPED_UNCHANGED"}
      PROVE  LET n == [j EXCEPT !.op = x]
             IN n \in Works /\ n.pc = j.pc /\ n.todo = j.todo /\ n.content = j.content
  BY DEF Works
<1>5. ASSUME NEW x \in BOOLEAN
      PROVE  LET n == [j EXCEPT !.linked = x]
             IN n \in Works /\ n.pc = j.pc /\ n.todo = j.todo /\ n.content = j.content
  BY DEF Works
<1>6. ASSUME NEW x \in 0 .. 2
      PROVE  LET n == [j EXCEPT !.hops = x]
             IN n \in Works /\ n.pc = j.pc /\ n.todo = j.todo /\ n.content = j.content
  BY DEF Works
<1>7. QED
  BY <1>1, <1>2, <1>3, <1>4, <1>5, <1>6

LEMMA ContinuesWorks ==
  ASSUME RagInv, NEW p \in Publishers, ~In(p, "idle"), Continues(p)
  PROVE  job' \in [Publishers -> Works] /\ \A q \in Publishers : Carries(job'[q])
<1>1. job[p] \in Works /\ job[p].todo \in Seq(Docs) /\ job[p].todo # <<>>
  BY DEF RagInv, RagShape, Works, Carries, In
<1> DEFINE t == job[p].todo
           pc == IF Public(p) THEN "acquire" ELSE "load"
           begun == [Idle EXCEPT !.pc = pc]
           next == [begun EXCEPT !.todo = Tail(t)]
<1>2. job' = [job EXCEPT ![p] = IF Len(t) = 1 THEN Idle ELSE next]
  BY DEF Continues
<1>3. CASE Len(t) = 1
  <2>1. job' = [job EXCEPT ![p] = Idle]
    BY <1>2, <1>3
  <2>2. QED
    BY <2>1, IdleWorks, OneWorks
<1>4. CASE Len(t) # 1
  <2>1. Tail(t) \in Seq(Docs) /\ Tail(t) # <<>>
    <3>1. t \in Seq(Docs) /\ t # <<>> /\ Len(t) # 1
      BY <1>1, <1>4
    <3> HIDE DEF t
    <3>2. Tail(t) \in Seq(Docs) /\ Len(Tail(t)) = Len(t) - 1 /\ Len(t) \in Nat /\ Len(t) # 0
      BY <3>1
    <3> DEFINE u == Tail(t)
    <3>3. u \in Seq(Docs) /\ Len(u) # 0
      BY <3>1, <3>2
    <3> HIDE DEF u
    <3>4. u # <<>>
      BY <3>3
    <3>5. QED
      BY <3>2, <3>4 DEF u
  <2>2. pc \in {"acquire", "load"} /\ pc \in Statuses
    BY DEF Statuses
  <2> HIDE DEF pc, t
  <2>3. begun \in Works /\ begun.pc = pc
    BY <2>2, IdleWorks, WorkReplaced
  <2> HIDE DEF begun
  <2>4. next \in Works /\ next.pc = pc /\ next.todo = Tail(t)
    BY <2>1, <2>3, WorkReplaced
  <2> HIDE DEF next
  <2>5. Carries(next)
    BY <2>1, <2>2, <2>4 DEF Carries
  <2>6. job' = [job EXCEPT ![p] = next]
    BY <1>2, <1>4 DEF t
  <2>7. QED
    BY <2>4, <2>5, <2>6, OneWorks
<1>5. QED
  BY <1>3, <1>4

-----------------------------------------------------------------------------
(* The steps that leave documents and their chunks as they are.            *)

\* What is whole stays so while runs are added.
LEMMA StaysWhole ==
  ASSUME RagInv, UNCHANGED <<document, chunk>>, runs \subseteq runs'
  PROVE  WholeDocuments' /\ SerialsBounded'
<1>1. SerialsBounded'
  BY DEF RagInv, SerialsBounded
<1>2. WholeDocuments'
  BY DEF RagInv, WholeDocuments
<1>3. QED
  BY <1>1, <1>2

LEMMA JobStep ==
  ASSUME RagInv, NEW p \in Publishers, NEW new \in Works, Carries(new), job' = [job EXCEPT ![p] = new],
         file' = file, source' \in [Sources -> {"absent", "ACTIVE", "INACTIVE"}],
         UNCHANGED <<document, chunk, runs, edits>>, jobs' \in 0 .. MaxJobs
  PROVE  RagInv'
<1>1. RagShape'
  BY OneWorks DEF RagInv, RagShape
<1>2. QED
  BY <1>1, OneWorks, StaysWhole DEF RagInv

\* The document a process is at.
LEMMA AtWork ==
  ASSUME RagInv, NEW p \in Publishers, ~In(p, "idle")
  PROVE  /\ job[p] \in Works /\ Target(p) \in Docs /\ Carries(job[p])
         /\ file[Target(p)] \in Contents /\ SourceOf[Target(p)] \in Sources
<1>1. job[p] \in Works /\ Carries(job[p])
  BY DEF RagInv, RagShape
<1>2. job[p].todo \in Seq(Docs) /\ job[p].todo # <<>>
  BY <1>1 DEF Works, Carries, In
<1>3. Target(p) \in Docs
  BY <1>2 DEF Target
<1>4. QED
  BY <1>1, <1>3, RagAssumption DEF RagInv, RagShape

LEMMA PublishKeeps ==
  ASSUME RagInv, NEW p \in Publishers, Publish(p)
  PROVE  RagInv'
<1>1. PICK todo \in Jobs : job' = [job EXCEPT ![p] = [Idle EXCEPT
        !.pc = IF Corpus[SourceOf[todo[1]]] = "PUBLIC" THEN "acquire" ELSE "source", !.todo = todo]]
  BY DEF Publish
<1> DEFINE pc == IF Corpus[SourceOf[todo[1]]] = "PUBLIC" THEN "acquire" ELSE "source"
           begun == [Idle EXCEPT !.pc = pc]
           new == [begun EXCEPT !.todo = todo]
<1>2. todo \in Seq(Docs) /\ todo # <<>>
  BY RagAssumption
<1>3. pc \in Statuses /\ pc \in {"acquire", "source"} /\ (pc = "source" => Corpus[SourceOf[todo[1]]] # "PUBLIC")
  BY DEF Statuses
<1>4. job' = [job EXCEPT ![p] = new]
  BY <1>1
<1> HIDE DEF pc
<1>5. begun \in Works /\ begun.pc = pc
  BY <1>3, IdleWorks, WorkReplaced
<1> HIDE DEF begun
<1>6. new \in Works /\ new.pc = pc /\ new.todo = todo
  BY <1>2, <1>5, WorkReplaced
<1> HIDE DEF new
<1>7. Carries(new)
  BY <1>2, <1>3, <1>6 DEF Carries
<1>8. jobs' \in 0 .. MaxJobs
  BY RagAssumption DEF Publish, RagInv, RagShape
<1>9. /\ file' = file /\ source' \in [Sources -> {"absent", "ACTIVE", "INACTIVE"}]
      /\ UNCHANGED <<document, chunk, runs, edits>>
  BY DEF Publish, RagInv, RagShape
<1>10. QED
  BY <1>4, <1>6, <1>7, <1>8, <1>9, JobStep

\* The steps before the transaction.
Prepares(p) ==
  Redirected(p) \/ Acquired(p) \/ FindSource(p) \/ Register(p) \/ Load(p) \/ Prepare(p)
    \/ OpenRun(p) \/ Save(p)

LEMMA PreparesKeeps ==
  ASSUME RagInv, NEW p \in Publishers, Prepares(p)
  PROVE  RagInv'
<1>1. ~In(p, "idle")
  BY DEF Prepares, Redirected, Acquired, FindSource, Register, Load, Prepare, OpenRun, Save, In
<1>2. /\ job[p] \in Works /\ Target(p) \in Docs /\ Carries(job[p])
      /\ file[Target(p)] \in Contents /\ SourceOf[Target(p)] \in Sources
  BY <1>1, AtWork
<1>3. /\ file' = file /\ source' \in [Sources -> {"absent", "ACTIVE", "INACTIVE"}]
      /\ UNCHANGED <<document, chunk, runs, edits>> /\ jobs' \in 0 .. MaxJobs
  <2>1. source \in [Sources -> {"absent", "ACTIVE", "INACTIVE"}] /\ jobs \in 0 .. MaxJobs
    BY DEF RagInv, RagShape
  <2>2. QED
    BY <1>2, <2>1 DEF Prepares, Redirected, Acquired, FindSource, Register, Load, Prepare, OpenRun, Save
<1>4. \A new \in Works : Carries(new) /\ job' = [job EXCEPT ![p] = new] => RagInv'
  BY <1>3, JobStep
<1>5. CASE Redirected(p)
  <2> DEFINE hops == job[p].hops + 1
             new == [job[p] EXCEPT !.hops = hops]
  <2>1. hops \in 0 .. 2
    BY <1>2, <1>5 DEF Works, Redirected
  <2>2. job' = [job EXCEPT ![p] = new]
    BY <1>5 DEF Redirected
  <2> HIDE DEF hops
  <2>3. new \in Works /\ new.pc = job[p].pc /\ new.todo = job[p].todo /\ new.content = job[p].content
    BY <1>2, <2>1, WorkReplaced
  <2> HIDE DEF new
  <2>4. Carries(new)
    BY <1>2, <2>3 DEF Carries
  <2>5. QED
    BY <1>4, <2>2, <2>3, <2>4
<1>6. ASSUME NEW pc \in {"source", "prepare"},
             job' = [job EXCEPT ![p].pc = pc, ![p].content = file[Target(p)]]
      PROVE  RagInv'
  <2> DEFINE content == file[Target(p)]
             moved == [job[p] EXCEPT !.pc = pc]
             new == [moved EXCEPT !.content = content]
  <2>1. pc \in Statuses /\ content \in Contents
    BY <1>2 DEF Statuses
  <2>2. job' = [job EXCEPT ![p] = new]
    BY <1>6
  <2> HIDE DEF content
  <2>3. moved \in Works /\ moved.pc = pc /\ moved.todo = job[p].todo
    BY <1>2, <2>1, WorkReplaced
  <2> HIDE DEF moved
  <2>4. new \in Works /\ new.pc = pc /\ new.todo = job[p].todo /\ new.content = content
    BY <2>1, <2>3, WorkReplaced
  <2> HIDE DEF new
  <2>5. Carries(new)
    BY <1>1, <1>2, <2>1, <2>4 DEF Carries, In
  <2>6. QED
    BY <1>4, <2>2, <2>4, <2>5
<1>7. CASE Acquired(p) \/ Load(p)
  BY <1>6, <1>7 DEF Acquired, Load
<1>8. ASSUME NEW pc \in {"register", "prepare", "load", "saved"}, Goes(p, pc),
             pc = "register" => In(p, "source"), pc = "prepare" => Public(p) /\ (In(p, "source") \/ In(p, "register")),
             pc = "saved" => In(p, "opened")
      PROVE  RagInv'
  <2> DEFINE new == [job[p] EXCEPT !.pc = pc]
  <2>1. job' = [job EXCEPT ![p] = new]
    BY <1>8 DEF Goes
  <2>2. pc \in Statuses
    BY DEF Statuses
  <2>3. new \in Works /\ new.pc = pc /\ new.todo = job[p].todo /\ new.content = job[p].content
    BY <1>2, <2>2, WorkReplaced
  <2> HIDE DEF new
  <2>4. Carries(new)
    BY <1>1, <1>2, <1>8, <2>3 DEF Carries, In, Public, Target
  <2>5. QED
    BY <1>4, <2>1, <2>3, <2>4
<1>9. CASE FindSource(p) \/ Register(p) \/ Save(p)
  BY <1>8, <1>9 DEF FindSource, Register, Save
<1>10. CASE Prepare(p)
  <2> DEFINE op == Operation(document[Target(p)], job[p].content)
             moved == [job[p] EXCEPT !.pc = "publish"]
             new == [moved EXCEPT !.op = op]
  <2>1. "publish" \in Statuses /\ op \in {"INGEST", "REINGEST", "SKIPPED_UNCHANGED"}
    BY DEF Statuses, Operation
  <2>2. job' = [job EXCEPT ![p] = new]
    BY <1>10 DEF Prepare
  <2> HIDE DEF op
  <2>3. moved \in Works /\ moved.pc = "publish" /\ moved.todo = job[p].todo /\ moved.content = job[p].content
    BY <1>2, <2>1, WorkReplaced
  <2> HIDE DEF moved
  <2>4. new \in Works /\ new.pc = "publish" /\ new.todo = job[p].todo /\ new.content = job[p].content
    BY <2>1, <2>3, WorkReplaced
  <2> HIDE DEF new
  <2>5. Carries(new)
    BY <1>1, <1>2, <1>10, <2>4 DEF Carries, In, Prepare
  <2>6. QED
    BY <1>4, <2>2, <2>4, <2>5
<1>11. CASE OpenRun(p)
  <2> DEFINE linked == (document[Target(p)] # Absent)
             moved == [job[p] EXCEPT !.pc = "opened"]
             new == [moved EXCEPT !.linked = linked]
  <2>1. "opened" \in Statuses /\ linked \in BOOLEAN
    BY DEF Statuses
  <2>2. job' = [job EXCEPT ![p] = new]
    BY <1>11 DEF OpenRun
  <2> HIDE DEF linked
  <2>3. moved \in Works /\ moved.pc = "opened" /\ moved.todo = job[p].todo /\ moved.content = job[p].content
    BY <1>2, <2>1, WorkReplaced
  <2> HIDE DEF moved
  <2>4. new \in Works /\ new.pc = "opened" /\ new.todo = job[p].todo /\ new.content = job[p].content
    BY <2>1, <2>3, WorkReplaced
  <2> HIDE DEF new
  <2>5. Carries(new)
    BY <1>1, <1>2, <1>11, <2>4 DEF Carries, In, OpenRun
  <2>6. QED
    BY <1>4, <2>2, <2>4, <2>5
<1>12. QED
  BY <1>5, <1>7, <1>9, <1>10, <1>11 DEF Prepares

\* A transaction that only records its run, and one that leaves nothing.
LEMMA EndsKeep ==
  ASSUME RagInv, NEW p \in Publishers, Skip(p) \/ Fails(p)
  PROVE  RagInv'
<1>1. ~In(p, "idle")
  BY DEF Skip, Fails, In
<1>2. Continues(p) \/ job' = [job EXCEPT ![p] = Idle]
  BY DEF Skip, Fails
<1>3. job' \in [Publishers -> Works] /\ \A q \in Publishers : Carries(job'[q])
  BY <1>1, <1>2, ContinuesWorks, IdleWorks, OneWorks
<1>4. UNCHANGED <<file, source, document, chunk, jobs, edits>> /\ runs \subseteq runs'
  BY DEF Skip, Fails
<1>5. WholeDocuments' /\ SerialsBounded'
  BY <1>4, StaysWhole
<1>6. QED
  BY <1>3, <1>4, <1>5 DEF RagInv, RagShape

LEMMA HandsKeep ==
  ASSUME RagInv, Edit \/ Withdraw
  PROVE  RagInv'
<1>1. edits' \in 0 .. MaxEdits /\ UNCHANGED <<chunk, runs, job, jobs>>
  BY RagAssumption DEF RagInv, RagShape, Edit, Withdraw
<1>2. CASE UNCHANGED document
  <2>1. file' \in [Docs -> Contents] /\ source' \in [Sources -> {"absent", "ACTIVE", "INACTIVE"}]
    BY DEF RagInv, RagShape, Edit, Withdraw
  <2>2. WholeDocuments' /\ SerialsBounded'
    BY <1>1, <1>2, StaysWhole
  <2>3. QED
    BY <1>1, <1>2, <2>1, <2>2 DEF RagInv, RagShape
<1>3. CASE \E d \in Docs : /\ document[d].status = "ACTIVE"
                           /\ document' = [document EXCEPT ![d].status = "INACTIVE"]
                           /\ UNCHANGED <<file, source>>
  <2>1. PICK d \in Docs : /\ document[d].status = "ACTIVE"
                          /\ document' = [document EXCEPT ![d].status = "INACTIVE"]
                          /\ UNCHANGED <<file, source>>
    BY <1>3
  <2> DEFINE row == [document[d] EXCEPT !.status = "INACTIVE"]
  <2>2. document[d] \in DocumentRows /\ document \in [Docs -> DocumentRows \cup {Absent}]
    BY <2>1, AbsentIsNoRow DEF RagInv, RagShape
  <2>3. row \in DocumentRows /\ row.content = document[d].content /\ row.serial = document[d].serial
    BY <2>2 DEF DocumentRows
  <2>4. document' = [document EXCEPT ![d] = row]
    BY <2>1
  <2> HIDE DEF row
  <2>5. document' \in [Docs -> DocumentRows \cup {Absent}]
    BY <2>2, <2>3, <2>4
  <2>6. \A e \in Docs : /\ document'[e].content = document[e].content
                        /\ document'[e].serial = document[e].serial
                        /\ document'[e] = Absent <=> document[e] = Absent
    BY <2>2, <2>3, <2>4, AbsentIsNoRow
  <2>7. SerialsBounded'
    BY <2>6 DEF RagInv, SerialsBounded
  <2>8. WholeDocuments'
    BY <1>1, <2>6 DEF RagInv, WholeDocuments
  <2>9. QED
    BY <1>1, <2>1, <2>5, <2>7, <2>8 DEF RagInv, RagShape
<1>4. QED
  BY <1>2, <1>3 DEF Edit, Withdraw

\* WholeDocuments, of one document.
IsWhole(d, row, rows, recorded) ==
  IF row = Absent THEN rows = {}
  ELSE /\ {r.order : r \in rows} = 0 .. Cardinality(rows) - 1
       /\ \A r \in rows : r.serial = row.serial
       /\ {r.text : r \in rows} = {r.text : r \in Chunk(row.content)}
       /\ \A i \in DOMAIN row.content :
            row.content[i].size > 0 => \E r \in rows : row.content[i] \in r.text
       /\ \E r \in recorded : r.doc = d /\ r.status = "SUCCESS" /\ r.chunks = Cardinality(rows)

\* A publication leaves one whole version, the one it was given.
LEMMA CommitKeeps ==
  ASSUME RagInv, NEW p \in Publishers, Commit(p)
  PROVE  RagInv'
<1> DEFINE d == Target(p)
           c == job[p].content
           n == NextSerial
           row == [content |-> c, status |-> "ACTIVE", type |-> ResolveDocumentType(d), serial |-> n]
           rows == RowsOf(c, n)
           run == Run(p, "SUCCESS", job[p].linked, Cardinality(rows))
<1>1. In(p, "saved") /\ ~In(p, "idle")
  BY DEF Commit, In
<1>2. job[p] \in Works /\ d \in Docs /\ Carries(job[p])
  BY <1>1, AtWork
<1>3. c \in Contents /\ c \in Seq(Paragraphs)
  BY <1>1, <1>2, ContentsTyped DEF Carries, In
<1>4. Rows(p) = rows
  BY DEF Rows, RowsOf
<1>5. /\ document' = [document EXCEPT ![d] = row] /\ chunk' = [chunk EXCEPT ![d] = rows]
      /\ runs' = runs \cup {run} /\ Continues(p) /\ UNCHANGED <<file, source, jobs, edits>>
  BY <1>4 DEF Commit, Replaced
<1>6. n \in Nat /\ \A e \in Docs : document[e].serial <= n
  BY <1>2, NextSerialBounds DEF RagInv
<1>7. run.doc = d /\ run.status = "SUCCESS" /\ run.chunks = Cardinality(rows)
  BY DEF Run
<1>8. /\ {r.order : r \in rows} = 0 .. Cardinality(rows) - 1
      /\ \A r \in rows : r.serial = n
      /\ {r.text : r \in rows} = {r.text : r \in Chunk(c)}
      /\ \A i \in DOMAIN c : c[i].size > 0 => \E r \in rows : c[i] \in r.text
  BY <1>3, RowsNumber, RowsHold
<1> HIDE DEF d, c, n, rows, run
<1>9. /\ row \in DocumentRows /\ row # Absent /\ row.content = c /\ row.serial = n
  <2>1. row \in DocumentRows
    BY <1>3, <1>6, TypesAllowed DEF DocumentRows
  <2>2. QED
    BY <2>1, AbsentIsNoRow
<1> HIDE DEF row
<1>10. job' \in [Publishers -> Works] /\ \A q \in Publishers : Carries(job'[q])
  BY <1>1, <1>5, ContinuesWorks
<1>11. RagShape'
  BY <1>2, <1>5, <1>9, <1>10 DEF RagInv, RagShape
<1>12. /\ document'[d] = row /\ chunk'[d] = rows
       /\ \A e \in Docs : e # d => document'[e] = document[e] /\ chunk'[e] = chunk[e]
  BY <1>2, <1>5 DEF RagInv, RagShape
<1>13. SerialsBounded'
  BY <1>6, <1>9, <1>12 DEF SerialsBounded
<1>14. WholeDocuments'
  <2>1. ASSUME NEW e \in Docs
        PROVE  IsWhole(e, document'[e], chunk'[e], runs')
    <3>1. CASE e = d
      BY <1>5, <1>7, <1>8, <1>9, <1>12, <3>1 DEF IsWhole
    <3>2. CASE e # d
      <4>1. IsWhole(e, document[e], chunk[e], runs)
        BY DEF RagInv, WholeDocuments, IsWhole
      <4>2. runs \subseteq runs'
        BY <1>5
      <4>3. IsWhole(e, document[e], chunk[e], runs')
        BY <4>1, <4>2 DEF IsWhole
      <4>4. QED
        BY <1>12, <3>2, <4>3
    <3>3. QED
      BY <3>1, <3>2
  <2>2. QED
    BY <2>1 DEF WholeDocuments, IsWhole
<1>15. QED
  BY <1>10, <1>11, <1>13, <1>14 DEF RagInv

LEMMA RagStep ==
  ASSUME RagInv, [RagNext]_ragVars
  PROVE  RagInv'
<1>1. CASE Edit \/ Withdraw
  BY <1>1, HandsKeep
<1>2. CASE \E p \in Publishers : PublisherStep(p)
  <2>1. PICK p \in Publishers : PublisherStep(p)
    BY <1>2
  <2>2. Publish(p) \/ Prepares(p) \/ Skip(p) \/ Fails(p) \/ Commit(p)
    BY <2>1 DEF PublisherStep, Prepares
  <2>3. QED
    BY <2>2, PublishKeeps, PreparesKeeps, EndsKeep, CommitKeeps
<1>3. CASE UNCHANGED ragVars
  <2>1. UNCHANGED <<document, chunk, runs, file, source, job, jobs, edits>>
    BY <1>3 DEF ragVars
  <2>2. WholeDocuments' /\ SerialsBounded'
    BY <2>1, StaysWhole
  <2>3. QED
    BY <2>1, <2>2 DEF RagInv, RagShape
<1>4. QED
  BY <1>1, <1>2, <1>3 DEF RagNext

LEMMA RagInitHolds == RagInit => RagInv
<1> SUFFICES ASSUME RagInit
             PROVE  RagInv
  OBVIOUS
<1>1. RagShape
  <2>1. job \in [Publishers -> Works]
    BY IdleWorks DEF RagInit
  <2>2. jobs \in 0 .. MaxJobs /\ edits \in 0 .. MaxEdits
    BY RagAssumption DEF RagInit
  <2>3. document \in [Docs -> DocumentRows \cup {Absent}] /\ source \in [Sources -> {"absent", "ACTIVE", "INACTIVE"}]
    BY DEF RagInit
  <2>4. QED
    BY <2>1, <2>2, <2>3 DEF RagShape, RagInit
<1>2. SerialsBounded
  <2>1. \A d \in Docs : document[d].serial <= 0
    BY AbsentIsNoRow DEF RagInit
  <2>2. QED
    BY <2>1 DEF SerialsBounded
<1>3. WholeDocuments
  BY DEF RagInit, WholeDocuments
<1>4. \A p \in Publishers : Carries(job[p])
  BY IdleWorks DEF RagInit
<1>5. QED
  BY <1>1, <1>2, <1>3, <1>4 DEF RagInv

LEMMA RagInvariant == RagSpec => []RagInv
<1>1. QED
  BY RagInitHolds, RagStep, PTL DEF RagSpec

LEMMA RagTypes ==
  ASSUME RagInv
  PROVE  RagTypeOK
BY DEF RagInv, RagShape, RagTypeOK, DocumentRows, Works

\* However publications of a document overlap, are edited under, fail or die, what
\* is stored of it is one whole version: its chunks are those of the content its row
\* names, numbered without a gap, and hold every paragraph that is not blank; for any
\* processes, documents, contents and safeguard (publication/service.py publish,
\* repositories/rag.py replace_document_chunks, chunking.py).
THEOREM RagWholeDocuments == RagSpec => []WholeDocuments
BY RagInvariant, PTL DEF RagInv

-----------------------------------------------------------------------------
(* Questions.                                                              *)

QuestionFields == {"pc", "scope", "query", "snapshot", "lexical", "evidence", "status"}

QuestionStatuses == {"none", "ANSWERED", "INSUFFICIENT_EVIDENCE", "PROVIDER_ERROR", "ASKS_PLACE", "raised"}

\* A set of rows without two versions of a document.
OneVersion(rows) == \A x, y \in rows : x.doc = y.doc => x.serial = y.serial

Reads(q) ==
  /\ q = [f \in QuestionFields |-> q[f]]
  /\ q.pc \in {"free", "formulate", "lexical", "semantic", "search", "generate"}
  /\ q.status \in QuestionStatuses
  /\ q.pc \in {"formulate", "lexical", "semantic"} => q.scope \in Scopes
  /\ q.pc = "search" => q.scope = "WEB"
  /\ q.pc = "semantic" =>
       /\ IsFiniteSet(q.snapshot) /\ OneVersion(q.snapshot)
       /\ q.lexical \in Seq(q.snapshot)
  /\ IF q.pc = "generate" /\ q.scope \in Scopes
     THEN /\ q.evidence \in Seq({q.evidence[i] : i \in DOMAIN q.evidence}) /\ Len(q.evidence) <= TopK
          /\ OneVersion({q.evidence[i].row : i \in DOMAIN q.evidence})
     ELSE q.scope \in Scopes \cup {"NONE"} => q.evidence = <<>>

ChunksFinite == \A d \in Docs : IsFiniteSet(chunk[d])

AnswersInv == RagInv /\ ChunksFinite /\ Reads(question)

LEMMA BaseIsOneVersion ==
  ASSUME RagInv, ChunksFinite, NEW scope
  PROVE  IsFiniteSet(InBase(scope)) /\ OneVersion(InBase(scope))
<1> DEFINE A == {e \in Docs : /\ document[e].status = "ACTIVE"
                              /\ source[SourceOf[e]] = "ACTIVE"
                              /\ Corpus[SourceOf[e]] \in OriginOf(scope)}
           row(d, r) == [doc |-> d, type |-> document[d].type, serial |-> r.serial, order |-> r.order]
           of(d) == {row(d, r) : r \in chunk[d]}
           f == [d \in A |-> of(d)]
<1>1. InBase(scope) = UNION {of(d) : d \in A}
  BY DEF InBase
<1>2. ASSUME NEW d \in A
      PROVE  IsFiniteSet(of(d))
  <2> DEFINE g == [r \in chunk[d] |-> row(d, r)]
  <2>1. g \in Surjection(chunk[d], of(d))
    <3> HIDE DEF row
    <3>1. QED
      BY DEF Surjection
  <2>2. IsFiniteSet(chunk[d])
    BY DEF ChunksFinite
  <2> HIDE DEF g, of
  <2>3. QED
    BY <2>1, <2>2, FS_Surjection
<1>3. IsFiniteSet({of(d) : d \in A})
  <2>1. IsFiniteSet(A)
    BY RagAssumption, FS_Subset
  <2>2. f \in Surjection(A, {of(d) : d \in A})
    <3> HIDE DEF of, A
    <3>1. QED
      BY DEF Surjection
  <2> HIDE DEF f, of, A
  <2>3. QED
    BY <2>1, <2>2, FS_Surjection
<1>4. IsFiniteSet(InBase(scope))
  <2> DEFINE F == {of(d) : d \in A}
  <2>1. \A T \in F : IsFiniteSet(T)
    BY <1>2
  <2> HIDE DEF F
  <2>2. IsFiniteSet(UNION F)
    BY <1>3, <2>1, FS_UNION DEF F
  <2>3. QED
    BY <1>1, <2>2 DEF F
<1>5. ASSUME NEW x \in InBase(scope)
      PROVE  x.doc \in Docs /\ x.serial = document[x.doc].serial
  <2>1. PICK d \in A : x \in of(d)
    BY <1>1
  <2>2. PICK r \in chunk[d] : x = row(d, r)
    BY <2>1
  <2>3. document[d] # Absent
    BY AbsentIsNoRow
  <2>4. r.serial = document[d].serial
    BY <2>3 DEF RagInv, WholeDocuments
  <2>5. QED
    BY <2>2, <2>4
<1>6. QED
  BY <1>4, <1>5 DEF OneVersion

LEMMA ListingIn ==
  ASSUME NEW rows, IsFiniteSet(rows), NEW n \in Nat, NEW list \in Listings(rows, n)
  PROVE  list \in Seq(rows) /\ Len(list) = n
<1>1. PICK s \in SUBSET rows : Cardinality(s) = n /\ list \in SetToSeqs(s)
  BY DEF Listings
<1>2. list \in [1 .. n -> s]
  BY <1>1 DEF SetToSeqs
<1>3. QED
  BY <1>2

LEMMA SmallerLimit ==
  ASSUME NEW rows, IsFiniteSet(rows)
  PROVE  Smaller(Limit, Cardinality(rows)) \in Nat
BY AnswersAssumption, FS_CardinalityType DEF Smaller

\* What is fused is found, by one channel or the other.
LEMMA FusedIn ==
  ASSUME NEW rows, NEW lexical \in Seq(rows), NEW semantic \in Seq(rows), NEW fused \in Fuse(lexical, semantic)
  PROVE  LET found == Found(lexical, semantic)
         IN /\ fused \in Seq(found) /\ Len(fused) <= TopK
            /\ \A e \in found : e.row \in rows
<1> DEFINE found == Found(lexical, semantic)
           both == ToSet(lexical) \cup ToSet(semantic)
           entry(c) == [row |-> c, ranks |-> [lexical |-> RankIn(lexical, c), semantic |-> RankIn(semantic, c)]]
<1>1. \A list \in Seq(rows) : IsFiniteSet(ToSet(list)) /\ ToSet(list) \subseteq rows
  <2> SUFFICES ASSUME NEW list \in Seq(rows)
               PROVE  IsFiniteSet(ToSet(list)) /\ ToSet(list) \subseteq rows
    OBVIOUS
  <2>1. IsFiniteSet(1 .. Len(list)) /\ Len(list) \in Nat /\ DOMAIN list = 1 .. Len(list)
    BY FS_Interval
  <2>2. list \in Surjection(DOMAIN list, ToSet(list))
    BY DEF Surjection, ToSet
  <2>3. ToSet(list) \subseteq rows
    BY DEF ToSet
  <2>4. QED
    BY <2>1, <2>2, <2>3, FS_Surjection
<1>2. IsFiniteSet(both) /\ both \subseteq rows
  BY <1>1, FS_Union
<1>3. found = {entry(c) : c \in both}
  BY DEF Found
<1>4. IsFiniteSet(found)
  <2> DEFINE g == [c \in both |-> entry(c)]
  <2>1. g \in Surjection(both, found)
    <3> HIDE DEF entry, found, both
    <3>1. QED
      BY <1>3 DEF Surjection
  <2> HIDE DEF g, found, both
  <2>2. QED
    BY <1>2, <2>1, FS_Surjection
<1>5. \A e \in found : e.row \in rows
  BY <1>2, <1>3
<1>6. PICK list \in Ranked(found) : fused = SubSeq(list, 1, Smaller(TopK, Len(list)))
  BY DEF Fuse
<1>7. Cardinality(found) \in Nat
  BY <1>4, FS_CardinalityType
<1> HIDE DEF found, both, entry
<1>8. list \in [1 .. Cardinality(found) -> found]
  BY DEF Ranked
<1>9. list \in Seq(found) /\ Len(list) = Cardinality(found)
  BY <1>7, <1>8
<1> DEFINE n == Smaller(TopK, Len(list))
<1>10. n \in Nat /\ n <= TopK /\ n <= Len(list)
  BY <1>7, <1>9, AnswersAssumption DEF Smaller
<1> HIDE DEF n
<1>11. SubSeq(list, 1, n) \in Seq(found) /\ Len(SubSeq(list, 1, n)) = n
  <2>1. \A i \in 1 .. n : list[i] \in found
    BY <1>9, <1>10
  <2>2. QED
    BY <1>9, <1>10, <2>1
<1>12. QED
  BY <1>5, <1>6, <1>10, <1>11 DEF found, n

\* A rearrangement by tier has the same elements.
LEMMA ByTierIn ==
  ASSUME NEW S, NEW list \in Seq(S), NEW tier, NEW out \in ByTier(list, tier)
  PROVE  out \in Seq(S) /\ Len(out) = Len(list)
<1>1. PICK place \in [DOMAIN list -> DOMAIN list] : out = [i \in DOMAIN list |-> list[place[i]]]
  BY DEF ByTier
<1>2. Len(list) \in Nat /\ DOMAIN list = 1 .. Len(list) /\ \A i \in DOMAIN list : list[i] \in S
  OBVIOUS
<1>3. out \in [1 .. Len(list) -> S]
  BY <1>1, <1>2
<1>4. QED
  BY <1>2, <1>3

LEMMA ChunksStayFinite ==
  ASSUME RagInv, ChunksFinite, [RagNext]_ragVars
  PROVE  ChunksFinite'
<1>1. CASE \E p \in Publishers : Commit(p)
  <2>1. PICK p \in Publishers : Commit(p)
    BY <1>1
  <2>2. ~In(p, "idle") /\ In(p, "saved")
    BY <2>1 DEF Commit, In
  <2>3. job[p].content \in Seq(Paragraphs)
    BY <2>2, AtWork, ContentsTyped DEF Carries, In
  <2>4. IsFiniteSet(Rows(p))
    BY <2>3, RowsNumber DEF Rows, RowsOf
  <2>5. chunk' = [chunk EXCEPT ![Target(p)] = Rows(p)]
    BY <2>1 DEF Commit, Replaced
  <2> HIDE DEF Rows
  <2>6. QED
    BY <2>4, <2>5 DEF ChunksFinite, RagInv, RagShape
<1>2. CASE UNCHANGED chunk
  BY <1>2 DEF ChunksFinite
<1>3. QED
  BY <1>1, <1>2 DEF RagNext, PublisherStep, Edit, Withdraw, Publish, Redirected, Acquired, FindSource,
     Register, Load, Prepare, Skip, OpenRun, Save, Fails, ragVars

LEMMA ConcludedReads ==
  ASSUME NEW status \in QuestionStatuses
  PROVE  Reads([NoQuestion EXCEPT !.status = status])
BY DEF NoQuestion, Reads, QuestionFields, Scopes

LEMMA AnsweringReads ==
  ASSUME AnswersInv, Answering
  PROVE  Reads(question')
<1>1. Reads(question)
  BY DEF AnswersInv
<1>2. ASSUME NEW status \in QuestionStatuses, Concludes(status)
      PROVE  Reads(question')
  BY <1>2, ConcludedReads DEF Concludes
<1>3. CASE AskKnowledge
  <2>1. PICK s \in Scopes : question' = [NoQuestion EXCEPT !.scope = s,
                      !.pc = IF s = "PUBLIC_GETNET" THEN "formulate" ELSE "lexical"]
    BY <1>3 DEF AskKnowledge
  <2>2. QED
    BY <2>1 DEF NoQuestion, Reads, QuestionFields, Scopes, QuestionStatuses
<1>4. CASE AskWeb
  BY <1>4 DEF AskWeb, NoQuestion, Reads, QuestionFields, Scopes, QuestionStatuses
<1>5. CASE Formulate
  <2>1. PICK phrase : question' = [question EXCEPT !.pc = "lexical", !.query = phrase]
    BY <1>5 DEF Formulate
  <2>2. question.pc = "formulate"
    BY <1>5 DEF Formulate, At
  <2> DEFINE new == [question EXCEPT !.pc = "lexical", !.query = phrase]
  <2>3. /\ new = [f \in QuestionFields |-> new[f]] /\ new.pc = "lexical" /\ new.scope = question.scope
        /\ new.evidence = question.evidence /\ new.status = question.status
    BY <1>1 DEF Reads, QuestionFields
  <2> HIDE DEF new
  <2>4. Reads(new)
    BY <1>1, <2>2, <2>3 DEF Reads
  <2>5. QED
    BY <2>1, <2>4 DEF new
<1>6. CASE Lexical
  <2> DEFINE base == InBase(question.scope)
  <2>1. PICK n \in 0 .. Smaller(Limit, Cardinality(base)) : \E list \in Listings(base, n) :
          question' = [question EXCEPT !.pc = "semantic", !.snapshot = base, !.lexical = list]
    BY <1>6 DEF Lexical
  <2>2. PICK list \in Listings(base, n) :
          question' = [question EXCEPT !.pc = "semantic", !.snapshot = base, !.lexical = list]
    BY <2>1
  <2>3. question.pc = "lexical"
    BY <1>6 DEF Lexical, At
  <2>4. IsFiniteSet(base) /\ OneVersion(base)
    BY BaseIsOneVersion DEF AnswersInv
  <2> HIDE DEF base
  <2>5. list \in Seq(base)
    <3>1. n \in Nat
      BY <2>4, SmallerLimit
    <3>2. QED
      BY <2>4, <3>1, ListingIn
  <2> DEFINE new == [question EXCEPT !.pc = "semantic", !.snapshot = base, !.lexical = list]
  <2>6. /\ new = [f \in QuestionFields |-> new[f]] /\ new.pc = "semantic" /\ new.scope = question.scope
        /\ new.snapshot = base /\ new.lexical = list
        /\ new.evidence = question.evidence /\ new.status = question.status
    BY <1>1 DEF Reads, QuestionFields
  <2> HIDE DEF new
  <2>7. Reads(new)
    BY <1>1, <2>3, <2>4, <2>5, <2>6 DEF Reads
  <2>8. QED
    BY <2>2, <2>7 DEF new
<1>7. CASE Semantic
  <2> DEFINE rows == question.snapshot
             lexical == question.lexical
  <2>1. PICK list \in Listings(rows, Smaller(Limit, Cardinality(rows))) :
        \E fused \in Fuse(lexical, list) : \E grounded \in Ground(fused) :
          IF grounded = <<>> THEN Concludes("INSUFFICIENT_EVIDENCE")
          ELSE question' = [question EXCEPT !.pc = "generate", !.evidence = grounded,
                                            !.snapshot = {}, !.lexical = <<>>]
    BY <1>7 DEF Semantic, SemanticRows
  <2>2. PICK fused \in Fuse(lexical, list) : \E grounded \in Ground(fused) :
          IF grounded = <<>> THEN Concludes("INSUFFICIENT_EVIDENCE")
          ELSE question' = [question EXCEPT !.pc = "generate", !.evidence = grounded,
                                            !.snapshot = {}, !.lexical = <<>>]
    BY <2>1
  <2>3. PICK grounded \in Ground(fused) :
          IF grounded = <<>> THEN Concludes("INSUFFICIENT_EVIDENCE")
          ELSE question' = [question EXCEPT !.pc = "generate", !.evidence = grounded,
                                            !.snapshot = {}, !.lexical = <<>>]
    BY <2>2
  <2>4. IsFiniteSet(rows) /\ OneVersion(rows) /\ lexical \in Seq(rows)
    BY <1>1, <1>7 DEF Reads, Semantic, At
  <2> HIDE DEF rows, lexical
  <2>5. list \in Seq(rows)
    BY <2>4, SmallerLimit, ListingIn
  <2> DEFINE found == Found(lexical, list)
  <2>6. fused \in Seq(found) /\ Len(fused) <= TopK /\ \A e \in found : e.row \in rows
    BY <2>4, <2>5, FusedIn
  <2> HIDE DEF found
  <2>7. grounded \in Seq(found) /\ Len(grounded) <= TopK
    BY <2>6, ByTierIn DEF Ground
  <2>8. OneVersion({grounded[i].row : i \in DOMAIN grounded})
    <3>1. \A i \in DOMAIN grounded : grounded[i].row \in rows
      BY <2>6, <2>7
    <3>2. QED
      BY <2>4, <3>1 DEF OneVersion
  <2>9. grounded \in Seq({grounded[i] : i \in DOMAIN grounded})
    <3>1. Len(grounded) \in Nat /\ grounded \in [1 .. Len(grounded) -> {grounded[i] : i \in DOMAIN grounded}]
      BY <2>7
    <3>2. QED
      BY <3>1
  <2> DEFINE new == [question EXCEPT !.pc = "generate", !.evidence = grounded,
                                     !.snapshot = {}, !.lexical = <<>>]
  <2>10. /\ new = [f \in QuestionFields |-> new[f]] /\ new.pc = "generate"
         /\ new.evidence = grounded /\ new.status = question.status /\ new.scope = question.scope
    BY <1>1 DEF Reads, QuestionFields
  <2> HIDE DEF new
  <2>11. Reads(new)
    <3>1. new.scope \in Scopes
      BY <1>1, <1>7, <2>10 DEF Reads, Semantic, At
    <3>2. QED
      BY <1>1, <2>7, <2>8, <2>9, <2>10, <3>1 DEF Reads
  <2>12. QED
    BY <1>2, <2>3, <2>11 DEF new, QuestionStatuses
<1>8. CASE Search
  <2>1. question.pc = "search"
    BY <1>8 DEF Search, At
  <2>2. ASSUME NEW evidence, question' = [question EXCEPT !.pc = "generate", !.evidence = evidence]
        PROVE  Reads(question')
    <3> DEFINE new == [question EXCEPT !.pc = "generate", !.evidence = evidence]
    <3>1. /\ new = [f \in QuestionFields |-> new[f]] /\ new.pc = "generate"
          /\ new.evidence = evidence /\ new.status = question.status /\ new.scope = question.scope
      BY <1>1 DEF Reads, QuestionFields
    <3> HIDE DEF new
    <3>2. QED
      BY <1>1, <2>1, <2>2, <3>1 DEF Reads, new, Scopes
  <2>3. QED
    BY <1>2, <1>8, <2>2 DEF Search, QuestionStatuses
<1>9. CASE Raises \/ Generate
  BY <1>2, <1>9 DEF Raises, Generate, QuestionStatuses
<1>10. QED
  BY <1>3, <1>4, <1>5, <1>6, <1>7, <1>8, <1>9 DEF Answering

LEMMA AnswersStep ==
  ASSUME AnswersInv, [AnswersNext]_answersVars
  PROVE  AnswersInv'
<1>1. CASE Answering
  <2>1. UNCHANGED ragVars
    BY <1>1 DEF Answering, AskKnowledge, Formulate, Lexical, Semantic, Raises, AskWeb, Search, Generate
  <2>2. RagInv' /\ ChunksFinite'
    BY <2>1, RagStep, ChunksStayFinite DEF AnswersInv
  <2>3. QED
    BY <1>1, <2>2, AnsweringReads DEF AnswersInv
<1>2. CASE [RagNext]_ragVars /\ UNCHANGED question
  BY <1>2, RagStep, ChunksStayFinite DEF AnswersInv
<1>3. QED
  BY <1>1, <1>2 DEF AnswersNext, answersVars

LEMMA AnswersInvariant == AnswersSpec => []AnswersInv
<1>1. AnswersInit => AnswersInv
  <2> SUFFICES ASSUME AnswersInit
               PROVE  AnswersInv
    OBVIOUS
  <2>1. ChunksFinite
    BY FS_EmptySet DEF AnswersInit, RagInit, ChunksFinite
  <2>2. Reads(NoQuestion)
    BY DEF NoQuestion, Reads, QuestionFields, Scopes, QuestionStatuses
  <2>3. QED
    BY <2>1, <2>2, RagInitHolds DEF AnswersInit, AnswersInv
<1>2. QED
  BY <1>1, AnswersStep, PTL DEF AnswersSpec

LEMMA AnswersTypes ==
  ASSUME AnswersInv
  PROVE  AnswersTypeOK
<1>1. Reads(question) /\ RagTypeOK
  BY RagTypes DEF AnswersInv
<1>2. FromBase => Len(question.evidence) <= TopK
  <2>1. CASE question.pc = "generate"
    BY <1>1, <2>1 DEF Reads, FromBase
  <2>2. CASE question.pc # "generate" /\ FromBase
    <3>1. question.evidence = <<>>
      BY <1>1, <2>2 DEF Reads, FromBase
    <3>2. QED
      BY <3>1, AnswersAssumption
  <2>3. QED
    BY <2>1, <2>2
<1>3. QED
  BY <1>1, <1>2 DEF AnswersTypeOK, Reads, QuestionStatuses

\* While any processes publish, edit and withdraw, the evidence of an answer has at
\* most one version of a document, although its two statements are apart: both read
\* the snapshot the first one fixed, in which a document's chunks are of one
\* publication (retrieval/hybrid.py search, begin_read_only_repeatable_read,
\* ranking/rrf.py, grounding/context_builder.py).
THEOREM AnswersOneVersionOfEach == AnswersSpec => []OneVersionOfEach
<1>1. AnswersInv => OneVersionOfEach
  <2> SUFFICES ASSUME AnswersInv, FromBase
               PROVE  \A i, j \in DOMAIN question.evidence :
                        question.evidence[i].row.doc = question.evidence[j].row.doc =>
                          question.evidence[i].row.serial = question.evidence[j].row.serial
    BY DEF OneVersionOfEach
  <2>1. Reads(question)
    BY DEF AnswersInv
  <2>2. CASE question.pc = "generate"
    BY <2>1, <2>2 DEF Reads, FromBase, OneVersion
  <2>3. CASE question.pc # "generate"
    <3>1. question.evidence = <<>>
      BY <2>1, <2>3 DEF Reads, FromBase
    <3>2. QED
      BY <3>1
  <2>4. QED
    BY <2>2, <2>3
<1>2. QED
  BY <1>1, AnswersInvariant, PTL

=============================================================================
