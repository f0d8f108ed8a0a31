------------------------- MODULE FactVersionsProofs -------------------------
(***************************************************************************)
(* Proofs about FactVersions: no value is lost, every fact has the right   *)
(* source, and a past day keeps its answer, for every set of writers and   *)
(* every sequence of documents; and, in the second part, about PitCache,   *)
(* which puts back tests beside the writers: an answer that would be taken *)
(* from disk is the one the selection gives now.  Facts only ever come, so *)
(* their number tells the sets of facts apart that have been on show.      *)
(***************************************************************************)
EXTENDS PitCache, FiniteSetTheorems, WellFoundedInduction, TLAPS

-----------------------------------------------------------------------------
(* Documents                                                               *)

\* A document lists rows of known keys, all of them filed when it arrives.
LEMMA DocumentRows ==
  ASSUME NEW s \in Snapshots, NEW p \in 1..Parts
  PROVE  /\ DOMAIN Rows[s][p] \subseteq Nat
         /\ IsFiniteSet(DOMAIN Rows[s][p])
         /\ \A i \in DOMAIN Rows[s][p] :
              /\ Rows[s][p][i] \in [key : Keys, value : Nat]
              /\ Filed(Rows[s][p][i].key) <= ArrivesOn[s]
<1> DEFINE doc == Rows[s][p]
           Row == [key : Keys, value : Nat]
<1>1. doc \in Seq(Row)
  <2> HIDE DEF Row
  <2>1. Rows \in [Snapshots -> [1..Parts -> Seq(Row)]]
    BY VersionsAssumption DEF Row
  <2> QED
    BY <2>1
<1>2. \A i \in DOMAIN doc :
        doc[i] \in Row /\ Filed(doc[i].key) <= ArrivesOn[s]
  <2>1. \A i \in DOMAIN doc : Filed(doc[i].key) <= ArrivesOn[s]
    BY VersionsAssumption
  <2> HIDE DEF Row, doc
  <2>2. \A i \in DOMAIN doc : doc[i] \in Row
    BY <1>1
  <2> QED
    BY <2>1, <2>2
<1>3. DOMAIN doc = 1..Len(doc) /\ Len(doc) \in Nat
  <2> HIDE DEF Row, doc
  <2> QED
    BY <1>1
<1>4. IsFiniteSet(DOMAIN doc)
  BY <1>3, FS_Interval
<1>5. DOMAIN doc \subseteq Nat
  <2> HIDE DEF doc
  <2> QED
    BY <1>3
<1> QED
  BY <1>2, <1>4, <1>5

\* A nonempty set of naturals has a least element.
LEMMA LeastElement ==
  ASSUME NEW S \in SUBSET Nat, S # {}
  PROVE  \E i \in S : \A j \in S : i <= j
<1> DEFINE Less == {p \in Nat \X Nat : p[1] < p[2]}
<1>1. IsWellFoundedOn(Less, Nat)
  BY NatLessThanWellFounded DEF OpToRel
<1>2. \E i \in S : \A j \in S : ~(<<j, i>> \in Less)
  <2> HIDE DEF Less
  <2> QED
    BY <1>1, WFMin
<1>3. PICK i \in S : \A j \in S : ~(<<j, i>> \in Less)
  BY <1>2
<1>4. ASSUME NEW j \in S
      PROVE  i <= j
  <2>1. i \in Nat /\ j \in Nat
    OBVIOUS
  <2>2. j < i => <<j, i>> \in Less
    BY <2>1
  <2> QED
    BY <1>3, <2>1, <2>2
<1> QED
  BY <1>4

\* Every row of a document has a first row of its key.
LEMMA FirstRowExists ==
  ASSUME NEW s \in Snapshots, NEW p \in 1..Parts, NEW i \in DOMAIN Rows[s][p]
  PROVE  \E k \in FirstRows(Rows[s][p]) : Rows[s][p][k].key = Rows[s][p][i].key
<1> DEFINE doc == Rows[s][p]
           S == {j \in DOMAIN doc : doc[j].key = doc[i].key}
<1>1. S \in SUBSET Nat /\ i \in S
  BY DocumentRows
<1>2. PICK k \in S : \A j \in S : k <= j
  BY <1>1, LeastElement
<1> QED
  BY <1>2 DEF FirstRows

\* Two elements of a finite set of naturals have different places.
LEMMA PlaceInjective ==
  ASSUME NEW S \in SUBSET Nat, IsFiniteSet(S), NEW i \in S, NEW j \in S,
         Place(S, i) = Place(S, j)
  PROVE  i = j
<1> DEFINE Upto(k) == {m \in S : m <= k}
<1>1. \A k \in S : IsFiniteSet(Upto(k)) /\ Upto(k) \in SUBSET S
  BY FS_Subset
<1>2. ASSUME NEW k \in S, NEW m \in S, k < m, Place(S, k) = Place(S, m)
      PROVE  FALSE
  <2>1. k \in Nat /\ m \in Nat /\ S \subseteq Nat
    OBVIOUS
  <2>2. m \in Upto(m) /\ m \notin Upto(k)
    BY <1>2, <2>1
  <2>3. ASSUME NEW e \in Upto(k)
        PROVE  e \in Upto(m)
    BY <1>2, <2>1
  <2>4. Cardinality(Upto(m)) = Cardinality(Upto(k)) => Upto(m) = Upto(k)
    <3>1. Upto(k) \in SUBSET Upto(m) /\ IsFiniteSet(Upto(m))
      BY <1>1, <2>3
    <3> HIDE DEF Upto
    <3> QED
      BY <3>1, FS_Subset
  <2> QED
    BY <1>2, <2>2, <2>4 DEF Place
<1>3. i < j \/ j < i \/ i = j
  OBVIOUS
<1> QED
  BY <1>2, <1>3

\* A place is a number.
LEMMA PlaceType ==
  ASSUME NEW S, IsFiniteSet(S), NEW i
  PROVE  Place(S, i) \in Nat
BY FS_Subset, FS_CardinalityType DEF Place

-----------------------------------------------------------------------------
(* Selection                                                               *)

\* Filings of one filing day stand or fall together, so it makes no
\* difference whether the choice of tags is made before later filings are
\* left out or after.
LEMMA CanonicalOfDay ==
  ASSUME NEW C, NEW d
  PROVE  {c \in Canonical(C) : Filed(c.key) <= d}
           = Canonical({c \in C : Filed(c.key) <= d})
<1> DEFINE D == {c \in C : Filed(c.key) <= d}
<1>1. ASSUME NEW c \in D
      PROVE  Siblings(c, C) = Siblings(c, D)
  BY DEF Siblings, Filed
<1>2. ASSUME NEW c \in D
      PROVE  c \in Canonical(C) <=> c \in Canonical(D)
  <2> HIDE DEF D
  <2>1. c \in C
    BY DEF D
  <2> QED
    BY <1>1, <1>2, <2>1 DEF Canonical
<1>3. Canonical(D) \subseteq D /\ Canonical(C) \subseteq C
  BY DEF Canonical
<1> QED
  BY <1>2, <1>3

\* The answer for a day depends on the facts filed until then and on what is
\* decided about them, and on nothing else.
LEMMA SelectionOfDay ==
  ASSUME NEW rows, NEW out, NEW d, NEW x
  PROVE  SelectAsOf(rows, out, x, d)
           = Select(Canonical({c \in LoadFacts(rows, out, x, d) :
                                 Filed(c.key) <= d}))
BY CanonicalOfDay DEF SelectAsOf

\* What a selection reads of a fact.
Candidate(f, rev) ==
  [key |-> f.key, value |-> f.value, id |-> f.id, decision |-> rev[f.key]]
\* The candidates of a day, one for each fact that may be the answer.
LEMMA CandidatesOfDay ==
  ASSUME NEW rows, NEW out, NEW d, NEW x
  PROVE  {c \in LoadFacts(rows, out, x, d) : Filed(c.key) <= d}
           = {Candidate(f, review) : f \in {g \in rows :
                /\ Filed(g.key) <= d
                /\ FieldOf[g.key] = x
                /\ ~Excluded(out, g.key, d)}}
<1> DEFINE L == {c \in LoadFacts(rows, out, x, d) : Filed(c.key) <= d}
           G == {g \in rows : Filed(g.key) <= d /\ FieldOf[g.key] = x
                                /\ ~Excluded(out, g.key, d)}
<1>1. ASSUME NEW c \in L
      PROVE  \E f \in G : c = Candidate(f, review)
  BY DEF LoadFacts, Candidate
<1>2. ASSUME NEW f \in G
      PROVE  Candidate(f, review) \in L
  <2>1. Candidate(f, review).key = f.key
    BY DEF Candidate
  <2>2. Candidate(f, review) \in LoadFacts(rows, out, x, d)
    BY DEF LoadFacts, Candidate
  <2> QED
    BY <2>1, <2>2
<1> HIDE DEF L, G
<1>3. L = {Candidate(f, review) : f \in G}
  BY <1>1, <1>2
<1> QED
  BY <1>3 DEF L, G

\* The facts that may be the answer for a day.
Eligible(x, d) ==
  {g \in facts : /\ Filed(g.key) <= d
                 /\ FieldOf[g.key] = x
                 /\ ~Excluded(Exclusions, g.key, d)}
\* The answer is made from the eligible facts and their reviews.
AnswersByEligible ==
  \A x, d : AsOf(x, d) =
    Select(Canonical({Candidate(f, review) : f \in Eligible(x, d)}))

\* The answer is made from the eligible facts and their reviews.
LEMMA AnswerOfDay == AnswersByEligible
BY SelectionOfDay, CandidatesOfDay DEF AsOf, Eligible, AnswersByEligible

\* A step that leaves these alone leaves the answer alone.
LEMMA SameAnswer ==
  ASSUME NEW d, NEW x,
         {f \in facts' : Filed(f.key) <= d} = {f \in facts : Filed(f.key) <= d},
         \A f \in facts : Filed(f.key) <= d =>
           /\ review'[f.key] = review[f.key]
           /\ Excluded(Exclusions', f.key, d) <=> Excluded(Exclusions, f.key, d)
  PROVE  AsOf(x, d)' = AsOf(x, d)
<1> DEFINE G == Eligible(x, d)
<1>1. G = G'
  BY DEF Eligible
<1>2. \A f \in G : Candidate(f, review) = Candidate(f, review')
  BY DEF Candidate, Eligible
<1>3. {Candidate(f, review) : f \in G} = {Candidate(f, review') : f \in G'}
  <2> HIDE DEF G
  <2> QED
    BY <1>1, <1>2
<1>4. AsOf(x, d) = Select(Canonical({Candidate(f, review) : f \in G}))
  BY AnswerOfDay DEF AnswersByEligible
<1>5. AsOf(x, d)' = Select(Canonical({Candidate(f, review') : f \in G'}))
  <2>1. AnswersByEligible'
    BY AnswerOfDay, PTL
  <2> QED
    BY <2>1 DEF AnswersByEligible
<1> QED
  BY <1>3, <1>4, <1>5

-----------------------------------------------------------------------------
(* Types                                                                   *)

\* What the assumption on the constants gives.
LEMMA ConstantFacts ==
  /\ Days \subseteq Nat /\ Never \in Nat /\ 0 \in Days
  /\ \A k \in Keys : FilingOf[k] \in Filings /\ Filed(k) \in Days
  /\ \A s \in Snapshots : ArrivesOn[s] \in Days
  /\ Parts \in Nat \ {0}
BY VersionsAssumption DEF Days, Never, Filed

\* What TypeOK says of a transaction that is open.
Working(tx) == /\ tx.snapshot \in Snapshots
               /\ tx.first \in 1..Parts /\ tx.part \in 1..Parts

\* What the rows of the current part of an open transaction look like.
LEMMA CurrentRows ==
  ASSUME NEW w \in Writers, TypeOK, writer[w].pc # "idle"
  PROVE  /\ DOMAIN Doc(w) \subseteq Nat
         /\ IsFiniteSet(DOMAIN Doc(w))
         /\ \A i \in DOMAIN Doc(w) :
              /\ Doc(w)[i] \in [key : Keys, value : Nat]
              /\ Filed(Doc(w)[i].key) <= ArrivesOn[writer[w].snapshot]
BY DocumentRows DEF TypeOK, Doc

\* A conflict has a key and two values.
LEMMA ClashesType ==
  ASSUME NEW R, NEW S,
         \A r \in R \cup S : r.key \in Keys /\ r.value \in Nat
  PROVE  Clashes(R, S) \subseteq Keys \X Nat \X Nat
BY DEF Clashes

\* The types hold at the start.
LEMMA TypeInit == Init => TypeOK
<1> SUFFICES ASSUME Init
             PROVE  TypeOK
  OBVIOUS
<1>1. Idle \in Transactions
  BY ConstantFacts DEF Idle, Transactions
<1> QED
  BY <1>1, ConstantFacts, VersionsAssumption
  DEF Init, TypeOK, Days, Never, Idle

\* The night keeps the types.
LEMMA TypeNewDay ==
  ASSUME TypeOK, NewDay
  PROVE  TypeOK'
<1>1. day' \in Days /\ day \in Days
  BY VersionsAssumption DEF TypeOK, NewDay, Days
<1>2. DOMAIN answered' = Days
  BY DEF TypeOK, NewDay
<1>3. ASSUME NEW d \in Days
      PROVE  DOMAIN answered'[d] = Fields
  <2>1. CASE d = day
    BY <2>1 DEF TypeOK, NewDay
  <2>2. CASE d # day
    BY <2>2 DEF TypeOK, NewDay
  <2> QED
    BY <2>1, <2>2
<1> QED
  BY <1>1, <1>2, <1>3 DEF TypeOK, NewDay, ingest, decided

\* A transaction that begins has a snapshot and a part to work on.
LEMMA TypeBegin ==
  ASSUME TypeOK, NEW w \in Writers, BeginOnline(w) \/ BeginBackfill(w)
  PROVE  TypeOK'
<1>1. PICK s \in Snapshots, first \in 1..Parts, last \in 1..Parts,
           kind \in {"online", "backfill"} : Begin(w, s, first, last, kind)
  <2>1. Available \subseteq Snapshots /\ 1 \in 1..Parts /\ Parts \in 1..Parts
    BY ConstantFacts DEF Available
  <2>2. CASE BeginOnline(w)
    BY <2>1, <2>2 DEF BeginOnline
  <2>3. CASE BeginBackfill(w)
    BY <2>1, <2>3 DEF BeginBackfill
  <2> QED
    BY <2>2, <2>3
<1> DEFINE new == [pc |-> "filings", snapshot |-> s, kind |-> kind,
                   first |-> first, part |-> first, last |-> last,
                   fresh |-> {}, clash |-> {}, took |-> {}]
<1>2. new \in Transactions
  <2>1. first \in 0..Parts /\ last \in 0..Parts
    OBVIOUS
  <2> QED
    BY <2>1 DEF Transactions
<1>3. writer' = [writer EXCEPT ![w] = new]
  BY <1>1 DEF Begin
<1>4. Working(new)
  BY DEF Working
<1>5. writer' \in [Writers -> Transactions]
  BY <1>2, <1>3 DEF TypeOK
<1>6. ASSUME NEW v \in Writers, writer'[v].pc # "idle"
      PROVE  Working(writer'[v])
  BY <1>3, <1>4, <1>6 DEF TypeOK, Working
<1> QED
  BY <1>1, <1>5, <1>6 DEF TypeOK, Begin, decided, Working

\* Locking a filing keeps the types.
LEMMA TypeFlush ==
  ASSUME TypeOK, NEW w \in Writers, FlushFiling(w)
  PROVE  TypeOK'
BY DEF TypeOK, FlushFiling, decided

-----------------------------------------------------------------------------
(* The inductive invariant                                                 *)

\* A filing is locked by one transaction, and a transaction that has read the
\* facts has locked every filing it writes about.
LocksInv ==
  /\ \A v, w \in Writers : v # w => held[v] \cap held[w] = {}
  /\ \A w \in Writers : \A f \in writer[w].took : FilingOf[f.key] \in held[w]
  /\ \A w \in Writers : writer[w].pc = "insert" =>
       \A i \in DOMAIN Doc(w) : FilingOf[Doc(w)[i].key] \in held[w]

\* What a transaction found to be new still is.
FreshInv ==
  \A w \in Writers : writer[w].pc = "insert" =>
    writer[w].fresh = {i \in FirstRows(Doc(w)) :
      \A f \in facts \cup writer[w].took : f.key # Doc(w)[i].key}

\* A key has one fact, also among those a transaction is about to commit.
OneFactInv ==
  /\ \A f, g \in facts : f.key = g.key => f = g
  /\ \A w \in Writers : \A f, g \in facts \cup writer[w].took :
       f.key = g.key => f = g

\* The source of a fact holds it.
Sourced(f) ==
  /\ f.observed = f.value
  /\ \E p \in 1..Parts : \E i \in DOMAIN Rows[f.snapshot][p] :
       Rows[f.snapshot][p][i] = [key |-> f.key, value |-> f.value]
\* Every fact has its source.
SourceInv ==
  /\ \A f \in facts : Sourced(f)
  /\ \A w \in Writers : \A f \in writer[w].took : Sourced(f)

\* A row that is stored or on record, for the writer that wrote it.
Recorded(w, row) ==
  \/ \E f \in facts \cup writer[w].took : f.key = row.key /\ f.value = row.value
  \/ \E c \in conflicts \cup writer[w].clash : c[1] = row.key /\ c[3] = row.value
\* Every row of a part is recorded.
Covered(w, p) ==
  \A i \in DOMAIN Rows[writer[w].snapshot][p] :
    Recorded(w, Rows[writer[w].snapshot][p][i])
\* What is written so far is recorded, and what is found new is all that is left.
KeptInv ==
  /\ NothingLost
  /\ \A w \in Writers : writer[w].pc # "idle" =>
       /\ writer[w].part <= writer[w].last
       /\ \A p \in writer[w].first..writer[w].last :
            (p < writer[w].part \/ writer[w].pc = "commit") => Covered(w, p)
  /\ \A w \in Writers : writer[w].pc = "insert" =>
       \A i \in DOMAIN Doc(w) :
         \/ Recorded(w, Doc(w)[i])
         \/ \E k \in writer[w].fresh : Doc(w)[k] = Doc(w)[i]

\* Nothing comes from the future.
InTimeInv ==
  /\ \A f \in facts : Filed(f.key) <= day
  /\ \A w \in Writers : writer[w].pc # "idle" =>
       ArrivesOn[writer[w].snapshot] <= day
  /\ \A w \in Writers : \A f \in writer[w].took : Filed(f.key) <= day

\* The inductive invariant of the ingest.
IngestInv ==
  TypeOK /\ LocksInv /\ FreshInv /\ OneFactInv /\ SourceInv /\ InTimeInv

-----------------------------------------------------------------------------
(* Steps of a transaction, once the invariant is known                     *)

\* The facts an insert adds: no row is left out, and each is laid beside its
\* own id.
Added(w) ==
  {[key |-> Doc(w)[i].key,
    value |-> Doc(w)[i].value,
    id |-> nextId + Place(writer[w].fresh, i) - 1,
    snapshot |-> writer[w].snapshot,
    observed |-> Doc(w)[i].value] : i \in writer[w].fresh}

\* As no row of it has come in meanwhile, an insert adds all that was found new,
\* each row beside its own id.
LEMMA InsertStep ==
  ASSUME TypeOK, FreshInv, NEW w \in Writers, Insert(w)
  PROVE  /\ writer[w].pc = "insert"
         /\ writer[w].fresh \subseteq FirstRows(Doc(w))
         /\ IsFiniteSet(writer[w].fresh)
         /\ nextId' = nextId + Cardinality(writer[w].fresh)
         /\ writer' = [writer EXCEPT ![w] =
              [writer[w] EXCEPT !.pc = IF writer[w].part < writer[w].last
                                 THEN "filings" ELSE "commit",
                        !.part = IF writer[w].part < writer[w].last
                                   THEN writer[w].part + 1 ELSE writer[w].part,
                        !.fresh = {},
                        !.took = writer[w].took \cup Added(w)]]
         /\ UNCHANGED <<day, answered, facts, conflicts, held, done, late,
                        faults, decided>>
<1> DEFINE doc == Doc(w)
           fresh == writer[w].fresh
           inserted == {i \in fresh : doc[i].key \notin {f.key : f \in facts}}
           beside(i) == CHOOSE j \in fresh : Place(fresh, j) = Place(inserted, i)
<1>1. writer[w].pc = "insert"
  BY DEF Insert
<1>2. fresh \subseteq FirstRows(doc)
  BY <1>1 DEF FreshInv
<1>3. inserted = fresh
  BY <1>1 DEF FreshInv
<1>4. IsFiniteSet(fresh) /\ fresh \in SUBSET Nat
  <2>1. DOMAIN doc \subseteq Nat /\ IsFiniteSet(DOMAIN doc)
    BY <1>1, CurrentRows
  <2>2. fresh \in SUBSET DOMAIN doc
    BY <1>2 DEF FirstRows
  <2> QED
    BY <2>1, <2>2, FS_Subset
<1>5. ASSUME NEW i \in fresh
      PROVE  beside(i) = i
  <2> HIDE DEF fresh
  <2>1. \E j \in fresh : Place(fresh, j) = Place(inserted, i)
    BY <1>3
  <2>2. beside(i) \in fresh /\ Place(fresh, beside(i)) = Place(fresh, i)
    BY <1>3, <2>1
  <2> QED
    BY <1>4, <2>2, PlaceInjective
<1>6. {[key |-> doc[i].key, value |-> doc[i].value,
        id |-> nextId + Place(inserted, i) - 1,
        snapshot |-> writer[w].snapshot,
        observed |-> doc[beside(i)].value] : i \in inserted} = Added(w)
  <2> HIDE DEF inserted, beside
  <2> QED
    BY <1>3, <1>5 DEF Added
<1>7. nextId' = nextId + Cardinality(inserted)
  BY DEF Insert
<1>8. writer' = [writer EXCEPT ![w] =
              [writer[w] EXCEPT !.pc = IF writer[w].part < writer[w].last
                                 THEN "filings" ELSE "commit",
                        !.part = IF writer[w].part < writer[w].last
                                   THEN writer[w].part + 1 ELSE writer[w].part,
                        !.fresh = {},
                        !.took = writer[w].took \cup
               {[key |-> doc[i].key,
                 value |-> doc[i].value,
                 id |-> nextId + Place(inserted, i) - 1,
                 snapshot |-> writer[w].snapshot,
                 observed |-> doc[beside(i)].value] : i \in inserted}]]
  BY DEF Insert
<1>9. UNCHANGED <<day, answered, facts, conflicts, held, done, late,
                  faults, decided>>
  BY DEF Insert
<1> QED
  <2> HIDE DEF inserted, beside, doc
  <2> QED
    BY <1>1, <1>2, <1>3, <1>4, <1>6, <1>7, <1>8, <1>9 DEF doc

\* What an insert adds are facts.
LEMMA AddedType ==
  ASSUME TypeOK, FreshInv, NEW w \in Writers, Insert(w)
  PROVE  Added(w) \subseteq FactRecord
<1>1. ASSUME NEW i \in writer[w].fresh
      PROVE  /\ Doc(w)[i] \in [key : Keys, value : Nat]
             /\ nextId + Place(writer[w].fresh, i) - 1 \in Nat
             /\ writer[w].snapshot \in Snapshots
  <2>1. Place(writer[w].fresh, i) \in Nat
    BY InsertStep, PlaceType
  <2>2. i \in DOMAIN Doc(w)
    BY InsertStep DEF FirstRows
  <2>3. Doc(w)[i] \in [key : Keys, value : Nat] /\ writer[w].snapshot \in Snapshots
    BY <2>2, InsertStep, CurrentRows DEF TypeOK
  <2>4. nextId \in Nat \ {0}
    BY DEF TypeOK
  <2> QED
    BY <2>1, <2>3, <2>4
<1> QED
  BY <1>1 DEF Added, FactRecord

\* The four fields of a transaction that an insert sets, and the others.
LEMMA InsertFields ==
  ASSUME TypeOK, FreshInv, NEW w \in Writers, Insert(w)
  PROVE  /\ writer'[w].pc \in {"filings", "commit"}
         /\ writer'[w].pc = "filings" =>
              /\ writer[w].part < writer[w].last
              /\ writer'[w].part = writer[w].part + 1
         /\ writer'[w].pc = "commit" =>
              /\ ~(writer[w].part < writer[w].last)
              /\ writer'[w].part = writer[w].part
         /\ writer'[w].fresh = {}
         /\ writer'[w].took = writer[w].took \cup Added(w)
         /\ writer'[w].clash = writer[w].clash
         /\ writer'[w].snapshot = writer[w].snapshot
         /\ writer'[w].kind = writer[w].kind
         /\ writer'[w].first = writer[w].first
         /\ writer'[w].last = writer[w].last
         /\ \A v \in Writers : v # w => writer'[v] = writer[v]
         /\ writer'[w] =
              [pc |-> writer'[w].pc, snapshot |-> writer[w].snapshot,
               kind |-> writer[w].kind, first |-> writer[w].first,
               part |-> writer'[w].part, last |-> writer[w].last,
               fresh |-> {}, clash |-> writer[w].clash,
               took |-> writer[w].took \cup Added(w)]
<1>1. writer[w] \in Transactions /\ writer \in [Writers -> Transactions]
  BY DEF TypeOK
<1>2. writer' = [writer EXCEPT ![w] =
              [writer[w] EXCEPT !.pc = IF writer[w].part < writer[w].last
                                 THEN "filings" ELSE "commit",
                        !.part = IF writer[w].part < writer[w].last
                                   THEN writer[w].part + 1 ELSE writer[w].part,
                        !.fresh = {},
                        !.took = writer[w].took \cup Added(w)]]
  BY InsertStep
<1>3. \A v \in Writers : v # w => writer'[v] = writer[v]
  BY <1>1, <1>2
<1> DEFINE pc == IF writer[w].part < writer[w].last THEN "filings" ELSE "commit"
           part == IF writer[w].part < writer[w].last
                     THEN writer[w].part + 1 ELSE writer[w].part
<1>4. writer' = [writer EXCEPT ![w] =
        [writer[w] EXCEPT !.pc = pc, !.part = part, !.fresh = {},
                  !.took = writer[w].took \cup Added(w)]]
  BY <1>2
<1>5. writer'[w] = [pc |-> pc, snapshot |-> writer[w].snapshot,
               kind |-> writer[w].kind, first |-> writer[w].first,
               part |-> part, last |-> writer[w].last,
               fresh |-> {}, clash |-> writer[w].clash,
               took |-> writer[w].took \cup Added(w)]
  <2> HIDE DEF pc, part
  <2>1. writer'[w].pc = pc /\ writer'[w].part = part /\ writer'[w].fresh = {}
    BY <1>1, <1>4 DEF Transactions
  <2> QED
    BY <1>1, <1>4 DEF Transactions
<1> QED
  BY <1>3, <1>5

\* The fields a reading of the facts sets.
LEMMA LoadFields ==
  ASSUME TypeOK, NEW w \in Writers, LoadExisting(w)
  PROVE  /\ writer[w].pc = "filings"
         /\ writer'[w].pc = "insert"
         /\ writer'[w].fresh = {i \in FirstRows(Doc(w)) :
              \A f \in facts \cup writer[w].took : f.key # Doc(w)[i].key}
         /\ writer'[w].clash = writer[w].clash \cup BatchConflicts(Doc(w)) \cup
              Clashes(facts \cup writer[w].took,
                      {Doc(w)[i] : i \in FirstRows(Doc(w))})
         /\ writer'[w] = [writer[w] EXCEPT !.pc = "insert",
              !.fresh = writer'[w].fresh, !.clash = writer'[w].clash]
         /\ \A v \in Writers : v # w => writer'[v] = writer[v]
<1> DEFINE stored == {f.key : f \in facts \cup writer[w].took}
           fresh == {i \in FirstRows(Doc(w)) : Doc(w)[i].key \notin stored}
           clash == writer[w].clash \cup BatchConflicts(Doc(w)) \cup
                      Clashes(facts \cup writer[w].took,
                              {Doc(w)[i] : i \in FirstRows(Doc(w))})
<1>1. writer[w] \in Transactions /\ writer \in [Writers -> Transactions]
  BY DEF TypeOK
<1>2. /\ writer[w].pc = "filings"
      /\ writer' = [writer EXCEPT ![w] =
           [writer[w] EXCEPT !.pc = "insert", !.fresh = fresh,
                     !.clash = writer[w].clash \cup BatchConflicts(Doc(w)) \cup
                       Clashes(facts \cup writer[w].took,
                               {Doc(w)[i] : i \in FirstRows(Doc(w))})]]
  BY DEF LoadExisting
<1>3. fresh = {i \in FirstRows(Doc(w)) :
              \A f \in facts \cup writer[w].took : f.key # Doc(w)[i].key}
  OBVIOUS
<1>4. /\ writer'[w] = [writer[w] EXCEPT !.pc = "insert", !.fresh = fresh,
                                        !.clash = clash]
      /\ \A v \in Writers : v # w => writer'[v] = writer[v]
  <2> HIDE DEF fresh
  <2> QED
    BY <1>1, <1>2 DEF Transactions
<1>5. writer'[w].pc = "insert" /\ writer'[w].fresh = fresh
        /\ writer'[w].clash = clash
  <2> HIDE DEF fresh, clash
  <2> QED
    BY <1>1, <1>4 DEF Transactions
<1> QED
  <2> HIDE DEF fresh
  <2> QED
    BY <1>2, <1>3, <1>4, <1>5

\* Reading the facts keeps the types.
LEMMA TypeLoad ==
  ASSUME TypeOK, NEW w \in Writers, LoadExisting(w)
  PROVE  TypeOK'
<1>1. writer[w] \in Transactions /\ writer[w].pc # "idle"
  BY LoadFields DEF TypeOK
<1>2. writer'[w].fresh \subseteq Nat
  BY <1>1, LoadFields, CurrentRows DEF FirstRows
<1>3. \A i \in FirstRows(Doc(w)) : Doc(w)[i].key \in Keys /\ Doc(w)[i].value \in Nat
  BY <1>1, CurrentRows DEF FirstRows
<1>4. \A i \in DOMAIN Doc(w) : Doc(w)[i].key \in Keys /\ Doc(w)[i].value \in Nat
  BY <1>1, CurrentRows
<1>5. \A f \in facts \cup writer[w].took : f.key \in Keys /\ f.value \in Nat
  BY <1>1 DEF TypeOK, Transactions, FactRecord
<1>6. writer'[w].clash \subseteq Keys \X Nat \X Nat
  <2>1. BatchConflicts(Doc(w)) \subseteq Keys \X Nat \X Nat
    BY <1>3, <1>4, ClashesType DEF BatchConflicts
  <2>2. Clashes(facts \cup writer[w].took,
                {Doc(w)[i] : i \in FirstRows(Doc(w))})
          \subseteq Keys \X Nat \X Nat
    BY <1>3, <1>5, ClashesType
  <2>3. writer[w].clash \subseteq Keys \X Nat \X Nat
    BY <1>1 DEF Transactions
  <2> QED
    BY <2>1, <2>2, <2>3, LoadFields
<1>7. writer'[w] \in Transactions
  <2>1. writer'[w] = [writer[w] EXCEPT !.pc = "insert",
              !.fresh = writer'[w].fresh, !.clash = writer'[w].clash]
    BY LoadFields
  <2> QED
    BY <1>1, <1>2, <1>6, <2>1 DEF Transactions
<1>8. writer' \in [Writers -> Transactions]
  BY <1>7, LoadFields DEF LoadExisting, TypeOK
<1>9. ASSUME NEW v \in Writers, writer'[v].pc # "idle"
      PROVE  Working(writer'[v])
  <2>1. CASE v = w
    <3>1. writer'[w] = [writer[w] EXCEPT !.pc = "insert",
              !.fresh = writer'[w].fresh, !.clash = writer'[w].clash]
      BY LoadFields
    <3>2. /\ writer'[w].snapshot = writer[w].snapshot
          /\ writer'[w].first = writer[w].first
          /\ writer'[w].part = writer[w].part
      BY <1>1, <3>1 DEF Transactions
    <3> QED
      BY <1>1, <2>1, <3>2 DEF TypeOK, Working
  <2>2. CASE v # w
    BY <1>9, <2>2, LoadFields DEF TypeOK, Working
  <2> QED
    BY <2>1, <2>2
<1> QED
  BY <1>8, <1>9 DEF TypeOK, LoadExisting, decided, Working

\* An insert keeps the types.
LEMMA TypeInsert ==
  ASSUME TypeOK, FreshInv, NEW w \in Writers, Insert(w)
  PROVE  TypeOK'
<1>1. writer[w] \in Transactions /\ writer[w].pc = "insert"
  BY InsertStep DEF TypeOK
<1>2. Working(writer[w]) /\ writer[w].last \in 0..Parts
  BY <1>1 DEF TypeOK, Transactions, Working
<1>3. Working(writer'[w])
  <2>1. /\ writer'[w].snapshot = writer[w].snapshot
        /\ writer'[w].first = writer[w].first
    BY InsertFields
  <2>2. CASE writer'[w].pc = "filings"
    <3>1. writer[w].part < writer[w].last
            /\ writer'[w].part = writer[w].part + 1
      BY <2>2, InsertFields
    <3> QED
      BY <1>2, <2>1, <3>1, ConstantFacts DEF Working
  <2>3. CASE writer'[w].pc = "commit"
    <3>1. writer'[w].part = writer[w].part
      BY <2>3, InsertFields
    <3> QED
      BY <1>2, <2>1, <3>1 DEF Working
  <2> QED
    BY <2>2, <2>3, InsertFields
<1>4. writer[w].took \cup Added(w) \subseteq FactRecord
  BY <1>1, AddedType DEF Transactions
<1>5. writer'[w] \in Transactions
  <2>1. writer'[w].pc \in {"filings", "commit"} /\ writer'[w].part \in 0..Parts
    <3>1. writer'[w].pc \in {"filings", "commit"}
      BY InsertFields
    <3>2. writer'[w].part \in 1..Parts
      BY <1>3 DEF Working
    <3> QED
      BY <3>1, <3>2, ConstantFacts
  <2>2. writer'[w] =
              [pc |-> writer'[w].pc, snapshot |-> writer[w].snapshot,
               kind |-> writer[w].kind, first |-> writer[w].first,
               part |-> writer'[w].part, last |-> writer[w].last,
               fresh |-> {}, clash |-> writer[w].clash,
               took |-> writer[w].took \cup Added(w)]
    BY InsertFields
  <2> QED
    BY <1>1, <1>4, <2>1, <2>2 DEF Transactions
<1>6. writer' \in [Writers -> Transactions]
  <2>1. DOMAIN writer' = Writers /\ writer' = [v \in Writers |-> writer'[v]]
    BY InsertStep DEF TypeOK
  <2> QED
    BY <1>5, <2>1, InsertFields DEF TypeOK
<1>7. ASSUME NEW v \in Writers, writer'[v].pc # "idle"
      PROVE  Working(writer'[v])
  <2>1. CASE v = w
    BY <1>3, <2>1
  <2>2. CASE v # w
    <3>1. writer'[v] = writer[v]
      BY <2>2, InsertFields
    <3> QED
      BY <1>7, <3>1 DEF TypeOK, Working
  <2> QED
    BY <2>1, <2>2
<1>8. nextId' \in Nat \ {0}
  <2>1. nextId' = nextId + Cardinality(writer[w].fresh)
    BY InsertStep
  <2>2. Cardinality(writer[w].fresh) \in Nat
    BY InsertStep, FS_CardinalityType
  <2> QED
    BY <2>1, <2>2 DEF TypeOK
<1>9. UNCHANGED <<day, answered, facts, conflicts, held, done, late,
                  faults, decided>>
  BY InsertStep
<1> QED
  BY <1>6, <1>7, <1>8, <1>9 DEF TypeOK, decided, Working

\* A transaction that ends, with or without its data.
Ends(w) == Commit(w) \/ Fail(w) \/ Victim(w)

\* How a transaction ends: with its facts, or without a trace.
LEMMA EndStep ==
  ASSUME TypeOK, NEW w \in Writers, Ends(w)
  PROVE  /\ writer' = [writer EXCEPT ![w] = Idle]
         /\ writer'[w] = Idle
         /\ \A v \in Writers : v # w => writer'[v] = writer[v]
         /\ held' = [held EXCEPT ![w] = {}]
         /\ held'[w] = {}
         /\ \A v \in Writers : v # w => held'[v] = held[v]
         /\ UNCHANGED <<day, answered, nextId, decided>>
         /\ \/ UNCHANGED <<facts, conflicts, done, late>>
            \/ /\ writer[w].pc = "commit"
               /\ facts' = facts \cup writer[w].took
               /\ conflicts' = conflicts \cup writer[w].clash
               /\ done' = done \cup ({writer[w].snapshot}
                                       \X (writer[w].first..writer[w].last))
               /\ late' = late \cup {d \in Days : d < day /\
                            \E f \in writer[w].took : Filed(f.key) <= d}
         /\ faults' \in 0..MaxFaults
<1>1. Over(w)
  BY DEF Ends, Commit, Fail, Victim, Abort
<1>2. faults' \in 0..MaxFaults
  BY VersionsAssumption DEF Ends, Commit, Fail, Victim, TypeOK
<1> QED
  BY <1>1, <1>2 DEF Ends, Commit, Fail, Victim, Abort, Over, TypeOK

\* The end of a transaction keeps the types.
LEMMA TypeEnds ==
  ASSUME TypeOK, NEW w \in Writers, Ends(w)
  PROVE  TypeOK'
<1>1. Idle \in Transactions /\ Idle.pc = "idle"
  BY ConstantFacts DEF Idle, Transactions
<1>2. writer' \in [Writers -> Transactions] /\ held' \in [Writers -> SUBSET Filings]
  <2> HIDE DEF Idle
  <2> QED
    BY <1>1, EndStep DEF TypeOK
<1>3. \A v \in Writers : writer'[v].pc # "idle" =>
        Working(writer'[v])
  BY <1>1, EndStep DEF TypeOK, Working
<1>4. /\ facts' \subseteq FactRecord
      /\ conflicts' \subseteq Keys \X Nat \X Nat
      /\ done' \subseteq Snapshots \X (1..Parts)
      /\ late' \subseteq Days
  <2>1. CASE UNCHANGED <<facts, conflicts, done, late>>
    BY <2>1 DEF TypeOK
  <2>2. ASSUME writer[w].pc = "commit"
        PROVE  /\ writer[w].took \subseteq FactRecord
               /\ writer[w].clash \subseteq Keys \X Nat \X Nat
               /\ {writer[w].snapshot} \X (writer[w].first..writer[w].last)
                    \subseteq Snapshots \X (1..Parts)
    <3>1. Working(writer[w]) /\ writer[w] \in Transactions
      BY <2>2 DEF TypeOK, Working
    <3>2. writer[w].first..writer[w].last \subseteq 1..Parts
      BY <3>1, ConstantFacts DEF Transactions, Working
    <3> QED
      BY <3>1, <3>2 DEF Transactions, Working
  <2> QED
    BY <2>1, <2>2, EndStep DEF TypeOK
<1> QED
  BY <1>2, <1>3, <1>4, EndStep DEF TypeOK, decided, Working

\* A decision keeps the types.
LEMMA TypeRuling ==
  ASSUME TypeOK, NEW key \in Keys, Decide(key)
  PROVE  TypeOK'
<1>1. \A days \in SUBSET Days : days \X {day} \subseteq Days \X Days
  BY DEF TypeOK
<1>2. \A days \in SUBSET Days : Ruling(key, days) =>
        /\ ruled' \subseteq Days \X Days
        /\ rulings' \in 0..MaxRulings
        /\ UNCHANGED <<day, answered, ingest>>
  BY <1>1, VersionsAssumption DEF Ruling, TypeOK
<1>3. day \in 0..Never /\ Never \in 0..Never
  BY VersionsAssumption DEF TypeOK, Days, Never
<1>4. /\ ruled' \subseteq Days \X Days
      /\ rulings' \in 0..MaxRulings
      /\ UNCHANGED <<day, answered, ingest>>
      /\ review' \in [Keys -> {"none", "approved", "rejected"}]
      /\ technical' \subseteq Keys
      /\ veto' \in [Keys -> 0..Never]
  <2>1. CASE CreateTechnical(key)
    BY <1>2, <2>1 DEF CreateTechnical, TypeOK
  <2>2. CASE CreateVeto(key)
    BY <1>2, <1>3, <2>2 DEF CreateVeto, TypeOK
  <2>3. CASE RevokeTechnical(key)
    BY <1>2, <2>3 DEF RevokeTechnical, TypeOK
  <2>4. CASE RevokeVeto(key)
    BY <1>2, <1>3, <2>4 DEF RevokeVeto, TypeOK
  <2>5. CASE \E decision \in {"approved", "rejected"} : Review(key, decision)
    BY <1>2, <2>5 DEF Review, TypeOK
  <2> QED
    BY <2>1, <2>2, <2>3, <2>4, <2>5 DEF Decide
<1> QED
  BY <1>4 DEF TypeOK, ingest

-----------------------------------------------------------------------------
(* The invariant is preserved                                              *)

\* The parts of the invariant about ingest, without the types.
Apart == LocksInv /\ FreshInv /\ OneFactInv /\ SourceInv

\* A filing is locked only when nobody else holds it.
LEMMA FlushKeeps ==
  ASSUME TypeOK, Apart, NEW w \in Writers, FlushFiling(w)
  PROVE  Apart'
<1>1. PICK f \in Filings :
        /\ Holder(f) = {}
        /\ held' = [held EXCEPT ![w] = @ \cup {f}]
  BY DEF FlushFiling
<1>2. UNCHANGED <<facts, writer>>
  BY DEF FlushFiling
<1>3. /\ held'[w] = held[w] \cup {f}
      /\ \A v \in Writers : v # w => held'[v] = held[v]
      /\ \A v \in Writers : held[v] \subseteq held'[v] /\ f \notin held[v]
  BY <1>1 DEF TypeOK, Holder
<1>4. LocksInv'
  <2>1. ASSUME NEW u \in Writers, NEW v \in Writers, u # v
        PROVE  held'[u] \cap held'[v] = {}
    BY <1>3, <2>1 DEF Apart, LocksInv
  <2>2. ASSUME NEW v \in Writers, NEW g \in writer'[v].took
        PROVE  FilingOf[g.key] \in held'[v]
    BY <1>2, <1>3 DEF Apart, LocksInv
  <2>3. ASSUME NEW v \in Writers, writer'[v].pc = "insert",
               NEW i \in DOMAIN Doc(v)'
        PROVE  FilingOf[Doc(v)'[i].key] \in held'[v]
    BY <1>2, <1>3, <2>3 DEF Apart, LocksInv, Doc
  <2> QED
    BY <2>1, <2>2, <2>3 DEF LocksInv
<1> QED
  BY <1>2, <1>4 DEF Apart, FreshInv, OneFactInv, SourceInv, Sourced, Doc

\* A step that touches neither the facts nor a transaction.
LEMMA OthersKeep ==
  ASSUME Apart, UNCHANGED <<facts, writer, held>>
  PROVE  Apart'
BY DEF Apart, LocksInv, FreshInv, OneFactInv, SourceInv, Sourced, Doc

\* A transaction that has not read anything yet.
LEMMA BeginKeeps ==
  ASSUME TypeOK, Apart, NEW w \in Writers, BeginOnline(w) \/ BeginBackfill(w)
  PROVE  Apart'
<1>1. UNCHANGED <<facts, held>>
  BY DEF BeginOnline, BeginBackfill, Begin
<1>2. writer'[w].pc = "filings" /\ writer'[w].took = {}
  BY DEF BeginOnline, BeginBackfill, Begin, TypeOK
<1>3. \A v \in Writers : v # w => writer'[v] = writer[v]
  BY DEF BeginOnline, BeginBackfill, Begin, TypeOK
<1>4. LocksInv'
  BY <1>1, <1>2, <1>3 DEF Apart, LocksInv, Doc
<1>5. FreshInv'
  BY <1>1, <1>2, <1>3 DEF Apart, FreshInv, Doc
<1>6. OneFactInv'
  BY <1>1, <1>2, <1>3 DEF Apart, OneFactInv
<1>7. SourceInv'
  BY <1>1, <1>2, <1>3 DEF Apart, SourceInv, Sourced
<1> QED
  BY <1>4, <1>5, <1>6, <1>7 DEF Apart

\* A transaction reads the facts once all its filings are locked.
LEMMA LoadKeeps ==
  ASSUME TypeOK, Apart, NEW w \in Writers, LoadExisting(w)
  PROVE  Apart'
<1>1. UNCHANGED <<facts, held>> /\ Unflushed(w) = {}
  BY DEF LoadExisting
<1>2. /\ writer'[w].took = writer[w].took
      /\ writer'[w].snapshot = writer[w].snapshot
      /\ writer'[w].part = writer[w].part
  <2>1. writer'[w] = [writer[w] EXCEPT !.pc = "insert",
              !.fresh = writer'[w].fresh, !.clash = writer'[w].clash]
    BY LoadFields
  <2>2. writer[w] \in Transactions
    BY DEF TypeOK
  <2> QED
    BY <2>1, <2>2 DEF Transactions
<1>3. \A v \in Writers : v # w => writer'[v] = writer[v]
  BY LoadFields
<1>4. \A v \in Writers : Doc(v)' = Doc(v) /\ writer'[v].took = writer[v].took
  BY <1>2, <1>3 DEF Doc
<1>5. LocksInv'
  <2>1. \A i \in DOMAIN Doc(w) : FilingOf[Doc(w)[i].key] \in held[w]
    BY <1>1 DEF Unflushed
  <2> QED
    BY <1>1, <1>3, <1>4, <2>1 DEF Apart, LocksInv
<1>6. FreshInv'
  <2>1. writer'[w].fresh = {i \in FirstRows(Doc(w)) :
              \A f \in facts \cup writer[w].took : f.key # Doc(w)[i].key}
    BY LoadFields
  <2> QED
    BY <1>1, <1>3, <1>4, <2>1 DEF Apart, FreshInv
<1>7. OneFactInv' /\ SourceInv'
  BY <1>1, <1>4 DEF Apart, OneFactInv, SourceInv, Sourced
<1> QED
  BY <1>5, <1>6, <1>7 DEF Apart

\* An insert adds facts about locked filings only.
LEMMA InsertKeeps ==
  ASSUME TypeOK, Apart, NEW w \in Writers, Insert(w)
  PROVE  Apart'
<1>1. TypeOK /\ FreshInv
  BY DEF Apart
<1>2. UNCHANGED <<facts, held>> /\ writer[w].pc = "insert"
  BY <1>1, InsertStep
<1>3. /\ writer'[w].took = writer[w].took \cup Added(w)
      /\ writer'[w].pc # "insert"
      /\ \A v \in Writers : v # w => writer'[v] = writer[v]
  BY <1>1, InsertFields
<1>4. \A i \in writer[w].fresh :
        /\ i \in DOMAIN Doc(w)
        /\ \A j \in DOMAIN Doc(w) : Doc(w)[j].key = Doc(w)[i].key => i <= j
        /\ \A f \in facts \cup writer[w].took : f.key # Doc(w)[i].key
  BY <1>2 DEF Apart, FreshInv, FirstRows
<1>5. \A f \in Added(w) : \E i \in writer[w].fresh :
        /\ f.key = Doc(w)[i].key /\ f.value = Doc(w)[i].value
        /\ f.observed = Doc(w)[i].value /\ f.snapshot = writer[w].snapshot
        /\ f.id = nextId + Place(writer[w].fresh, i) - 1
  BY DEF Added
<1>6. DOMAIN Doc(w) \subseteq Nat
  BY <1>2, CurrentRows
<1>7. LocksInv'
  <2>1. ASSUME NEW f \in Added(w)
        PROVE  FilingOf[f.key] \in held[w]
    BY <1>2, <1>4, <1>5 DEF Apart, LocksInv
  <2> QED
    BY <1>2, <1>3, <2>1 DEF Apart, LocksInv, Doc
<1>8. FreshInv'
  BY <1>2, <1>3 DEF Apart, FreshInv, Doc
<1>9. OneFactInv'
  <2>1. ASSUME NEW f \in Added(w), NEW g \in facts \cup writer[w].took
        PROVE  f.key # g.key
    BY <1>4, <1>5
  <2>2. ASSUME NEW f \in Added(w), NEW g \in Added(w), f.key = g.key
        PROVE  f = g
    <3>1. PICK i \in writer[w].fresh : f =
            [key |-> Doc(w)[i].key, value |-> Doc(w)[i].value,
             id |-> nextId + Place(writer[w].fresh, i) - 1,
             snapshot |-> writer[w].snapshot, observed |-> Doc(w)[i].value]
      BY DEF Added
    <3>2. PICK j \in writer[w].fresh : g =
            [key |-> Doc(w)[j].key, value |-> Doc(w)[j].value,
             id |-> nextId + Place(writer[w].fresh, j) - 1,
             snapshot |-> writer[w].snapshot, observed |-> Doc(w)[j].value]
      BY DEF Added
    <3>3. Doc(w)[i].key = Doc(w)[j].key
      BY <2>2, <3>1, <3>2
    <3>4. i = j
      <4>1. i <= j /\ j <= i /\ i \in Nat /\ j \in Nat
        BY <1>4, <1>6, <3>3
      <4> QED
        BY <4>1
    <3> QED
      BY <3>1, <3>2, <3>4
  <2>3. \A f, g \in facts \cup writer[w].took \cup Added(w) :
          f.key = g.key => f = g
    BY <2>1, <2>2 DEF Apart, OneFactInv
  <2> QED
    BY <1>2, <1>3, <2>3 DEF Apart, OneFactInv
<1>10. SourceInv'
  <2>1. ASSUME NEW f \in Added(w)
        PROVE  Sourced(f)
    <3>1. PICK i \in writer[w].fresh :
            /\ f.key = Doc(w)[i].key /\ f.value = Doc(w)[i].value
            /\ f.observed = Doc(w)[i].value /\ f.snapshot = writer[w].snapshot
      BY <1>5
    <3>2. Doc(w)[i] \in [key : Keys, value : Nat] /\ i \in DOMAIN Doc(w)
      BY <1>2, <1>4, CurrentRows
    <3>3. Doc(w)[i] = [key |-> f.key, value |-> f.value]
      BY <3>1, <3>2
    <3>4. writer[w].part \in 1..Parts
      BY <1>2 DEF TypeOK
    <3> QED
      BY <3>1, <3>2, <3>3, <3>4 DEF Sourced, Doc
  <2> QED
    BY <1>2, <1>3, <2>1 DEF Apart, SourceInv, Sourced
<1> QED
  BY <1>7, <1>8, <1>9, <1>10 DEF Apart

\* A commit adds no fact another transaction found missing.
LEMMA EndsKeep ==
  ASSUME TypeOK, Apart, NEW w \in Writers, Ends(w)
  PROVE  Apart'
<1>1. /\ writer'[w].took = {} /\ writer'[w].pc = "idle"
      /\ \A v \in Writers : v # w => writer'[v] = writer[v] /\ held'[v] = held[v]
      /\ held'[w] = {}
  BY EndStep DEF Idle
<1>2. \/ facts' = facts
      \/ facts' = facts \cup writer[w].took
  BY EndStep
<1>3. facts \subseteq facts' /\ facts' \subseteq facts \cup writer[w].took
  BY <1>2
<1>4. ASSUME NEW v \in Writers, v # w, NEW f \in writer[w].took, NEW k,
             FilingOf[k] \in held[v]
      PROVE  f.key # k
  BY <1>4 DEF Apart, LocksInv
<1>5. LocksInv'
  BY <1>1 DEF Apart, LocksInv, Doc
<1>6. FreshInv'
  <2>1. ASSUME NEW v \in Writers, writer'[v].pc = "insert"
        PROVE  writer'[v].fresh = {i \in FirstRows(Doc(v)') :
                 \A f \in facts' \cup writer'[v].took : f.key # Doc(v)'[i].key}
    <3>1. v # w /\ writer'[v] = writer[v] /\ Doc(v)' = Doc(v)
      BY <1>1, <2>1 DEF Doc
    <3>2. \A i \in FirstRows(Doc(v)) : \A f \in writer[w].took :
            f.key # Doc(v)[i].key
      BY <1>4, <2>1, <3>1 DEF Apart, LocksInv, FirstRows
    <3>3. writer[v].fresh = {i \in FirstRows(Doc(v)) :
             \A f \in facts \cup writer[v].took : f.key # Doc(v)[i].key}
      BY <2>1, <3>1 DEF Apart, FreshInv
    <3> QED
      BY <1>3, <3>1, <3>2, <3>3
  <2> QED
    BY <2>1 DEF FreshInv
<1>7. OneFactInv'
  <2>1. \A f, g \in facts' : f.key = g.key => f = g
    BY <1>3 DEF Apart, OneFactInv
  <2>2. ASSUME NEW v \in Writers, v # w,
               NEW f \in facts', NEW g \in writer[v].took, f.key = g.key
        PROVE  f = g
    <3>1. f \in facts
      BY <1>3, <1>4, <2>2 DEF Apart, LocksInv
    <3> QED
      BY <2>2, <3>1 DEF Apart, OneFactInv
  <2>3. ASSUME NEW v \in Writers,
               NEW f \in facts' \cup writer'[v].took,
               NEW g \in facts' \cup writer'[v].took, f.key = g.key
        PROVE  f = g
    BY <1>1, <2>1, <2>2, <2>3 DEF Apart, OneFactInv
  <2> QED
    BY <2>1, <2>3 DEF OneFactInv
<1>8. SourceInv'
  BY <1>1, <1>3 DEF Apart, SourceInv, Sourced
<1> QED
  BY <1>5, <1>6, <1>7, <1>8 DEF Apart

\* No step brings a fact from the future.
LEMMA InTimeNext ==
  ASSUME TypeOK, FreshInv, InTimeInv, Next
  PROVE  InTimeInv'
<1>1. CASE NewDay
  <2>1. day \in Nat /\ day' = day + 1 /\ UNCHANGED <<facts, writer>>
    BY <1>1, VersionsAssumption DEF TypeOK, NewDay, ingest, Days
  <2>2. \A w \in Writers : writer[w].pc # "idle" =>
          ArrivesOn[writer[w].snapshot] \in Nat
    BY ConstantFacts DEF TypeOK
  <2>3. \A k \in Keys : Filed(k) \in Nat
    BY ConstantFacts
  <2>4. \A f \in facts : f.key \in Keys
    BY DEF TypeOK, FactRecord
  <2>5. \A w \in Writers : \A f \in writer[w].took : f.key \in Keys
    BY DEF TypeOK, FactRecord, Transactions
  <2> QED
    BY <2>1, <2>2, <2>3, <2>4, <2>5 DEF InTimeInv
<1>2. ASSUME NEW w \in Writers, BeginOnline(w) \/ BeginBackfill(w)
      PROVE  InTimeInv'
  <2>1. PICK s \in Available : writer'[w].snapshot = s /\ writer'[w].took = {}
    BY <1>2 DEF BeginOnline, BeginBackfill, Begin, TypeOK
  <2>2. UNCHANGED <<day, facts>> /\ \A v \in Writers : v # w => writer'[v] = writer[v]
    BY <1>2 DEF BeginOnline, BeginBackfill, Begin, TypeOK
  <2> QED
    BY <2>1, <2>2 DEF InTimeInv, Available
<1>3. ASSUME NEW w \in Writers, FlushFiling(w)
      PROVE  InTimeInv'
  BY <1>3 DEF FlushFiling, InTimeInv
<1>4. ASSUME NEW w \in Writers, LoadExisting(w)
      PROVE  InTimeInv'
  <2>1. UNCHANGED <<day, facts>>
    BY <1>4 DEF LoadExisting
  <2>2. /\ writer'[w].took = writer[w].took
        /\ writer'[w].snapshot = writer[w].snapshot
        /\ writer[w].pc # "idle"
    <3>1. writer'[w] = [writer[w] EXCEPT !.pc = "insert",
              !.fresh = writer'[w].fresh, !.clash = writer'[w].clash]
      BY <1>4, LoadFields
    <3>2. writer[w] \in Transactions /\ writer[w].pc # "idle"
      BY <1>4, LoadFields DEF TypeOK
    <3> QED
      BY <3>1, <3>2 DEF Transactions
  <2>3. \A v \in Writers : v # w => writer'[v] = writer[v]
    BY <1>4, LoadFields
  <2> QED
    BY <2>1, <2>2, <2>3 DEF InTimeInv
<1>5. ASSUME NEW w \in Writers, Insert(w)
      PROVE  InTimeInv'
  <2>1. UNCHANGED <<day, facts>> /\ writer[w].pc = "insert"
    BY <1>5, InsertStep
  <2>2. /\ writer'[w].took = writer[w].took \cup Added(w)
        /\ writer'[w].snapshot = writer[w].snapshot
        /\ \A v \in Writers : v # w => writer'[v] = writer[v]
    BY <1>5, InsertFields
  <2>3. ASSUME NEW f \in Added(w)
        PROVE  Filed(f.key) <= day
    <3>1. PICK i \in writer[w].fresh : f.key = Doc(w)[i].key
      BY DEF Added
    <3>2. /\ Doc(w)[i].key \in Keys
          /\ Filed(f.key) <= ArrivesOn[writer[w].snapshot]
      BY <1>5, <2>1, <3>1, InsertStep, CurrentRows DEF FirstRows
    <3>3. ArrivesOn[writer[w].snapshot] \in Nat /\ Filed(f.key) \in Nat
      BY <2>1, <3>1, <3>2, ConstantFacts DEF TypeOK
    <3>4. ArrivesOn[writer[w].snapshot] <= day /\ day \in Nat
      BY <2>1, ConstantFacts DEF InTimeInv, TypeOK
    <3> QED
      BY <3>2, <3>3, <3>4
  <2> QED
    BY <2>1, <2>2, <2>3 DEF InTimeInv
<1>6. ASSUME NEW w \in Writers, Ends(w)
      PROVE  InTimeInv'
  <2>1. day' = day /\ writer'[w].took = {} /\ writer'[w].pc = "idle"
    BY <1>6, EndStep DEF Idle
  <2>2. \A v \in Writers : v # w => writer'[v] = writer[v]
    BY <1>6, EndStep
  <2>3. facts' \subseteq facts \cup writer[w].took
    BY <1>6, EndStep
  <2> QED
    BY <2>1, <2>2, <2>3 DEF InTimeInv
<1>7. ASSUME NEW key \in Keys, Decide(key)
      PROVE  InTimeInv'
  BY <1>7 DEF Decide, CreateTechnical, CreateVeto, RevokeTechnical, RevokeVeto,
              Review, Ruling, ingest, InTimeInv
<1> QED
  BY <1>1, <1>2, <1>3, <1>4, <1>5, <1>6, <1>7 DEF Next, IngestNext, WriterStep, Ends

\* Every step keeps the invariant.
LEMMA IngestInvNext ==
  ASSUME IngestInv, [Next]_vars
  PROVE  IngestInv'
<1> USE DEF IngestInv
<1>1. TypeOK /\ FreshInv /\ InTimeInv /\ Apart
  BY DEF Apart
<1>2. CASE UNCHANGED vars
  BY <1>2 DEF vars, ingest, decided, TypeOK, LocksInv, FreshInv, OneFactInv,
              SourceInv, Sourced, InTimeInv, Doc
<1>3. CASE Next
  <2>1. InTimeInv'
    BY <1>1, <1>3, InTimeNext
  <2>2. TypeOK' /\ Apart'
    <3>1. CASE NewDay
      BY <1>1, <3>1, TypeNewDay, OthersKeep DEF NewDay, ingest
    <3>2. ASSUME NEW w \in Writers, BeginOnline(w) \/ BeginBackfill(w)
          PROVE  TypeOK' /\ Apart'
      BY <1>1, <3>2, TypeBegin, BeginKeeps
    <3>3. ASSUME NEW w \in Writers, FlushFiling(w)
          PROVE  TypeOK' /\ Apart'
      BY <1>1, <3>3, TypeFlush, FlushKeeps
    <3>4. ASSUME NEW w \in Writers, LoadExisting(w)
          PROVE  TypeOK' /\ Apart'
      BY <1>1, <3>4, TypeLoad, LoadKeeps
    <3>5. ASSUME NEW w \in Writers, Insert(w)
          PROVE  TypeOK' /\ Apart'
      BY <1>1, <3>5, TypeInsert, InsertKeeps
    <3>6. ASSUME NEW w \in Writers, Ends(w)
          PROVE  TypeOK' /\ Apart'
      BY <1>1, <3>6, TypeEnds, EndsKeep
    <3>7. ASSUME NEW key \in Keys, Decide(key)
          PROVE  TypeOK' /\ Apart'
      <4>1. UNCHANGED <<facts, writer, held>>
        BY <3>7 DEF Decide, CreateTechnical, CreateVeto, RevokeTechnical,
                    RevokeVeto, Review, Ruling, ingest
      <4> QED
        BY <1>1, <3>7, <4>1, TypeRuling, OthersKeep
    <3> QED
      BY <1>3, <3>1, <3>2, <3>3, <3>4, <3>5, <3>6, <3>7
      DEF Next, IngestNext, WriterStep, Ends
  <2> QED
    BY <2>1, <2>2 DEF Apart
<1> QED
  BY <1>2, <1>3

\* The invariant holds at the start.
LEMMA IngestInvInit == Init => IngestInv
<1> SUFFICES ASSUME Init
             PROVE  IngestInv
  OBVIOUS
<1>1. TypeOK
  BY TypeInit
<1>2. facts = {} /\ \A w \in Writers : writer[w] = Idle /\ held[w] = {}
  BY DEF Init
<1>3. Idle.took = {} /\ Idle.pc = "idle"
  BY DEF Idle
<1> HIDE DEF Idle
<1> QED
  BY <1>1, <1>2, <1>3
  DEF IngestInv, LocksInv, FreshInv, OneFactInv, SourceInv, InTimeInv

\* Whatever the writers do, a transaction writes only about filings it alone
\* has locked, and what it found to be new stays so until it commits.
THEOREM IngestInvariant == Spec => []IngestInv
BY IngestInvInit, IngestInvNext, PTL DEF Spec

\* The types are kept for every set of writers, documents and bounds.
THEOREM TypeCorrect == Spec => []TypeOK
<1>1. IngestInv => TypeOK
  BY DEF IngestInv
<1> QED
  BY <1>1, IngestInvariant, PTL

\* A key has one fact, and its source holds the key with its value.
THEOREM EvidenceHolds == Spec => []EvidenceMatches
<1>1. IngestInv => EvidenceMatches
  BY DEF IngestInv, SourceInv, Sourced, OneFactInv, EvidenceMatches
<1> QED
  BY <1>1, IngestInvariant, PTL

-----------------------------------------------------------------------------
(* No value is lost                                                        *)

\* What is recorded stays recorded while everything only grows.
LEMMA RecordedStays ==
  ASSUME NEW v, NEW row, Recorded(v, row),
         facts \subseteq facts', conflicts \subseteq conflicts',
         writer[v].took \subseteq writer'[v].took,
         writer[v].clash \subseteq writer'[v].clash
  PROVE  Recorded(v, row)'
BY DEF Recorded

\* Nothing is lost while facts and conflicts only grow.
LEMMA LostNothingMore ==
  ASSUME NothingLost, facts \subseteq facts', conflicts \subseteq conflicts',
         done' = done
  PROVE  NothingLost'
BY DEF NothingLost

\* A transaction that is left alone keeps what it has recorded.
LEMMA KeptByOthers ==
  ASSUME KeptInv, NEW v \in Writers, writer'[v] = writer[v],
         facts \subseteq facts', conflicts \subseteq conflicts'
  PROVE  /\ writer'[v].pc # "idle" =>
              /\ writer'[v].part <= writer'[v].last
              /\ \A p \in writer'[v].first..writer'[v].last :
                   (p < writer'[v].part \/ writer'[v].pc = "commit") =>
                     Covered(v, p)'
         /\ writer'[v].pc = "insert" =>
              \A i \in DOMAIN Doc(v)' :
                \/ Recorded(v, Doc(v)[i])'
                \/ \E k \in writer'[v].fresh : Doc(v)'[k] = Doc(v)'[i]
<1>1. \A row : Recorded(v, row) => Recorded(v, row)'
  BY RecordedStays
<1>2. \A p : Covered(v, p) => Covered(v, p)'
  BY <1>1 DEF Covered
<1>3. Doc(v)' = Doc(v)
  BY DEF Doc
<1>4. \A i : Recorded(v, Doc(v)[i]) => Recorded(v, Doc(v)[i])'
  BY <1>1, <1>3
<1> QED
  BY <1>2, <1>3, <1>4 DEF KeptInv

\* What the reading of the facts leaves to the insert, and what it records.
LEMMA LoadCovers ==
  ASSUME TypeOK, NEW w \in Writers, LoadExisting(w), NEW i \in DOMAIN Doc(w)
  PROVE  \/ Recorded(w, Doc(w)[i])'
         \/ \E k \in writer'[w].fresh : Doc(w)[k] = Doc(w)[i]
<1>1. writer[w].pc = "filings" /\ facts' = facts /\ conflicts' = conflicts
  BY DEF LoadExisting
<1>2. writer'[w].took = writer[w].took /\ Doc(w)' = Doc(w)
  <2>1. writer'[w] = [writer[w] EXCEPT !.pc = "insert",
            !.fresh = writer'[w].fresh, !.clash = writer'[w].clash]
    BY LoadFields
  <2>2. writer[w] \in Transactions
    BY DEF TypeOK
  <2> QED
    BY <2>1, <2>2 DEF Transactions, Doc
<1>3. PICK k \in FirstRows(Doc(w)) : Doc(w)[k].key = Doc(w)[i].key
  <2>1. writer[w].snapshot \in Snapshots /\ writer[w].part \in 1..Parts
    BY <1>1 DEF TypeOK
  <2> QED
    BY <2>1, FirstRowExists DEF Doc
<1>4. /\ k \in DOMAIN Doc(w)
      /\ Doc(w)[k] \in [key : Keys, value : Nat]
      /\ Doc(w)[i] \in [key : Keys, value : Nat]
  BY <1>1, <1>3, CurrentRows DEF FirstRows
<1>5. CASE Doc(w)[k].value # Doc(w)[i].value
  <2>1. <<Doc(w)[k].key, Doc(w)[k].value, Doc(w)[i].value>>
          \in BatchConflicts(Doc(w))
    BY <1>3, <1>5 DEF BatchConflicts, Clashes
  <2>2. <<Doc(w)[k].key, Doc(w)[k].value, Doc(w)[i].value>> \in writer'[w].clash
    BY <2>1, LoadFields
  <2> QED
    BY <1>2, <1>3, <2>2 DEF Recorded
<1>6. CASE Doc(w)[k].value = Doc(w)[i].value
  <2>1. Doc(w)[k] = Doc(w)[i]
    BY <1>3, <1>4, <1>6
  <2>2. CASE \A f \in facts \cup writer[w].took : f.key # Doc(w)[k].key
    <3>1. k \in writer'[w].fresh
      BY <1>3, <2>2, LoadFields
    <3> QED
      BY <2>1, <3>1
  <2>3. ASSUME NEW f \in facts \cup writer[w].took, f.key = Doc(w)[k].key
        PROVE  Recorded(w, Doc(w)[i])'
    <3>1. CASE f.value = Doc(w)[i].value
      <4>1. f \in facts' \cup writer'[w].took
        BY <1>1, <1>2
      <4>2. f.key = Doc(w)[i].key
        BY <1>3, <2>3
      <4> QED
        BY <1>2, <3>1, <4>1, <4>2 DEF Recorded
    <3>2. CASE f.value # Doc(w)[i].value
      <4>1. <<f.key, f.value, Doc(w)[k].value>> \in
              Clashes(facts \cup writer[w].took,
                      {Doc(w)[j] : j \in FirstRows(Doc(w))})
        <5>1. Doc(w)[k] \in {Doc(w)[j] : j \in FirstRows(Doc(w))}
          BY <1>3
        <5> QED
          BY <1>6, <2>3, <3>2, <5>1 DEF Clashes
      <4>2. <<f.key, f.value, Doc(w)[k].value>> \in writer'[w].clash
        BY <4>1, LoadFields
      <4> QED
        BY <1>2, <1>3, <1>6, <2>3, <4>2 DEF Recorded
    <3> QED
      BY <3>1, <3>2
  <2> QED
    BY <2>2, <2>3
<1> QED
  BY <1>5, <1>6

\* A transaction that begins owes nothing yet.
LEMMA KeptBegin ==
  ASSUME TypeOK, KeptInv, NEW w \in Writers, BeginOnline(w) \/ BeginBackfill(w)
  PROVE  KeptInv'
<1>1. PICK s \in Snapshots, first \in 1..Parts, last \in 1..Parts,
           kind \in {"online", "backfill"} :
             first <= last /\ Begin(w, s, first, last, kind)
  <2>1. Available \subseteq Snapshots /\ 1 \in 1..Parts /\ Parts \in 1..Parts
    BY ConstantFacts DEF Available
  <2>2. \A p \in 1..Parts : p <= p
    OBVIOUS
  <2>3. CASE BeginOnline(w)
    BY <2>1, <2>2, <2>3 DEF BeginOnline
  <2>4. CASE BeginBackfill(w)
    <3>1. 1 <= Parts
      BY ConstantFacts
    <3> QED
      BY <2>1, <2>4, <3>1 DEF BeginBackfill
  <2> QED
    BY <2>3, <2>4
<1>2. /\ UNCHANGED <<facts, conflicts, done>>
      /\ writer'[w].pc = "filings"
      /\ writer'[w].first = first /\ writer'[w].part = first
      /\ writer'[w].last = last
      /\ \A v \in Writers : v # w => writer'[v] = writer[v]
  BY <1>1 DEF Begin, TypeOK
<1>3. NothingLost'
  BY <1>2, LostNothingMore DEF KeptInv
<1>4. \A p \in first..last : ~(p < first)
  OBVIOUS
<1>5. \A v \in Writers : v # w =>
        /\ writer'[v].pc # "idle" =>
              /\ writer'[v].part <= writer'[v].last
              /\ \A p \in writer'[v].first..writer'[v].last :
                   (p < writer'[v].part \/ writer'[v].pc = "commit") =>
                     Covered(v, p)'
        /\ writer'[v].pc = "insert" =>
              \A i \in DOMAIN Doc(v)' :
                \/ Recorded(v, Doc(v)[i])'
                \/ \E k \in writer'[v].fresh : Doc(v)'[k] = Doc(v)'[i]
  BY <1>2, KeptByOthers
<1> QED
  BY <1>1, <1>2, <1>3, <1>4, <1>5 DEF KeptInv

\* Reading the facts records every row or finds it new.
LEMMA KeptLoad ==
  ASSUME TypeOK, KeptInv, NEW w \in Writers, LoadExisting(w)
  PROVE  KeptInv'
<1>1. UNCHANGED <<facts, conflicts, done>>
  BY DEF LoadExisting
<1>2. /\ writer[w].pc = "filings" /\ writer'[w].pc = "insert"
      /\ writer'[w].first = writer[w].first
      /\ writer'[w].last = writer[w].last
      /\ writer'[w].part = writer[w].part
      /\ writer'[w].snapshot = writer[w].snapshot
      /\ writer'[w].took = writer[w].took
      /\ writer[w].clash \subseteq writer'[w].clash
  <2>1. writer'[w] = [writer[w] EXCEPT !.pc = "insert",
            !.fresh = writer'[w].fresh, !.clash = writer'[w].clash]
    BY LoadFields
  <2>2. writer[w] \in Transactions
    BY DEF TypeOK
  <2>3. writer[w].pc = "filings" /\ writer[w].clash \subseteq writer'[w].clash
    BY LoadFields
  <2> QED
    BY <2>1, <2>2, <2>3 DEF Transactions
<1>3. Doc(w)' = Doc(w)
  BY <1>2 DEF Doc
<1>4. NothingLost'
  BY <1>1, LostNothingMore DEF KeptInv
<1>5. \A p : Covered(w, p) => Covered(w, p)'
  <2>1. \A row : Recorded(w, row) => Recorded(w, row)'
    BY <1>1, <1>2, RecordedStays
  <2> QED
    BY <1>2, <2>1 DEF Covered
<1>6. /\ writer'[w].part <= writer'[w].last
      /\ \A p \in writer'[w].first..writer'[w].last :
           (p < writer'[w].part \/ writer'[w].pc = "commit") => Covered(w, p)'
  BY <1>2, <1>5 DEF KeptInv
<1>7. \A i \in DOMAIN Doc(w)' :
        \/ Recorded(w, Doc(w)[i])'
        \/ \E k \in writer'[w].fresh : Doc(w)'[k] = Doc(w)'[i]
  BY <1>3, LoadCovers
<1>8. \A v \in Writers : v # w => writer'[v] = writer[v]
  BY LoadFields
<1>9. \A v \in Writers : v # w =>
        /\ writer'[v].pc # "idle" =>
              /\ writer'[v].part <= writer'[v].last
              /\ \A p \in writer'[v].first..writer'[v].last :
                   (p < writer'[v].part \/ writer'[v].pc = "commit") =>
                     Covered(v, p)'
        /\ writer'[v].pc = "insert" =>
              \A i \in DOMAIN Doc(v)' :
                \/ Recorded(v, Doc(v)[i])'
                \/ \E k \in writer'[v].fresh : Doc(v)'[k] = Doc(v)'[i]
  BY <1>1, <1>8, KeptByOthers
<1> QED
  BY <1>4, <1>6, <1>7, <1>9 DEF KeptInv

\* An insert stores what was found new.
LEMMA KeptInsert ==
  ASSUME TypeOK, FreshInv, KeptInv, NEW w \in Writers, Insert(w)
  PROVE  KeptInv'
<1>1. UNCHANGED <<facts, conflicts, done>> /\ writer[w].pc = "insert"
  BY InsertStep
<1>2. /\ writer'[w].pc \in {"filings", "commit"}
      /\ writer'[w].first = writer[w].first
      /\ writer'[w].last = writer[w].last
      /\ writer'[w].snapshot = writer[w].snapshot
      /\ writer'[w].took = writer[w].took \cup Added(w)
      /\ writer'[w].clash = writer[w].clash
  BY InsertFields
<1>3. /\ writer[w].part \in Nat /\ writer[w].last \in Nat /\ writer[w].first \in Nat
      /\ writer[w].part <= writer[w].last
  BY <1>1 DEF TypeOK, KeptInv, Transactions
<1>4. NothingLost'
  BY <1>1, LostNothingMore DEF KeptInv
<1>5. \A row : Recorded(w, row) => Recorded(w, row)'
  BY <1>1, <1>2, RecordedStays
<1>6. \A p : Covered(w, p) => Covered(w, p)'
  BY <1>2, <1>5 DEF Covered
<1>7. \A p : p = writer[w].part => Covered(w, p)'
  <2>1. ASSUME NEW i \in DOMAIN Doc(w)
        PROVE  Recorded(w, Doc(w)[i])
                 \/ \E f \in Added(w) : f.key = Doc(w)[i].key
                                          /\ f.value = Doc(w)[i].value
    <3>1. CASE Recorded(w, Doc(w)[i])
      BY <3>1
    <3>2. ASSUME NEW k \in writer[w].fresh, Doc(w)[k] = Doc(w)[i]
          PROVE  \E f \in Added(w) : f.key = Doc(w)[i].key
                                       /\ f.value = Doc(w)[i].value
      <4> DEFINE f == [key |-> Doc(w)[k].key, value |-> Doc(w)[k].value,
                       id |-> nextId + Place(writer[w].fresh, k) - 1,
                       snapshot |-> writer[w].snapshot,
                       observed |-> Doc(w)[k].value]
      <4>1. f \in Added(w)
        BY DEF Added
      <4>2. f.key = Doc(w)[i].key /\ f.value = Doc(w)[i].value
        BY <3>2
      <4> QED
        BY <4>1, <4>2
    <3> QED
      BY <1>1, <3>1, <3>2 DEF KeptInv
  <2>2. ASSUME NEW row, NEW f \in Added(w), f.key = row.key, f.value = row.value
        PROVE  Recorded(w, row)'
    BY <1>2, <2>2 DEF Recorded
  <2>3. \A i \in DOMAIN Doc(w) : \A row : row = Doc(w)[i] => Recorded(w, row)'
    BY <1>5, <2>1, <2>2
  <2> QED
    BY <1>2, <2>3 DEF Covered, Doc
<1>8. /\ writer'[w].part <= writer'[w].last
      /\ \A p \in writer'[w].first..writer'[w].last :
           (p < writer'[w].part \/ writer'[w].pc = "commit") => Covered(w, p)'
  <2>1. \A p \in writer[w].first..writer[w].last :
          p <= writer[w].part => Covered(w, p)'
    <3>1. ASSUME NEW p \in writer[w].first..writer[w].last, p <= writer[w].part
          PROVE  p < writer[w].part \/ p = writer[w].part
      BY <1>3, <3>1
    <3>2. \A p \in writer[w].first..writer[w].last :
            p < writer[w].part => Covered(w, p)
      BY <1>1 DEF KeptInv
    <3> QED
      BY <1>6, <1>7, <3>1, <3>2
  <2>2. CASE writer'[w].pc = "filings"
    <3>1. writer[w].part < writer[w].last
            /\ writer'[w].part = writer[w].part + 1
      BY <2>2, InsertFields
    <3> QED
      BY <1>2, <1>3, <2>1, <2>2, <3>1
  <2>3. CASE writer'[w].pc = "commit"
    <3>1. ~(writer[w].part < writer[w].last)
            /\ writer'[w].part = writer[w].part
      BY <2>3, InsertFields
    <3> QED
      BY <1>2, <1>3, <2>1, <3>1
  <2> QED
    BY <1>2, <2>2, <2>3
<1>9. \A v \in Writers : v # w =>
        /\ writer'[v].pc # "idle" =>
              /\ writer'[v].part <= writer'[v].last
              /\ \A p \in writer'[v].first..writer'[v].last :
                   (p < writer'[v].part \/ writer'[v].pc = "commit") =>
                     Covered(v, p)'
        /\ writer'[v].pc = "insert" =>
              \A i \in DOMAIN Doc(v)' :
                \/ Recorded(v, Doc(v)[i])'
                \/ \E k \in writer'[v].fresh : Doc(v)'[k] = Doc(v)'[i]
  BY <1>1, InsertFields, KeptByOthers
<1> QED
  BY <1>2, <1>4, <1>8, <1>9 DEF KeptInv

\* A commit has recorded every row of its parts.
LEMMA KeptEnds ==
  ASSUME TypeOK, KeptInv, NEW w \in Writers, Ends(w)
  PROVE  KeptInv'
<1>1. writer'[w].pc = "idle" /\ \A v \in Writers : v # w => writer'[v] = writer[v]
  BY EndStep DEF Idle
<1>2. facts \subseteq facts' /\ conflicts \subseteq conflicts'
  BY EndStep
<1>3. NothingLost'
  <2>1. CASE UNCHANGED <<facts, conflicts, done, late>>
    BY <2>1, LostNothingMore DEF KeptInv
  <2>2. ASSUME writer[w].pc = "commit",
               facts' = facts \cup writer[w].took,
               conflicts' = conflicts \cup writer[w].clash,
               done' = done \cup ({writer[w].snapshot}
                                    \X (writer[w].first..writer[w].last))
        PROVE  NothingLost'
    <3>1. ASSUME NEW sp \in done, NEW i \in DOMAIN Rows[sp[1]][sp[2]]
          PROVE  LET row == Rows[sp[1]][sp[2]][i]
                 IN \/ \E f \in facts' : f.key = row.key /\ f.value = row.value
                    \/ \E c \in conflicts' : c[1] = row.key /\ c[3] = row.value
      BY <1>2 DEF KeptInv, NothingLost
    <3>2. ASSUME NEW p \in writer[w].first..writer[w].last,
                 NEW i \in DOMAIN Rows[writer[w].snapshot][p]
          PROVE  LET row == Rows[writer[w].snapshot][p][i]
                 IN \/ \E f \in facts' : f.key = row.key /\ f.value = row.value
                    \/ \E c \in conflicts' : c[1] = row.key /\ c[3] = row.value
      <4>1. Covered(w, p)
        BY <2>2 DEF KeptInv
      <4>2. Recorded(w, Rows[writer[w].snapshot][p][i])
        BY <4>1 DEF Covered
      <4> QED
        BY <2>2, <4>2 DEF Recorded
    <3>3. ASSUME NEW sp \in done', NEW i \in DOMAIN Rows[sp[1]][sp[2]]
          PROVE  LET row == Rows[sp[1]][sp[2]][i]
                 IN \/ \E f \in facts' : f.key = row.key /\ f.value = row.value
                    \/ \E c \in conflicts' : c[1] = row.key /\ c[3] = row.value
      <4>1. CASE sp \in done
        BY <3>1, <4>1
      <4>2. CASE sp \in {writer[w].snapshot} \X (writer[w].first..writer[w].last)
        <5>1. sp[1] = writer[w].snapshot /\ sp[2] \in writer[w].first..writer[w].last
          BY <4>2
        <5> QED
          BY <3>2, <5>1
      <4> QED
        BY <2>2, <4>1, <4>2
    <3> QED
      BY <3>3 DEF NothingLost
  <2> QED
    BY <2>1, <2>2, EndStep
<1>4. \A v \in Writers : v # w =>
        /\ writer'[v].pc # "idle" =>
              /\ writer'[v].part <= writer'[v].last
              /\ \A p \in writer'[v].first..writer'[v].last :
                   (p < writer'[v].part \/ writer'[v].pc = "commit") =>
                     Covered(v, p)'
        /\ writer'[v].pc = "insert" =>
              \A i \in DOMAIN Doc(v)' :
                \/ Recorded(v, Doc(v)[i])'
                \/ \E k \in writer'[v].fresh : Doc(v)'[k] = Doc(v)'[i]
  BY <1>1, <1>2, KeptByOthers
<1> QED
  BY <1>1, <1>3, <1>4 DEF KeptInv

\* A step that leaves the facts, the conflicts and the transactions alone.
LEMMA KeptAlone ==
  ASSUME KeptInv, UNCHANGED <<facts, conflicts, writer, done>>
  PROVE  KeptInv'
BY DEF KeptInv, NothingLost, Covered, Recorded, Doc

\* Every step keeps the record of what has been written.
LEMMA KeptNext ==
  ASSUME IngestInv, KeptInv, [Next]_vars
  PROVE  KeptInv'
<1>1. TypeOK /\ FreshInv
  BY DEF IngestInv
<1>2. ASSUME UNCHANGED vars \/ NewDay
      PROVE  KeptInv'
  BY <1>2, KeptAlone DEF vars, NewDay, ingest
<1>3. ASSUME NEW w \in Writers, BeginOnline(w) \/ BeginBackfill(w)
      PROVE  KeptInv'
  BY <1>1, <1>3, KeptBegin
<1>4. ASSUME NEW w \in Writers, FlushFiling(w)
      PROVE  KeptInv'
  BY <1>4, KeptAlone DEF FlushFiling
<1>5. ASSUME NEW w \in Writers, LoadExisting(w)
      PROVE  KeptInv'
  BY <1>1, <1>5, KeptLoad
<1>6. ASSUME NEW w \in Writers, Insert(w)
      PROVE  KeptInv'
  BY <1>1, <1>6, KeptInsert
<1>7. ASSUME NEW w \in Writers, Ends(w)
      PROVE  KeptInv'
  BY <1>1, <1>7, KeptEnds
<1>8. ASSUME NEW key \in Keys, Decide(key)
      PROVE  KeptInv'
  BY <1>8, KeptAlone DEF Decide, CreateTechnical, CreateVeto, RevokeTechnical,
                         RevokeVeto, Review, Ruling, ingest
<1> QED
  BY <1>2, <1>3, <1>4, <1>5, <1>6, <1>7, <1>8 DEF Next, IngestNext, WriterStep, Ends

\* Every value of an ingested statement is a fact or on record as a conflict.
THEOREM NothingIsLost == Spec => []NothingLost
<1>1. Init => KeptInv
  <2> SUFFICES ASSUME Init
               PROVE  KeptInv
    OBVIOUS
  <2>1. done = {} /\ \A w \in Writers : writer[w].pc = "idle"
    BY DEF Init, Idle
  <2> QED
    BY <2>1 DEF KeptInv, NothingLost
<1>2. KeptInv => NothingLost
  BY DEF KeptInv
<1> QED
  BY <1>1, <1>2, KeptNext, IngestInvariant, PTL DEF Spec

-----------------------------------------------------------------------------
(* A past day keeps its answer                                             *)

\* Facts of the future are no answer, so today's answer is that of today.
LEMMA AnswerOfToday ==
  ASSUME IngestInv, NEW x
  PROVE  LatestRestated(x) = AsOf(x, day)
<1>1. \A c \in LoadFacts(facts, Exclusions, x, day) : Filed(c.key) <= day
  BY DEF LoadFacts, IngestInv, InTimeInv
<1>2. \A c \in Canonical(LoadFacts(facts, Exclusions, x, day)) : Filed(c.key) <= day
  BY <1>1 DEF Canonical
<1> DEFINE C == Canonical(LoadFacts(facts, Exclusions, x, day))
<1>3. C = {c \in C : Filed(c.key) <= day}
  <2> HIDE DEF C
  <2> QED
    BY <1>2 DEF C
<1> QED
  BY <1>3 DEF LatestRestated, AsOf, SelectAsOf

\* Nothing about the facts of that day has changed, on any of the days.
LEMMA Untouched ==
  ASSUME NoHindsight, UNCHANGED <<day, answered>>,
         late \subseteq late', ruled \subseteq ruled',
         \A d \in Days, x \in Fields :
           d < day /\ d \notin late' /\ ~RuledLater(d)' => AsOf(x, d)' = AsOf(x, d)
  PROVE  NoHindsight'
<1> SUFFICES ASSUME NEW d \in Days, d < day, d \notin late', ~RuledLater(d)',
                    NEW x \in Fields
             PROVE  AsOf(x, d)' = answered'[d][x]
  BY DEF NoHindsight
<1>1. ~RuledLater(d) /\ d \notin late
  BY DEF RuledLater
<1>2. AsOf(x, d) = answered[d][x]
  BY <1>1 DEF NoHindsight
<1> QED
  BY <1>2

\* The days left out of a decision see nothing of it.
Alike(days) ==
  \A d \in Days \ days : \A k \in Keys : Filed(k) <= d =>
    /\ review'[k] = review[k]
    /\ Excluded(Exclusions', k, d) <=> Excluded(Exclusions, k, d)

\* Each decision by hand names all the days it counts for.
LEMMA DecideAlike ==
  ASSUME TypeOK, NEW key \in Keys, Decide(key)
  PROVE  \E days : Ruling(key, days) /\ Alike(days)
<1> DEFINE Since == {d \in Days : Filed(key) <= d}
<1>1. /\ review \in [Keys -> {"none", "approved", "rejected"}]
      /\ veto \in [Keys -> 0..Never] /\ day \in Days
  BY DEF TypeOK
<1>2. CASE CreateTechnical(key)
  <2>1. Alike(Since)
    BY <1>2 DEF CreateTechnical, Excluded, Exclusions, Alike
  <2> QED
    BY <1>2, <2>1 DEF CreateTechnical
<1>3. CASE RevokeTechnical(key)
  <2>1. Alike(Since)
    BY <1>3 DEF RevokeTechnical, Excluded, Exclusions, Alike
  <2> QED
    BY <1>3, <2>1 DEF RevokeTechnical
<1>4. CASE CreateVeto(key)
  <2> DEFINE days == {d \in Days : veto[key] <= d \/ day <= d}
  <2>1. Alike(days)
    <3> SUFFICES ASSUME NEW d \in Days \ days, NEW k \in Keys
                 PROVE  /\ review'[k] = review[k]
                        /\ Excluded(Exclusions', k, d) <=> Excluded(Exclusions, k, d)
      BY DEF Alike
    <3>1. ~(veto[key] <= d) /\ ~(day <= d)
      OBVIOUS
    <3>2. veto'[k] <= d <=> veto[k] <= d
      BY <1>1, <1>4, <3>1 DEF CreateVeto
    <3> QED
      BY <1>4, <3>2 DEF CreateVeto, Excluded, Exclusions
  <2> QED
    BY <1>4, <2>1 DEF CreateVeto
<1>5. CASE RevokeVeto(key)
  <2> DEFINE days == {d \in Days : veto[key] <= d}
  <2>1. Alike(days)
    <3> SUFFICES ASSUME NEW d \in Days \ days, NEW k \in Keys
                 PROVE  /\ review'[k] = review[k]
                        /\ Excluded(Exclusions', k, d) <=> Excluded(Exclusions, k, d)
      BY DEF Alike
    <3>1. ~(Never <= d) /\ ~(veto[key] <= d)
      BY VersionsAssumption DEF Never, Days
    <3>2. veto'[k] <= d <=> veto[k] <= d
      BY <1>1, <1>5, <3>1 DEF RevokeVeto
    <3> QED
      BY <1>5, <3>2 DEF RevokeVeto, Excluded, Exclusions
  <2> QED
    BY <1>5, <2>1 DEF RevokeVeto
<1>6. ASSUME NEW decision, Review(key, decision)
      PROVE  \E days : Ruling(key, days) /\ Alike(days)
  <2>1. Alike(Since)
    BY <1>1, <1>6 DEF Review, Excluded, Exclusions, Alike
  <2> QED
    BY <1>6, <2>1 DEF Review
<1> QED
  BY <1>2, <1>3, <1>4, <1>5, <1>6 DEF Decide

\* What a step may do: facts only come, and decisions name their days.
LEMMA StepAlike ==
  ASSUME TypeOK, [Next]_vars
  PROVE  /\ facts \subseteq facts'
         /\ \E days : ruled' = ruled \cup (days \X {day}) /\ Alike(days)
<1>1. ASSUME UNCHANGED decided, facts \subseteq facts'
      PROVE  /\ facts \subseteq facts'
             /\ \E days : ruled' = ruled \cup (days \X {day}) /\ Alike(days)
  <2>1. Alike({}) /\ ruled' = ruled \cup ({} \X {day})
    BY <1>1 DEF decided, Alike, Excluded, Exclusions
  <2> QED
    BY <1>1, <2>1
<1>2. CASE UNCHANGED vars \/ NewDay
  BY <1>1, <1>2 DEF vars, ingest, NewDay
<1>3. ASSUME NEW w \in Writers,
             BeginOnline(w) \/ BeginBackfill(w) \/ FlushFiling(w)
               \/ LoadExisting(w) \/ Insert(w)
      PROVE  UNCHANGED decided /\ facts \subseteq facts'
  BY <1>3 DEF BeginOnline, BeginBackfill, Begin, FlushFiling, LoadExisting, Insert
<1>4. ASSUME NEW w \in Writers, Commit(w) \/ Fail(w) \/ Victim(w)
      PROVE  UNCHANGED decided /\ facts \subseteq facts'
  BY <1>4 DEF Commit, Fail, Victim, Abort, Over
<1>5. ASSUME NEW key \in Keys, Decide(key)
      PROVE  /\ facts \subseteq facts'
             /\ \E days : ruled' = ruled \cup (days \X {day}) /\ Alike(days)
  <2>1. PICK days : Ruling(key, days) /\ Alike(days)
    BY <1>5, DecideAlike
  <2> QED
    BY <2>1 DEF Ruling, ingest
<1> QED
  BY <1>1, <1>2, <1>3, <1>4, <1>5 DEF Next, IngestNext, WriterStep

\* A decision leaves the answers for all other days alone.
LEMMA DecideUntouched ==
  ASSUME IngestInv, NoHindsight, NEW key \in Keys, Decide(key)
  PROVE  NoHindsight'
<1>1. PICK days : Ruling(key, days) /\ Alike(days)
  BY DecideAlike DEF IngestInv
<1>2. UNCHANGED <<day, answered, facts, late>> /\ ruled' = ruled \cup (days \X {day})
  BY <1>1 DEF Ruling, ingest
<1>3. day \in Days /\ \A f \in facts : f.key \in Keys
  BY DEF IngestInv, TypeOK, FactRecord
<1>4. ASSUME NEW d \in Days, NEW x \in Fields, d < day, ~RuledLater(d)'
      PROVE  AsOf(x, d)' = AsOf(x, d)
  <2>1. d \notin days
    <3>1. <<d, day>> \notin ruled'
      BY <1>3, <1>4 DEF RuledLater
    <3> QED
      BY <1>2, <3>1
  <2>2. \A f \in facts : Filed(f.key) <= d =>
          /\ review'[f.key] = review[f.key]
          /\ Excluded(Exclusions', f.key, d) <=> Excluded(Exclusions, f.key, d)
    BY <1>1, <1>3, <2>1 DEF Alike
  <2> QED
    BY <1>2, <2>2, SameAnswer
<1> QED
  BY <1>2, <1>4, Untouched

\* The night puts the answers of the day on record.
LEMMA NightUntouched ==
  ASSUME IngestInv, NoHindsight, NewDay
  PROVE  NoHindsight'
<1> SUFFICES ASSUME NEW d \in Days, d < day', d \notin late, ~RuledLater(d),
                    NEW x \in Fields
             PROVE  AsOf(x, d)' = answered'[d][x]
  BY DEF NoHindsight, RuledLater, NewDay, ingest, decided
<1>1. AsOf(x, d)' = AsOf(x, d)
  BY SameAnswer DEF NewDay, ingest, decided, Excluded, Exclusions
<1>2. day \in Days /\ DOMAIN answered = Days
  BY DEF IngestInv, TypeOK
<1>3. CASE d = day
  <2>1. answered'[d][x] = LatestRestated(x)
    BY <1>2, <1>3 DEF NewDay
  <2> QED
    BY <1>1, <1>3, <2>1, AnswerOfToday
<1>4. CASE d # day
  <2>1. d < day
    BY <1>2, <1>4, ConstantFacts DEF NewDay
  <2>2. answered'[d] = answered[d]
    BY <1>2, <1>4 DEF NewDay
  <2> QED
    BY <1>1, <2>1, <2>2 DEF NoHindsight
<1> QED
  BY <1>3, <1>4

\* A commit changes the answers of the days it is late for only.
LEMMA CommitUntouched ==
  ASSUME IngestInv, NoHindsight, NEW w \in Writers, Commit(w)
  PROVE  NoHindsight'
<1>1. /\ UNCHANGED <<day, answered, decided>>
      /\ facts' = facts \cup writer[w].took
      /\ late' = late \cup
           {d \in Days : d < day /\ \E f \in writer[w].took : Filed(f.key) <= d}
  BY DEF Commit, Over
<1>2. ASSUME NEW d \in Days, NEW x \in Fields, d < day, d \notin late'
      PROVE  AsOf(x, d)' = AsOf(x, d)
  <2>1. \A f \in writer[w].took : ~(Filed(f.key) <= d)
    BY <1>1, <1>2
  <2>2. {f \in facts' : Filed(f.key) <= d} = {f \in facts : Filed(f.key) <= d}
    BY <1>1, <2>1
  <2> QED
    BY <1>1, <2>2, SameAnswer DEF decided, Excluded, Exclusions
<1> QED
  BY <1>1, <1>2, Untouched DEF decided

\* A step that leaves facts, decisions and answers alone.
LEMMA HindsightAlone ==
  ASSUME NoHindsight, UNCHANGED <<day, answered, facts, late, decided>>
  PROVE  NoHindsight'
<1>1. ASSUME NEW d \in Days, NEW x \in Fields
      PROVE  AsOf(x, d)' = AsOf(x, d)
  BY SameAnswer DEF decided, Excluded, Exclusions
<1> QED
  BY <1>1, Untouched DEF decided

\* Asked for a past day, the selection says what it said on that day.
THEOREM NoHindsightHolds == Spec => []NoHindsight
<1>1. Init => NoHindsight
  BY ConstantFacts DEF Init, NoHindsight
<1>2. IngestInv /\ NoHindsight /\ [Next]_vars => NoHindsight'
  <2> SUFFICES ASSUME IngestInv, NoHindsight, [Next]_vars
               PROVE  NoHindsight'
    OBVIOUS
  <2>1. CASE UNCHANGED vars
    BY <2>1, HindsightAlone DEF vars, ingest
  <2>2. CASE NewDay
    BY <2>2, NightUntouched
  <2>3. ASSUME NEW w \in Writers,
               BeginOnline(w) \/ BeginBackfill(w) \/ FlushFiling(w)
                 \/ LoadExisting(w) \/ Insert(w) \/ Fail(w) \/ Victim(w)
        PROVE  NoHindsight'
    <3>1. UNCHANGED <<day, answered, facts, late, decided>>
      BY <2>3 DEF BeginOnline, BeginBackfill, Begin, FlushFiling, LoadExisting,
                  Insert, Fail, Victim, Abort, Over
    <3> QED
      BY <3>1, HindsightAlone
  <2>4. ASSUME NEW w \in Writers, Commit(w)
        PROVE  NoHindsight'
    BY <2>4, CommitUntouched
  <2>5. ASSUME NEW key \in Keys, Decide(key)
        PROVE  NoHindsight'
    BY <2>5, DecideUntouched
  <2> QED
    BY <2>1, <2>2, <2>3, <2>4, <2>5 DEF Next, IngestNext, WriterStep
<1> QED
  BY <1>1, <1>2, IngestInvariant, PTL DEF Spec

-----------------------------------------------------------------------------
(* The version layer goes on as it does alone                              *)

\* A step of a back test leaves the version layer alone.
LEMMA PitStep == [PitNext]_pitVars => [Next]_vars
BY DEF PitNext, Next, pitVars, LoadRows, LoadExclusions, LoadStreaming, GetUniverse, Exit

\* The invariant of the ingest holds beside back tests.
LEMMA PitIngest == PitSpec => []IngestInv
<1>1. PitInit => Init
  BY DEF PitInit
<1> QED
  BY <1>1, PitStep, IngestInvInit, IngestInvNext, PTL DEF PitSpec

\* So a past day keeps its answer beside back tests, too.
THEOREM PitNoHindsight == PitSpec => []NoHindsight
<1>1. PitSpec => Spec
  <2>1. PitInit => Init
    BY DEF PitInit
  <2> QED
    BY <2>1, PitStep, PTL DEF PitSpec, Spec
<1> QED
  BY <1>1, NoHindsightHolds, PTL

-----------------------------------------------------------------------------
(* Watermarks                                                              *)

\* The facts there are can be counted.
Countable ==
  /\ IsFiniteSet(facts)
  /\ \A w \in Writers : IsFiniteSet(writer[w].took)

\* Only a finite number of facts is added.
LEMMA CountableNext ==
  ASSUME IngestInv, Countable, [Next]_vars
  PROVE  Countable'
<1> USE DEF Countable
<1>1. TypeOK /\ FreshInv
  BY DEF IngestInv
<1>2. CASE UNCHANGED vars \/ NewDay
  BY <1>2 DEF vars, ingest, NewDay
<1>3. ASSUME NEW w \in Writers, BeginOnline(w) \/ BeginBackfill(w)
      PROVE  Countable'
  <2>1. UNCHANGED facts /\ writer'[w].took = {}
          /\ \A v \in Writers : v # w => writer'[v] = writer[v]
    BY <1>1, <1>3 DEF BeginOnline, BeginBackfill, Begin, TypeOK
  <2> QED
    BY <2>1, FS_EmptySet
<1>4. ASSUME NEW w \in Writers, FlushFiling(w)
      PROVE  Countable'
  BY <1>4 DEF FlushFiling
<1>5. ASSUME NEW w \in Writers, LoadExisting(w)
      PROVE  Countable'
  <2>1. writer'[w].took = writer[w].took
    <3>1. writer[w] \in Transactions
      BY <1>1 DEF TypeOK
    <3>2. writer'[w] = [writer[w] EXCEPT !.pc = "insert",
              !.fresh = writer'[w].fresh, !.clash = writer'[w].clash]
      BY <1>1, <1>5, LoadFields
    <3> QED
      BY <3>1, <3>2 DEF Transactions
  <2>2. UNCHANGED facts /\ \A v \in Writers : v # w => writer'[v] = writer[v]
    BY <1>1, <1>5, LoadFields DEF LoadExisting
  <2> QED
    BY <2>1, <2>2
<1>6. ASSUME NEW w \in Writers, Insert(w)
      PROVE  Countable'
  <2>1. IsFiniteSet(Added(w))
    <3> DEFINE row == [i \in writer[w].fresh |->
                 [key |-> Doc(w)[i].key,
                  value |-> Doc(w)[i].value,
                  id |-> nextId + Place(writer[w].fresh, i) - 1,
                  snapshot |-> writer[w].snapshot,
                  observed |-> Doc(w)[i].value]]
    <3>1. row \in Surjection(writer[w].fresh, Added(w))
      BY DEF Added, Surjection
    <3>2. IsFiniteSet(writer[w].fresh)
      BY <1>1, <1>6, InsertStep
    <3> HIDE DEF row
    <3> QED
      BY <3>1, <3>2, FS_Surjection
  <2>2. writer'[w].took = writer[w].took \cup Added(w)
          /\ \A v \in Writers : v # w => writer'[v] = writer[v]
    BY <1>1, <1>6, InsertFields
  <2>3. UNCHANGED facts
    BY <1>1, <1>6, InsertStep
  <2> QED
    BY <2>1, <2>2, <2>3, FS_Union
<1>7. ASSUME NEW w \in Writers, Ends(w)
      PROVE  Countable'
  <2>1. /\ writer'[w].took = {}
        /\ \A v \in Writers : v # w => writer'[v] = writer[v]
        /\ facts' = facts \/ facts' = facts \cup writer[w].took
    BY <1>1, <1>7, EndStep DEF Idle
  <2>2. IsFiniteSet(facts \cup writer[w].took)
    BY FS_Union
  <2>3. IsFiniteSet({})
    BY FS_EmptySet
  <2>4. IsFiniteSet(facts')
    BY <2>1, <2>2
  <2>5. ASSUME NEW v \in Writers
        PROVE  IsFiniteSet(writer'[v].took)
    BY <2>1, <2>3
  <2> QED
    BY <2>4, <2>5
<1>8. ASSUME NEW key \in Keys, Decide(key)
      PROVE  Countable'
  BY <1>8 DEF Decide, CreateTechnical, CreateVeto, RevokeTechnical,
              RevokeVeto, Review, Ruling, ingest
<1> QED
  BY <1>2, <1>3, <1>4, <1>5, <1>6, <1>7, <1>8 DEF Next, IngestNext, WriterStep, Ends

\* Of the sets of facts there have been, only the one of now has its number.
LEMMA SameMark ==
  ASSUME NEW S, IsFiniteSet(S), NEW H \in SUBSET S, Watermark(H) = Watermark(S)
  PROVE  H = S
<1>1. Cardinality(H) = Cardinality(S)
  BY DEF Watermark
<1> QED
  BY <1>1, FS_Subset

-----------------------------------------------------------------------------
(* The cache                                                               *)

\* A watermark of facts that have been there.
Seen(mark) == \E H \in SUBSET facts : mark = Watermark(H)
Unruled(d) == ~\E on \in Days : <<d, on>> \in ruled

\* What a preloader holds.
Loaders ==
  [pc : {"idle", "rows", "loaded"}, stream : BOOLEAN,
   mark : {<<0, 0>>} \cup {Watermark(H) : H \in SUBSET FactRecord},
   rows : SUBSET FactRecord,
   out : [technical : SUBSET Keys, veto : [Keys -> 0..Never]]]

\* Its watermark is of facts that have been there, and of its own rows if it
\* has any; its exclusions are out of date by decisions only.
TesterInv(t) ==
  tester[t].pc # "idle" =>
    /\ Seen(tester[t].mark)
    /\ ~tester[t].stream =>
         /\ tester[t].rows \subseteq facts
         /\ tester[t].mark = Watermark(tester[t].rows)
    /\ tester[t].pc = "loaded" /\ ~tester[t].stream =>
         \A d \in Days : Unruled(d) => \A k \in Keys : Filed(k) <= d =>
           (Excluded(tester[t].out, k, d) <=> Excluded(Exclusions, k, d))

\* The inductive invariant of the cache.
CacheInv ==
  /\ tester \in [Testers -> Loaders]
  /\ \A t \in Testers : TesterInv(t)
  /\ \A e \in DOMAIN cache : e[1] \in Days /\ Seen(e[2])
  /\ CacheFresh

\* From the same rows and exclusions that count the same, the same answer.
LEMMA SameSelection ==
  ASSUME NEW out, NEW d, NEW x,
         \A f \in facts : Filed(f.key) <= d =>
           (Excluded(out, f.key, d) <=> Excluded(Exclusions, f.key, d))
  PROVE  SelectAsOf(facts, out, x, d) = AsOf(x, d)
<1>1. {c \in LoadFacts(facts, out, x, d) : Filed(c.key) <= d}
        = {c \in LoadFacts(facts, Exclusions, x, d) : Filed(c.key) <= d}
  <2>1. {g \in facts : Filed(g.key) <= d /\ FieldOf[g.key] = x
                         /\ ~Excluded(out, g.key, d)}
          = {g \in facts : Filed(g.key) <= d /\ FieldOf[g.key] = x
                             /\ ~Excluded(Exclusions, g.key, d)}
    OBVIOUS
  <2> QED
    BY <2>1, CandidatesOfDay
<1> QED
  BY <1>1, SelectionOfDay DEF AsOf

\* The cache while the version layer makes a step.
LEMMA LayerStep ==
  ASSUME IngestInv, Countable, CacheInv, [Next]_vars, UNCHANGED pit
  PROVE  CacheInv'
<1>1. TypeOK /\ Countable'
  BY CountableNext DEF IngestInv
<1>2. /\ facts \subseteq facts'
      /\ \E days : ruled' = ruled \cup (days \X {day}) /\ Alike(days)
  BY <1>1, StepAlike
<1>3. PICK days : ruled' = ruled \cup (days \X {day}) /\ Alike(days)
  BY <1>2
<1>4. day \in Days /\ \A f \in facts : f.key \in Keys
  BY <1>1 DEF TypeOK, FactRecord
<1>5. \A d \in Days : Unruled(d)' => Unruled(d) /\ d \notin days
  BY <1>3, <1>4 DEF Unruled
<1>6. \A m : Seen(m) => Seen(m)'
  BY <1>2 DEF Seen
<1>7. tester' = tester /\ cache' = cache
  BY DEF pit
<1>8. ASSUME NEW t \in Testers
      PROVE  TesterInv(t)'
  <2>1. TesterInv(t)
    BY DEF CacheInv
  <2>2. tester[t].pc # "idle" =>
          /\ Seen(tester[t].mark)'
          /\ ~tester[t].stream =>
               /\ tester[t].rows \subseteq facts'
               /\ tester[t].mark = Watermark(tester[t].rows)
    <3>1. \A rows : rows \subseteq facts => rows \subseteq facts'
      BY <1>2
    <3>2. tester[t].pc # "idle" => Seen(tester[t].mark)'
      <4>1. tester[t].pc # "idle" => Seen(tester[t].mark)
        BY <2>1 DEF TesterInv
      <4>2. Seen(tester[t].mark) => \E H \in SUBSET facts' : tester[t].mark = Watermark(H)
        BY <1>2 DEF Seen
      <4> QED
        BY <1>7, <4>1, <4>2 DEF Seen
    <3>3. tester[t].pc # "idle" /\ ~tester[t].stream =>
            /\ tester[t].rows \subseteq facts
            /\ tester[t].mark = Watermark(tester[t].rows)
      BY <2>1 DEF TesterInv
    <3> QED
      BY <3>1, <3>2, <3>3
  <2>3. ASSUME tester[t].pc = "loaded", ~tester[t].stream,
               NEW d \in Days, Unruled(d)', NEW k \in Keys, Filed(k) <= d
        PROVE  Excluded(tester[t].out, k, d) <=> Excluded(Exclusions', k, d)
    <3>1. Excluded(tester[t].out, k, d) <=> Excluded(Exclusions, k, d)
      BY <1>5, <2>1, <2>3 DEF TesterInv
    <3>2. Excluded(Exclusions', k, d) <=> Excluded(Exclusions, k, d)
      BY <1>3, <1>5, <2>3 DEF Alike
    <3> QED
      BY <3>1, <3>2
  <2> QED
    BY <1>7, <2>2, <2>3 DEF TesterInv, Excluded
<1>9. ASSUME NEW e \in DOMAIN cache, e[2] = Watermark(facts'), Unruled(e[1])',
             NEW x \in Fields
      PROVE  cache[e][x] = AsOf(x, e[1])'
  <2>1. PICK H \in SUBSET facts : e[2] = Watermark(H)
    BY DEF CacheInv, Seen
  <2>2. H = facts'
    <3>1. IsFiniteSet(facts') /\ H \in SUBSET facts'
      BY <1>1, <1>2, <2>1 DEF Countable
    <3>2. Watermark(H) = Watermark(facts')
      BY <1>9, <2>1
    <3> QED
      BY <3>1, <3>2, SameMark
  <2>3. facts' = facts
    BY <1>2, <2>1, <2>2
  <2>4. e[1] \in Days
    BY DEF CacheInv
  <2>5. Unruled(e[1]) /\ e[1] \notin days
    BY <1>5, <1>9, <2>4
  <2>6. cache[e][x] = AsOf(x, e[1])
    BY <1>9, <2>3, <2>5 DEF CacheInv, CacheFresh, Current, Unruled
  <2>7. \A d \in Days \ days : AsOf(x, d)' = AsOf(x, d)
    <3> SUFFICES ASSUME NEW d \in Days \ days
                 PROVE  AsOf(x, d)' = AsOf(x, d)
      OBVIOUS
    <3>1. \A f \in facts : Filed(f.key) <= d =>
            /\ review'[f.key] = review[f.key]
            /\ Excluded(Exclusions', f.key, d) <=> Excluded(Exclusions, f.key, d)
      BY <1>3, <1>4 DEF Alike
    <3> QED
      BY <2>3, <3>1, SameAnswer
  <2> QED
    BY <1>7, <2>4, <2>5, <2>6, <2>7
<1>10. CacheFresh'
  BY <1>7, <1>9 DEF CacheFresh, Current, Unruled
<1> QED
  BY <1>6, <1>7, <1>8, <1>10 DEF CacheInv

\* A step of a preloader that leaves the cache alone.
LEMMA LoadStep ==
  ASSUME TypeOK, CacheInv, NEW t \in Testers,
         LoadRows(t) \/ LoadExclusions(t) \/ LoadStreaming(t) \/ Exit(t)
  PROVE  CacheInv'
<1>1. UNCHANGED <<vars, cache>>
  BY DEF LoadRows, LoadExclusions, LoadStreaming, Exit
<1>2. UNCHANGED <<facts, technical, veto, ruled>>
  BY <1>1 DEF vars, ingest, decided
<1>3. \A m : Seen(m)' = Seen(m)
  BY <1>2 DEF Seen
<1>4. CacheFresh'
  BY <1>1, <1>2 DEF CacheInv, CacheFresh, Current, vars, ingest, decided, AsOf,
       SelectAsOf, LoadFacts, Excluded, Exclusions
<1>5. tester[t] \in Loaders /\ Unloaded \in Loaders
      /\ Exclusions \in [technical : SUBSET Keys, veto : [Keys -> 0..Never]]
      /\ Watermark(facts) \in {Watermark(H) : H \in SUBSET FactRecord}
      /\ facts \in SUBSET FactRecord
  <2>1. tester[t] \in Loaders /\ facts \in SUBSET FactRecord
    BY DEF CacheInv, TypeOK
  <2>2. NoOut \in [technical : SUBSET Keys, veto : [Keys -> 0..Never]]
    BY ConstantFacts DEF NoOut
  <2>3. Unloaded \in Loaders
    BY <2>2 DEF Unloaded, Loaders
  <2>4. Exclusions \in [technical : SUBSET Keys, veto : [Keys -> 0..Never]]
    BY DEF Exclusions, TypeOK
  <2> QED
    BY <2>1, <2>3, <2>4
<1>6. Seen(Watermark(facts))
  BY DEF Seen
<1>7. /\ tester'[t] \in Loaders
      /\ tester' = [tester EXCEPT ![t] = tester'[t]]
      /\ TesterInv(t)'
  <2>1. TesterInv(t)
    BY DEF CacheInv
  <2>2. CASE LoadRows(t)
    <3>1. tester' = [tester EXCEPT ![t] =
            [Unloaded EXCEPT !.pc = "rows", !.mark = Watermark(facts),
                             !.rows = facts]]
      BY <2>2 DEF LoadRows
    <3>2. tester'[t] = [Unloaded EXCEPT !.pc = "rows", !.mark = Watermark(facts),
                                        !.rows = facts]
      BY <3>1 DEF CacheInv
    <3>3. tester'[t] \in Loaders
      BY <1>5, <3>2 DEF Loaders
    <3>4. /\ tester'[t].pc = "rows" /\ tester'[t].mark = Watermark(facts)
          /\ tester'[t].rows = facts
      BY <3>2 DEF Unloaded
    <3> QED
      BY <1>2, <1>3, <1>6, <3>1, <3>2, <3>3, <3>4 DEF TesterInv
  <2>3. CASE LoadExclusions(t)
    <3>1. /\ tester' = [tester EXCEPT ![t] = tester'[t]]
          /\ tester'[t] = [tester[t] EXCEPT !.pc = "loaded", !.out = Exclusions]
          /\ tester[t].pc = "rows"
      BY <2>3 DEF LoadExclusions, CacheInv
    <3>2. tester'[t] \in Loaders
      BY <1>5, <3>1 DEF Loaders
    <3>3. /\ tester'[t].pc = "loaded" /\ tester'[t].mark = tester[t].mark
          /\ tester'[t].rows = tester[t].rows
          /\ tester'[t].stream = tester[t].stream
          /\ tester'[t].out = Exclusions
      BY <1>5, <3>1 DEF Loaders
    <3>4. Exclusions' = Exclusions
      BY <1>2 DEF Exclusions
    <3> QED
      BY <1>2, <1>3, <2>1, <3>1, <3>2, <3>3, <3>4 DEF TesterInv
  <2>4. CASE LoadStreaming(t)
    <3>1. tester' = [tester EXCEPT ![t] =
            [Unloaded EXCEPT !.pc = "loaded", !.stream = TRUE,
                             !.mark = Watermark(facts)]]
      BY <2>4 DEF LoadStreaming
    <3>2. tester'[t] = [Unloaded EXCEPT !.pc = "loaded", !.stream = TRUE,
                                        !.mark = Watermark(facts)]
      BY <3>1 DEF CacheInv
    <3>3. tester'[t] \in Loaders
      BY <1>5, <3>2 DEF Loaders
    <3>4. tester'[t].stream = TRUE /\ tester'[t].mark = Watermark(facts)
      BY <3>2 DEF Unloaded
    <3> QED
      BY <1>2, <1>3, <1>6, <3>1, <3>2, <3>3, <3>4 DEF TesterInv
  <2>5. CASE Exit(t)
    <3>1. tester' = [tester EXCEPT ![t] = Unloaded] /\ tester'[t] = Unloaded
      BY <2>5 DEF Exit, CacheInv
    <3>2. tester'[t].pc = "idle"
      BY <3>1 DEF Unloaded
    <3> QED
      BY <1>5, <3>1, <3>2 DEF TesterInv
  <2> QED
    BY <2>2, <2>3, <2>4, <2>5
<1>8. ASSUME NEW u \in Testers, u # t
      PROVE  TesterInv(u)'
  <2>1. tester'[u] = tester[u]
    BY <1>7, <1>8 DEF CacheInv
  <2>2. Exclusions' = Exclusions
    BY <1>2 DEF Exclusions
  <2> QED
    BY <1>2, <1>3, <2>1, <2>2 DEF CacheInv, TesterInv, Unruled
<1>9. tester' \in [Testers -> Loaders]
  BY <1>7 DEF CacheInv
<1> QED
  BY <1>1, <1>3, <1>4, <1>7, <1>8, <1>9 DEF CacheInv

\* An answer that is put on disk is right under the watermark it gets.
LEMMA AnswerStep ==
  ASSUME TypeOK, Countable, CacheInv, NEW t \in Testers, NEW d \in Days,
         GetUniverse(t, d)
  PROVE  CacheInv'
<1> DEFINE entry == <<d, tester[t].mark>>
           answer == [x \in Fields |->
             IF tester[t].stream
               THEN AsOf(x, d)
               ELSE SelectAsOf(tester[t].rows, tester[t].out, x, d)]
<1>1. UNCHANGED <<vars, tester>>
  BY DEF GetUniverse
<1>2. UNCHANGED <<facts, technical, veto, ruled, review>>
  BY <1>1 DEF vars, ingest, decided
<1>3. \A m : Seen(m)' = Seen(m)
  BY <1>2 DEF Seen
<1>4. tester[t].pc = "loaded" /\ TesterInv(t)
  BY DEF GetUniverse, CacheInv
<1>5. DOMAIN cache' = DOMAIN cache \cup {entry} /\ cache'[entry] = answer
      /\ \A e \in DOMAIN cache : cache'[e] = cache[e]
  <2>1. entry \notin DOMAIN cache
        /\ cache' = [e \in DOMAIN cache \cup {entry} |->
                       IF e = entry THEN answer ELSE cache[e]]
    BY DEF GetUniverse
  <2> HIDE DEF entry, answer
  <2> QED
    BY <2>1
<1>6. \A x, e : AsOf(x, e)' = AsOf(x, e)
  BY <1>2 DEF AsOf, SelectAsOf, LoadFacts, Excluded, Exclusions
<1>7. ASSUME entry[2] = Watermark(facts), Unruled(d), NEW x \in Fields
      PROVE  answer[x] = AsOf(x, d)
  <2>1. CASE tester[t].stream
    BY <2>1
  <2>2. CASE ~tester[t].stream
    <3>1. tester[t].rows \in SUBSET facts
          /\ Watermark(tester[t].rows) = Watermark(facts)
      BY <1>4, <1>7, <2>2 DEF TesterInv
    <3>2. tester[t].rows = facts
      BY <3>1, SameMark DEF Countable
    <3>3. \A f \in facts : f.key \in Keys
      BY DEF TypeOK, FactRecord
    <3>4. \A f \in facts : Filed(f.key) <= d =>
            (Excluded(tester[t].out, f.key, d) <=> Excluded(Exclusions, f.key, d))
      BY <1>4, <1>7, <2>2, <3>3 DEF TesterInv
    <3> QED
      BY <2>2, <3>2, <3>4, SameSelection
  <2> QED
    BY <2>1, <2>2
<1>8. CacheFresh'
  <2> SUFFICES ASSUME NEW e \in DOMAIN cache', e[2] = Watermark(facts),
                      Unruled(e[1]), NEW x \in Fields
               PROVE  cache'[e][x] = AsOf(x, e[1])
    BY <1>2, <1>6 DEF CacheFresh, Current, Unruled
  <2>1. CASE e \in DOMAIN cache
    BY <1>5, <2>1 DEF CacheInv, CacheFresh, Current, Unruled
  <2>2. CASE e = entry
    BY <1>5, <1>7, <2>2
  <2> QED
    BY <1>5, <2>1, <2>2
<1>9. \A e \in DOMAIN cache' : e[1] \in Days /\ Seen(e[2])'
  <2>1. Seen(tester[t].mark)
    BY <1>4 DEF TesterInv
  <2> QED
    BY <1>3, <1>5, <2>1 DEF CacheInv
<1>10. \A u \in Testers : TesterInv(u)'
  <2>1. tester' = tester /\ Exclusions' = Exclusions
    BY <1>1, <1>2 DEF Exclusions
  <2> QED
    BY <1>2, <1>3, <2>1 DEF CacheInv, TesterInv, Unruled
<1> QED
  BY <1>1, <1>8, <1>9, <1>10 DEF CacheInv

\* An answer that would be taken from disk is the one the selection gives
\* now, whatever is ingested meanwhile and in whatever order it is committed.
THEOREM CacheStaysFresh == PitSpec => []CacheFresh
<1>1. PitInit => Countable /\ CacheInv
  <2> SUFFICES ASSUME PitInit
               PROVE  Countable /\ CacheInv
    OBVIOUS
  <2>1. Unloaded \in Loaders /\ Unloaded.pc = "idle"
    BY ConstantFacts DEF Unloaded, Loaders, NoOut
  <2>2. Countable
    BY FS_EmptySet DEF PitInit, Init, Countable, Idle
  <2>3. DOMAIN cache = {}
    BY DEF PitInit
  <2> HIDE DEF Unloaded
  <2>4. tester \in [Testers -> Loaders] /\ \A t \in Testers : TesterInv(t)
    BY <2>1 DEF PitInit, TesterInv
  <2> QED
    BY <2>2, <2>3, <2>4 DEF CacheInv, CacheFresh, Current
<1>2. IngestInv /\ Countable /\ CacheInv /\ [PitNext]_pitVars
        => Countable' /\ CacheInv'
  <2> SUFFICES ASSUME IngestInv, Countable, CacheInv, [PitNext]_pitVars
               PROVE  Countable' /\ CacheInv'
    OBVIOUS
  <2>1. Countable'
    BY PitStep, CountableNext
  <2>2. ASSUME [Next]_vars, UNCHANGED pit
        PROVE  CacheInv'
    BY <2>2, LayerStep
  <2>5. CASE UNCHANGED pitVars
    <3>1. [Next]_vars /\ UNCHANGED pit
      BY <2>5 DEF pitVars
    <3> QED
      BY <2>1, <2>2, <3>1
  <2>6. CASE Next /\ UNCHANGED pit
    BY <2>1, <2>2, <2>6
  <2>3. ASSUME NEW t \in Testers,
               LoadRows(t) \/ LoadExclusions(t) \/ LoadStreaming(t) \/ Exit(t)
        PROVE  CacheInv'
    BY <2>3, LoadStep DEF IngestInv
  <2>4. ASSUME NEW t \in Testers, NEW d \in Days, GetUniverse(t, d)
        PROVE  CacheInv'
    BY <2>4, AnswerStep DEF IngestInv
  <2> QED
    BY <2>1, <2>3, <2>4, <2>5, <2>6 DEF PitNext, Next
<1>3. CacheInv => CacheFresh
  BY DEF CacheInv
<1> QED
  BY <1>1, <1>2, <1>3, PitIngest, PTL DEF PitSpec
=============================================================================
