---------------------------- MODULE FactVersions ----------------------------
(***************************************************************************)
(* The immutable version layer of the US financials and the selection from *)
(* it: core/us_financial_versioning.py (write_facts, under the transaction *)
(* of fetchers/us_financial.py and of the backfill),                       *)
(* core/us_financial_exclusion.py and core/selectors/us_financial.py.      *)
(*                                                                         *)
(* A snapshot is one stock's company-facts document; a part of it is one   *)
(* statement, a sequence of rows [key, value].  A key stands for the       *)
(* unique key of a fact (filing, tag, context, field), and the values of   *)
(* one field compete to be its answer.  Filings are numbered in the order  *)
(* of filing date and accession.                                           *)
(***************************************************************************)
EXTENDS Naturals, FiniteSets, Sequences

CONSTANTS
  Writers,        \* processes that ingest
  Keys, Fields, Tags,
  FilingOf, TagOf, FieldOf,   \* of each key
  NumFilings,
  FiledOn,        \* the day each filing was filed
  Annual,         \* the filings of an annual form
  Rank,           \* the canonical priority of each tag, NoRank where none
  NoRank,
  Migrating,      \* the fields with a preferred tag migration
  Summed,         \* the fields whose largest value in a filing is the total
  NumSnapshots, Parts,
  ArrivesOn,      \* the day each snapshot is fetched first
  Rows,           \* Rows[s][p], the rows of part p of snapshot s
  LastDay,        \* bound: days
  MaxRulings,     \* bound: decisions taken by hand
  MaxFaults       \* bound: transactions that fail

Filings == 1..NumFilings
Snapshots == 1..NumSnapshots
Days == 0..LastDay
Never == LastDay + 1
Filed(key) == FiledOn[FilingOf[key]]

ASSUME VersionsAssumption ==
  /\ NumFilings \in Nat /\ NumSnapshots \in Nat /\ LastDay \in Nat
  /\ Parts \in Nat \ {0} /\ NoRank \in Nat
  /\ MaxRulings \in Nat /\ MaxFaults \in Nat
  /\ FilingOf \in [Keys -> Filings]
  /\ TagOf \in [Keys -> Tags]
  /\ FieldOf \in [Keys -> Fields]
  /\ FiledOn \in [Filings -> Days]
  /\ \A f, g \in Filings : f <= g => FiledOn[f] <= FiledOn[g]
  /\ Annual \subseteq Filings
  /\ Rank \in [Tags -> 1..NoRank]
  /\ Migrating \subseteq Fields /\ Summed \subseteq Fields
  /\ ArrivesOn \in [Snapshots -> Days]
  /\ Rows \in [Snapshots -> [1..Parts -> Seq([key : Keys, value : Nat])]]
  \* a document lists what has been filed
  /\ \A s \in Snapshots, p \in 1..Parts : \A i \in DOMAIN Rows[s][p] :
       Filed(Rows[s][p][i].key) <= ArrivesOn[s]
  /\ "none" \notin Keys

VARIABLES
  day,
  facts,      \* committed rows of us_financial_fact_version with their source
  conflicts,  \* rows <<key, existing value, new value>>
  nextId,     \* the sequence of fact_version_id
  writer,     \* the transaction of each writer
  held,       \* us_filing rows each transaction has locked
  review,     \* us_financial_restatement_review
  technical,  \* facts with an active PARSER_TECHNICAL_ERROR
  veto,       \* effective_from of the active BUSINESS_VETO, or Never
  rulings, faults,
  done,       \* history: parts of snapshots whose ingest has been committed
  answered,   \* history: what latest-restated said at the end of each day
  late,       \* history: days an ingest of older filings has changed since
  ruled       \* history: pairs <<d, on>>, a decision on day on that counts as of d

ingest == <<facts, conflicts, nextId, writer, held, done, late, faults>>
decided == <<review, technical, veto, rulings, ruled>>
vars == <<day, answered, ingest, decided>>

-----------------------------------------------------------------------------
(* Selection                                                               *)

\* One context, one filing: tags are compared by canonical priority, the
\* values of a summed field by size.
Siblings(c, C) == {b \in C : FilingOf[b.key] = FilingOf[c.key]}
Largest(C) == {b \in C : \A e \in C : e.value <= b.value}
Outranks(b, c) == Rank[TagOf[b.key]] < Rank[TagOf[c.key]]
Canonical(C) ==
  {c \in C :
     IF FieldOf[c.key] \in Summed /\ Cardinality(Largest(Siblings(c, C))) = 1
       THEN c \in Largest(Siblings(c, C))
       ELSE \A b \in Siblings(c, C) : ~Outranks(b, c)}

Before(b, c) ==
  \/ FilingOf[b.key] < FilingOf[c.key]
  \/ FilingOf[b.key] = FilingOf[c.key] /\ b.id < c.id
LatestOf(C) == CHOOSE c \in C : \A b \in C \ {c} : Before(b, c)

\* A more authoritative tag of the operating cash flow.
IsPreferredTagMigration(approved, later) ==
  /\ FieldOf[later.key] \in Migrating
  /\ Rank[TagOf[approved.key]] < NoRank
  /\ Outranks(later, approved)

\* What one more version does to the version trusted so far.
Judge(trusted, c) ==
  LET migrates == IsPreferredTagMigration(trusted.fact, c)
      tag == TagOf[c.key]
  IN CASE c.value = trusted.fact.value ->
            IF migrates THEN [trusted EXCEPT !.tag = tag] ELSE trusted
       [] c.value # trusted.fact.value /\ c.decision = "rejected" -> trusted
       [] c.value # trusted.fact.value /\ c.decision = "approved" ->
            [trusted EXCEPT !.fact = c]
       [] c.value # trusted.fact.value /\ c.decision = "none" ->
            IF FilingOf[c.key] \in Annual /\ (tag = trusted.tag \/ migrates)
              THEN [fact |-> c, tag |-> tag]
              ELSE trusted

SelectLatestRestated(C) ==
  LET judged[S \in SUBSET C] ==
        LET c == LatestOf(S)
        IN IF S \subseteq {c}
             THEN [fact |-> c, tag |-> TagOf[c.key]]
             ELSE Judge(judged[S \ {c}], c)
  IN judged[C].fact.key

\* Rows count on a day unless they are excluded; each comes with its review.
Exclusions == [technical |-> technical, veto |-> veto]
Excluded(out, key, reference) ==
  key \in out.technical \/ out.veto[key] <= reference
\* Mutant: vetoes count as of today.
LoadFactsToday(rows, out, field, reference) ==
  {[key |-> f.key, value |-> f.value, id |-> f.id, decision |-> review[f.key]] :
     f \in {g \in rows : FieldOf[g.key] = field /\ ~Excluded(out, g.key, day)}}
LoadFacts(rows, out, field, reference) ==
  {[key |-> f.key, value |-> f.value, id |-> f.id, decision |-> review[f.key]] :
     f \in {g \in rows : FieldOf[g.key] = field /\ ~Excluded(out, g.key, reference)}}

Select(C) ==
  IF C = {} THEN "none" ELSE SelectLatestRestated(C)
LatestRestated(field) ==
  Select(Canonical(LoadFacts(facts, Exclusions, field, day)))
SelectAsOf(rows, out, field, d) ==
  Select({c \in Canonical(LoadFacts(rows, out, field, d)) : Filed(c.key) <= d})
AsOf(field, d) == SelectAsOf(facts, Exclusions, field, d)

-----------------------------------------------------------------------------
(* Ingest: one transaction per part online, one per snapshot in a backfill *)

Idle == [pc |-> "idle", snapshot |-> 0, kind |-> "none", first |-> 0, part |-> 0,
         last |-> 0, fresh |-> {}, clash |-> {}, took |-> {}]

Doc(w) == Rows[writer[w].snapshot][writer[w].part]
Holder(f) == {v \in Writers : f \in held[v]}

Init ==
  /\ day = 0
  /\ facts = {} /\ conflicts = {} /\ nextId = 1
  /\ writer = [w \in Writers |-> Idle]
  /\ held = [w \in Writers |-> {}]
  /\ review = [k \in Keys |-> "none"]
  /\ technical = {}
  /\ veto = [k \in Keys |-> Never]
  /\ rulings = 0 /\ faults = 0
  /\ done = {} /\ late = {} /\ ruled = {}
  /\ answered = [d \in Days |-> [x \in Fields |-> "none"]]

\* The night: the answers of the day are on record.
NewDay ==
  /\ day < LastDay
  /\ day' = day + 1
  /\ answered' = [answered EXCEPT ![day] = [x \in Fields |-> LatestRestated(x)]]
  /\ UNCHANGED <<ingest, decided>>

Available == {s \in Snapshots : ArrivesOn[s] <= day}

\* An online ingest takes the newest snapshot, one statement, behind the
\* advisory lock of the snapshot; a backfill takes any snapshot, whole.
Begin(w, s, first, last, kind) ==
  /\ writer[w].pc = "idle"
  /\ kind = "online" =>
       \A v \in Writers : writer[v].kind = "online" => writer[v].snapshot # s
  /\ writer' = [writer EXCEPT ![w] =
       [pc |-> "filings", snapshot |-> s, kind |-> kind, first |-> first,
        part |-> first, last |-> last, fresh |-> {}, clash |-> {}, took |-> {}]]
  /\ UNCHANGED <<day, answered, facts, conflicts, nextId, held, done, late,
                 faults, decided>>
BeginOnline(w) ==
  \E s \in Available, p \in 1..Parts :
    (\A t \in Available : t <= s) /\ Begin(w, s, p, p, "online")
BeginBackfill(w) ==
  \E s \in Available : Begin(w, s, 1, Parts, "backfill")

\* The filings of the document not yet upserted by this transaction.
Unflushed(w) == {i \in DOMAIN Doc(w) : FilingOf[Doc(w)[i].key] \notin held[w]}
NextFiling(w) ==
  FilingOf[Doc(w)[CHOOSE i \in Unflushed(w) : \A j \in Unflushed(w) : i <= j].key]
Wants(w, f) ==
  writer[w].pc = "filings" /\ Unflushed(w) # {} /\ NextFiling(w) = f

\* Mutant: a filing that is there is left alone, and so not locked.
FlushFilingFree(w) ==
  \E f \in Filings :
    /\ Wants(w, f)
    /\ held' = [held EXCEPT ![w] = @ \cup {f}]
    /\ UNCHANGED <<day, answered, facts, conflicts, nextId, writer, done, late,
                   faults, decided>>

\* ON CONFLICT DO UPDATE: the row of the filing is locked until the end.
FlushFiling(w) ==
  \E f \in Filings :
    /\ Wants(w, f)
    /\ Holder(f) = {}
    /\ held' = [held EXCEPT ![w] = @ \cup {f}]
    /\ UNCHANGED <<day, answered, facts, conflicts, nextId, writer, done, late,
                   faults, decided>>

\* A value that differs from the one its key has, and both of them.
Clashes(old, new) ==
  UNION {{<<o.key, o.value, n.value>> :
            n \in {m \in new : m.key = o.key /\ m.value # o.value}} : o \in old}

\* The first row of each key counts, another value of it is a conflict.
FirstRows(doc) ==
  {i \in DOMAIN doc : \A j \in DOMAIN doc : doc[j].key = doc[i].key => i <= j}
BatchConflicts(doc) ==
  Clashes({doc[i] : i \in FirstRows(doc)}, {doc[i] : i \in DOMAIN doc})

\* Mutant: every first row is new, the insert will leave out what is there.
LoadNothing(w) ==
  /\ writer[w].pc = "filings"
  /\ Unflushed(w) = {}
  /\ writer' = [writer EXCEPT ![w] =
       [writer[w] EXCEPT !.pc = "insert", !.fresh = FirstRows(Doc(w)),
          !.clash = writer[w].clash \cup BatchConflicts(Doc(w))]]
  /\ UNCHANGED <<day, answered, facts, conflicts, nextId, held, done, late,
                 faults, decided>>

LoadExisting(w) ==
  LET existing == facts \cup writer[w].took
      stored == {f.key : f \in existing}
  IN /\ writer[w].pc = "filings"
     /\ Unflushed(w) = {}
     /\ writer' = [writer EXCEPT ![w] =
          [writer[w] EXCEPT !.pc = "insert",
             !.fresh = {i \in FirstRows(Doc(w)) : Doc(w)[i].key \notin stored},
             !.clash = writer[w].clash \cup BatchConflicts(Doc(w)) \cup
               Clashes(existing, {Doc(w)[i] : i \in FirstRows(Doc(w))})]]
     /\ UNCHANGED <<day, answered, facts, conflicts, nextId, held, done, late,
                    faults, decided>>

Place(S, i) == Cardinality({j \in S : j <= i})

\* ON CONFLICT DO NOTHING leaves out what has come in meanwhile; the ids that
\* come back are laid beside the new rows from the first on.
Insert(w) ==
  LET doc == Doc(w)
      fresh == writer[w].fresh
      inserted == {i \in fresh : doc[i].key \notin {f.key : f \in facts}}
      beside(i) == CHOOSE j \in fresh : Place(fresh, j) = Place(inserted, i)
      open == UNION {writer[v].took : v \in Writers \ {w}}
      part == writer[w].part
      more == part < writer[w].last
  IN /\ writer[w].pc = "insert"
     /\ \A i \in inserted : doc[i].key \notin {f.key : f \in open}
     /\ nextId' = nextId + Cardinality(inserted)
     /\ writer' = [writer EXCEPT ![w] =
          [writer[w] EXCEPT !.pc = IF more THEN "filings" ELSE "commit",
             !.part = IF more THEN part + 1 ELSE part,
             !.fresh = {},
             !.took = writer[w].took \cup
               {[key |-> doc[i].key,
                 value |-> doc[i].value,
                 id |-> nextId + Place(inserted, i) - 1,
                 snapshot |-> writer[w].snapshot,
                 observed |-> doc[beside(i)].value] : i \in inserted}]]
     /\ UNCHANGED <<day, answered, facts, conflicts, held, done, late, faults,
                    decided>>

\* Mutant: the transaction stays open when its last part is written.
OverOpen(w) ==
  /\ writer' = [writer EXCEPT ![w] = [Idle EXCEPT !.pc = "filings"]]
  /\ held' = [held EXCEPT ![w] = {}]
  /\ UNCHANGED <<day, answered, nextId, decided>>

\* The transaction is over: its locks are gone.
Over(w) ==
  /\ writer' = [writer EXCEPT ![w] = Idle]
  /\ held' = [held EXCEPT ![w] = {}]
  /\ UNCHANGED <<day, answered, nextId, decided>>

Commit(w) ==
  /\ writer[w].pc = "commit"
  /\ facts' = facts \cup writer[w].took
  /\ conflicts' = conflicts \cup writer[w].clash
  /\ done' = done \cup ({writer[w].snapshot} \X (writer[w].first..writer[w].last))
  /\ late' = late \cup
       {d \in Days : d < day /\ \E f \in writer[w].took : Filed(f.key) <= d}
  /\ Over(w)
  /\ UNCHANGED faults

Abort(w) ==
  /\ Over(w)
  /\ UNCHANGED <<facts, conflicts, done, late>>

\* An error or a kill: the run is recorded as failed, the data rolled back.
Fail(w) ==
  /\ writer[w].pc # "idle" /\ faults < MaxFaults
  /\ faults' = faults + 1
  /\ Abort(w)

\* Two transactions that wait for each other: the server ends one of them.
Victim(w) ==
  /\ \E v \in Writers : \E f \in held[v], g \in held[w] : Wants(w, f) /\ Wants(v, g)
  /\ UNCHANGED faults
  /\ Abort(w)

-----------------------------------------------------------------------------
(* Decisions by hand about a fact                                          *)

Ruling(key, days) ==
  /\ rulings < MaxRulings
  /\ key \in {f.key : f \in facts}
  /\ rulings' = rulings + 1
  /\ ruled' = ruled \cup (days \X {day})
  /\ UNCHANGED <<day, answered, ingest>>

CreateTechnical(key) ==
  /\ technical' = technical \cup {key}
  /\ Ruling(key, {d \in Days : Filed(key) <= d})
  /\ UNCHANGED <<review, veto>>
\* The veto of today replaces an older one.
CreateVeto(key) ==
  /\ veto' = [veto EXCEPT ![key] = day]
  /\ Ruling(key, {d \in Days : veto[key] <= d \/ day <= d})
  /\ UNCHANGED <<review, technical>>
RevokeTechnical(key) ==
  /\ key \in technical
  /\ technical' = technical \ {key}
  /\ Ruling(key, {d \in Days : Filed(key) <= d})
  /\ UNCHANGED <<review, veto>>
RevokeVeto(key) ==
  /\ veto[key] # Never
  /\ veto' = [veto EXCEPT ![key] = Never]
  /\ Ruling(key, {d \in Days : veto[key] <= d})
  /\ UNCHANGED <<review, technical>>
\* An approval comes from approve_case, a rejection is inserted by the reviewer.
Review(key, decision) ==
  /\ review[key] # decision
  /\ review' = [review EXCEPT ![key] = decision]
  /\ Ruling(key, {d \in Days : Filed(key) <= d})
  /\ UNCHANGED <<technical, veto>>

WriterStep(w) ==
  FlushFiling(w) \/ LoadExisting(w) \/ Insert(w) \/ Commit(w)
Decide(key) ==
  \/ CreateTechnical(key)
  \/ CreateVeto(key)
  \/ RevokeTechnical(key)
  \/ RevokeVeto(key)
  \/ Review(key, "approved")
  \/ Review(key, "rejected")
\* The days and the ingests; no step of an ingest reads a decision.
IngestNext ==
  \/ NewDay
  \/ \E w \in Writers :
       BeginOnline(w) \/ BeginBackfill(w) \/ WriterStep(w) \/ Fail(w) \/ Victim(w)
Next == IngestNext \/ \E key \in Keys : Decide(key)

Spec == Init /\ [][Next]_vars
IngestSpec == Init /\ [][IngestNext]_vars
-----------------------------------------------------------------------------
(* Properties                                                              *)

FactRecord ==
  [key : Keys, value : Nat, id : Nat, snapshot : Snapshots, observed : Nat]
Transactions ==
  [pc : {"idle", "filings", "insert", "commit"}, snapshot : Snapshots \cup {0},
   kind : {"none", "online", "backfill"},
   first : 0..Parts, part : 0..Parts, last : 0..Parts,
   fresh : SUBSET Nat, clash : SUBSET (Keys \X Nat \X Nat),
   took : SUBSET FactRecord]

\* The types of the variables; a transaction that is open works on a part of
\* a snapshot.
TypeOK ==
  /\ day \in Days
  /\ facts \subseteq FactRecord
  /\ conflicts \subseteq Keys \X Nat \X Nat
  /\ nextId \in Nat \ {0}
  /\ writer \in [Writers -> Transactions]
  /\ \A w \in Writers : writer[w].pc # "idle" =>
       /\ writer[w].snapshot \in Snapshots
       /\ writer[w].first \in 1..Parts /\ writer[w].part \in 1..Parts
  /\ held \in [Writers -> SUBSET Filings]
  /\ review \in [Keys -> {"none", "approved", "rejected"}]
  /\ technical \subseteq Keys
  /\ veto \in [Keys -> 0..Never]
  /\ rulings \in 0..MaxRulings /\ faults \in 0..MaxFaults
  /\ done \subseteq Snapshots \X (1..Parts)
  /\ DOMAIN answered = Days /\ \A d \in Days : DOMAIN answered[d] = Fields
  /\ late \subseteq Days /\ ruled \subseteq Days \X Days

\* Once the ingest of a statement has been committed, every value it lists is
\* a fact or is on record as a conflict with one, whoever wrote to the same
\* stock meanwhile: the value of a row skipped by ON CONFLICT DO NOTHING
\* would be lost without a trace.  It is the rows of us_filing, locked by
\* their upsert before the facts are read, that keep two writers apart.
NothingLost ==
  \A sp \in done : \A i \in DOMAIN Rows[sp[1]][sp[2]] :
    LET row == Rows[sp[1]][sp[2]][i]
    IN \/ \E f \in facts : f.key = row.key /\ f.value = row.value
       \/ \E c \in conflicts : c[1] = row.key /\ c[3] = row.value

\* A key has one fact, and its source names a snapshot that holds this key
\* with this value: the ids that come back from the insert are laid to the
\* right rows (fact_source, _write_fact_sources).
EvidenceMatches ==
  \A f \in facts :
    /\ f.observed = f.value
    /\ \E p \in 1..Parts : \E i \in DOMAIN Rows[f.snapshot][p] :
         Rows[f.snapshot][p][i] = [key |-> f.key, value |-> f.value]
    /\ \A g \in facts : g.key = f.key => g = f

RuledLater(d) == \E on \in Days : on > d /\ <<d, on>> \in ruled

\* Asked for a past day, the selection says what it said on that day, unless
\* filings of that time came in late or a decision about them was taken
\* since: no later filing, better tag or new veto changes history.
NoHindsight ==
  \A d \in Days : d < day /\ d \notin late /\ ~RuledLater(d) =>
    \A x \in Fields : AsOf(x, d) = answered[d][x]
=============================================================================
