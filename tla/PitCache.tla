------------------------------- MODULE PitCache -------------------------------
(***************************************************************************)
(* The back test and the paper account asking the version layer for past   *)
(* days (quant/backtest/us_pit_source.py, preloader.py), with the answers  *)
(* kept on disk under the day and a watermark of the facts.  Composed with *)
(* FactVersions: ingests and decisions go on meanwhile.                    *)
(***************************************************************************)
EXTENDS FactVersions, FiniteSetsExt

CONSTANTS
  Testers,      \* processes that ask
  MaxEntries    \* bound: answers on disk

VARIABLES
  tester,       \* the preloader of each process
  cache         \* build/pit_cache: answers by <<day, watermark>>

pit == <<tester, cache>>
pitVars == <<vars, pit>>

\* The greatest id and the number of the facts in a set of rows.
Watermark(rows) == <<Max({0} \cup {f.id : f \in rows}), Cardinality(rows)>>

NoOut == [technical |-> {}, veto |-> [k \in Keys |-> Never]]
Unloaded ==
  [pc |-> "idle", stream |-> FALSE, mark |-> <<0, 0>>, rows |-> {}, out |-> NoOut]

PitInit ==
  /\ Init
  /\ tester = [t \in Testers |-> Unloaded]
  /\ cache = [e \in {} |-> [x \in Fields |-> "none"]]

\* load: the facts are read once and the exclusions after them, or, for a
\* host with little memory, the watermark alone.
LoadRows(t) ==
  /\ tester[t].pc = "idle"
  /\ tester' = [tester EXCEPT ![t] =
       [Unloaded EXCEPT !.pc = "rows", !.mark = Watermark(facts), !.rows = facts]]
  /\ UNCHANGED <<vars, cache>>
\* Mutant: the watermark is asked for after the facts are read.
LoadExclusionsMarked(t) ==
  /\ tester[t].pc = "rows"
  /\ tester' = [tester EXCEPT ![t].pc = "loaded", ![t].out = Exclusions,
                             ![t].mark = Watermark(facts)]
  /\ UNCHANGED <<vars, cache>>
LoadExclusions(t) ==
  /\ tester[t].pc = "rows"
  /\ tester' = [tester EXCEPT ![t].pc = "loaded", ![t].out = Exclusions]
  /\ UNCHANGED <<vars, cache>>
LoadStreaming(t) ==
  /\ tester[t].pc = "idle"
  /\ tester' = [tester EXCEPT ![t] =
       [Unloaded EXCEPT !.pc = "loaded", !.stream = TRUE, !.mark = Watermark(facts)]]
  /\ UNCHANGED <<vars, cache>>

\* A streaming process selects from the rows of now, and files the answer
\* under the watermark of its load.
GetUniverse(t, d) ==
  LET entry == <<d, tester[t].mark>>
      answer == [x \in Fields |->
        IF tester[t].stream
          THEN AsOf(x, d)
          ELSE SelectAsOf(tester[t].rows, tester[t].out, x, d)]
  IN /\ tester[t].pc = "loaded"
     /\ d <= day
     /\ entry \notin DOMAIN cache
     /\ Cardinality(DOMAIN cache) < MaxEntries
     /\ cache' = [e \in DOMAIN cache \cup {entry} |->
                     IF e = entry THEN answer ELSE cache[e]]
     /\ UNCHANGED <<vars, tester>>

\* The process ends; what it cached stays on disk.
Exit(t) ==
  /\ tester[t].pc # "idle"
  /\ tester' = [tester EXCEPT ![t] = Unloaded]
  /\ UNCHANGED <<vars, cache>>

PitNext ==
  \/ IngestNext /\ UNCHANGED pit
  \/ \E key \in Keys : Decide(key) /\ UNCHANGED pit
  \/ \E t \in Testers :
       \/ LoadRows(t) \/ LoadExclusions(t) \/ LoadStreaming(t) \/ Exit(t)
       \/ \E d \in Days : GetUniverse(t, d)

PitSpec == PitInit /\ [][PitNext]_pitVars

-----------------------------------------------------------------------------

\* The answers on disk that a process started now would take.
Current == {e \in DOMAIN cache : e[2] = Watermark(facts)}

\* An answer that would be taken from disk is the one the selection gives now,
\* as long as nobody has decided about facts of that day: an ingest, even of
\* a process that commits after one with greater ids, or in the middle of a
\* streaming back test, puts older answers out of use.
CacheFresh ==
  \A e \in Current : ~(\E on \in Days : <<e[1], on>> \in ruled) =>
    \A x \in Fields : cache[e][x] = AsOf(x, e[1])
=============================================================================
