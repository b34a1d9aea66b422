----------------------------- MODULE PaperDedup -----------------------------
(***************************************************************************)
(* The pure part of paper_search's filter node: raw results are validated, *)
(* filtered, and merged into one entry per paper, found again by its DOI or *)
(* by its title and first author.                                          *)
(*                                                                         *)
(* A raw paper has a doi and a title (its title and first author; None when *)
(* either is missing), a pdf flag, a date and a flag "valid" for the length *)
(* limits of the record.  A date is a number, 0 when unknown; a multiple of *)
(* Year is a year known without its day.                                   *)
(***************************************************************************)
EXTENDS Integers, Sequences

CONSTANTS None,              \* no DOI, no title and author
          YearFrom, YearTo   \* the years the request asks for

Year == 10
YearOf(date) == date \div Year

MatchesFilters(p) ==
  p.date # 0 => YearOf(p.date) \in YearFrom..YearTo

ToPaperInfoDraft(p) == p.valid

\* A key names its kind, so that no DOI is taken for a title.
DoiKey(p)       == <<"doi", p.doi>>
TitleKey(p)     == <<"title", p.title>>
IdentityKeys(p) == {k \in {DoiKey(p), TitleKey(p)} : k[2] # None}

\* What becomes of a raw paper before it is compared with the others.
Accepted(p) == MatchesFilters(p) /\ ToPaperInfoDraft(p) /\ IdentityKeys(p) # {}

\* What an entry starts as: its key is the DOI's, or else the title's.
Envelope(p) ==
  [key   |-> IF p.doi # None THEN DoiKey(p) ELSE TitleKey(p),
   doi   |-> p.doi, title |-> p.title, pdf |-> p.pdf, date |-> p.date]

\* Mutant of MergeEnvelope: the DOI of a later result is lost.
MergeEnvelope_OwnDoi(current, incoming) ==
  [key   |-> current.key,
   doi   |-> current.doi,
   title |-> IF current.title = None THEN incoming.title ELSE current.title,
   pdf   |-> current.pdf \/ incoming.pdf,
   date  |-> IF current.date = 0 THEN incoming.date ELSE current.date]

(* A gap of the entry is filled, a year gives way to a day; an entry that   *)
(* has a DOI now goes by it.                                                *)
MergeEnvelope(current, incoming) ==
  LET doi == IF current.doi = None THEN incoming.doi ELSE current.doi IN
  [key   |-> IF doi # None THEN <<"doi", doi>> ELSE current.key,
   doi   |-> doi,
   title |-> IF current.title = None THEN incoming.title ELSE current.title,
   pdf   |-> current.pdf \/ incoming.pdf,
   date  |-> IF \/ current.date = 0
                \/ current.date % Year = 0 /\ incoming.date % Year # 0
               THEN incoming.date ELSE current.date]

\* byDoi and byTitle give the position of an entry.
Start == [papers |-> <<>>, byDoi |-> <<>>, byTitle |-> <<>>, conflicts |-> 0]

Find(index, key) == IF key \in DOMAIN index THEN index[key] ELSE 0
Put(index, key, n) == [k \in DOMAIN index \cup {key} |-> IF k = key THEN n ELSE index[k]]
Drop(index, key) == [k \in DOMAIN index \ {key} |-> index[k]]

\* The same title under two DOIs: the later one is kept.
Renames(acc, p) ==
  LET t == Find(acc.byTitle, p.title) IN
  /\ t # 0 /\ p.doi # None
  /\ acc.papers[t].doi \notin {None, p.doi}
  /\ p.date > acc.papers[t].date

Conflicts(acc, p) ==
  LET t == Find(acc.byTitle, p.title) IN
  t # 0 /\ p.doi # None /\ acc.papers[t].doi \notin {None, p.doi}

Renamed(acc, p) ==
  LET t   == Find(acc.byTitle, p.title)
      old == acc.papers[t].doi
  IN IF ~Renames(acc, p) THEN acc
     ELSE [acc EXCEPT !.papers[t].doi = p.doi,
                      !.byDoi = IF Find(@, old) = t THEN Drop(@, old) ELSE @]

\* The entry of paper p: one with its DOI, one with its title, or a new one.
EntryFor(acc, p) ==
  LET d == Find(acc.byDoi, p.doi)
      t == Find(acc.byTitle, p.title)
  IN IF d # 0 THEN d ELSE IF t # 0 THEN t ELSE Len(acc.papers) + 1

NormalizePaper(acc, p) ==
  LET kept   == Renamed(acc, p)
      target == EntryFor(acc, p)
      papers == IF target > Len(kept.papers)
                  THEN Append(kept.papers, Envelope(p))
                  ELSE [kept.papers EXCEPT ![target] = MergeEnvelope(@, p)]
      doi    == papers[target].doi
  IN [papers    |-> papers,
      byDoi     |-> IF doi # None THEN Put(kept.byDoi, doi, target) ELSE kept.byDoi,
      byTitle   |-> IF p.title # None /\ Find(acc.byTitle, p.title) = 0
                    THEN Put(kept.byTitle, p.title, target) ELSE kept.byTitle,
      conflicts |-> acc.conflicts + IF Conflicts(acc, p) THEN 1 ELSE 0]

(* The loop over the raw papers; what is not accepted is counted, no more.  *)
NormalizePayloads(raw) ==
  LET after[n \in 0..Len(raw)] ==
        IF n = 0 THEN Start
        ELSE IF Accepted(raw[n]) THEN NormalizePaper(after[n - 1], raw[n])
        ELSE after[n - 1]
  IN after[Len(raw)]
=============================================================================
