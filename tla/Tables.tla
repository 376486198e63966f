--------------------------------- MODULE Tables ---------------------------------
(***************************************************************************)
(* The table of standings with its search, its pages and the viewer's own  *)
(* row (standings-table.component.ts), over rows that each snapshot may    *)
(* replace: players removed, other ranks, another game's table.  A row is  *)
(* its player and the rank.                                                *)
(***************************************************************************)
EXTENDS Integers, FiniteSets, SequencesExt

CONSTANTS
  Players,
  Viewer,      \* highlight: the viewer's own id, of a player who may be absent
  Found,       \* players whose name or number the search finds
  PageSize

ASSUME TableAssumption ==
  PageSize \in Nat \ {0} /\ IsFiniteSet(Players) /\ Found \subseteq Players

VARIABLES
  tableRows,   \* the rows, by rank
  searching,   \* the query is not empty
  tablePage,   \* the page signal
  revealed,    \* false until the host reveals
  askedMe      \* history: "show me" was the last press, and the rows are as they were

tableVars == <<tableRows, searching, tablePage, revealed, askedMe>>

--------------------------------------------------------------------------------
hits == {i \in DOMAIN tableRows : tableRows[i].player \in Found}

\* The rows at the hits, in their order: SelectSeq by another name, one the provers know.
filtered ==
  IF searching
    THEN [k \in 1..Cardinality(hits) |->
            tableRows[CHOOSE i \in hits : Cardinality({j \in hits : j <= i}) = k]]
    ELSE tableRows

\* At least one page, rounded up.
pageCount == LET n == (Len(filtered) + PageSize - 1) \div PageSize IN IF n = 0 THEN 1 ELSE n

\* Mutant: the page is shown as it is, past the last one too.
shownPageAsIs == tablePage

shownPage == IF tablePage < pageCount THEN tablePage ELSE pageCount - 1

pageRows ==
  SubSeq(filtered, shownPage * PageSize + 1,
         IF (shownPage + 1) * PageSize < Len(filtered) THEN (shownPage + 1) * PageSize
                                                       ELSE Len(filtered))

myRow == {r \in ToSet(tableRows) : r.player = Viewer}

\* A tie is another row of the same rank.
isTied(row) == \E r \in ToSet(tableRows) : r # row /\ r.rank = row.rank

\* The page as the template shows it: the card above, the rows, the pager.
Table ==
  [me |-> IF revealed THEN myRow ELSE {}, rows |-> pageRows,
   ties |-> {r.player : r \in {x \in ToSet(pageRows) \cup (IF revealed THEN myRow ELSE {}) : isTied(x)}},
   prev |-> pageCount > 1 /\ tablePage # 0,
   next |-> pageCount > 1 /\ tablePage < pageCount - 1]

--------------------------------------------------------------------------------
\* Ranks begin at 1; equal ones share the place and the next is skipped.
Ranked(rows) ==
  /\ \A i, k \in DOMAIN rows : i # k => rows[i].player # rows[k].player
  /\ \A i \in DOMAIN rows : rows[i].rank = i \/ (i > 1 /\ rows[i].rank = rows[i - 1].rank)

AllRows ==
  {rows \in UNION {[1..n -> [player : Players, rank : 1..n]] : n \in 0..Cardinality(Players)} :
     Ranked(rows)}

NewRows(rows) ==
  /\ tableRows' = rows /\ askedMe' = FALSE
  /\ UNCHANGED <<searching, tablePage, revealed>>

Reveal ==
  /\ ~revealed /\ revealed' = TRUE
  /\ UNCHANGED <<tableRows, searching, tablePage, askedMe>>

onQuery ==
  /\ searching' = ~searching /\ tablePage' = 0 /\ askedMe' = FALSE
  /\ UNCHANGED <<tableRows, revealed>>

Turn(step) ==
  /\ IF step = 1 THEN Table.next ELSE Table.prev
  /\ tablePage' = tablePage + step /\ askedMe' = FALSE
  /\ UNCHANGED <<tableRows, searching, revealed>>

showMe ==
  /\ myRow # {}
  /\ searching' = FALSE
  /\ \E i \in DOMAIN tableRows : tableRows[i].player = Viewer /\ tablePage' = (i - 1) \div PageSize
  /\ askedMe' = TRUE
  /\ UNCHANGED <<tableRows, revealed>>

TablesInit ==
  /\ tableRows = <<>> /\ searching = FALSE /\ tablePage = 0
  /\ revealed = FALSE /\ askedMe = FALSE

TablesNext ==
  \/ \E rows \in AllRows : NewRows(rows)
  \/ Reveal \/ onQuery \/ Turn(1) \/ Turn(-1) \/ showMe

--------------------------------------------------------------------------------
\* However rows go and come under a page that was turned or searched, a table with rows
\* to show shows some, and who asked to be shown is on the page
\* (standings-table.component.ts:179).
PageHasRows ==
  /\ filtered # <<>> => Table.rows # <<>>
  /\ askedMe => myRow \subseteq ToSet(Table.rows)
================================================================================
