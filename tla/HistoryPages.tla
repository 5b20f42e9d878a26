----------------------------- MODULE HistoryPages -----------------------------
(***************************************************************************)
(* The list of what happened to a balance, page by page: on the member's   *)
(* page, in a member's detail and in a kiosk's detail on the               *)
(* administrator's page. A page of rows is merged from several tables and  *)
(* ends at a time, the cursor of the next. One load is under way at a      *)
(* time; a list that is drawn anew while it is under way does not start    *)
(* its own, and the answer goes into the new list.                         *)
(***************************************************************************)
EXTENDS Integers, FiniteSets, Sequences, SequencesExt

CONSTANTS
  Kinds,        \* the three pages: "member", "detail", "kiosk"
  Owners,       \* members, or kiosks
  Rows,         \* rows of the tables, in the order of their times
  Of, Table, Time, Day,   \* whose, in which table, when
  First,        \* rows there are at first
  Limit,        \* rows of a page
  None,
  Draws, Faults \* lists that may be drawn anew, answers that may be lost

\* What the constants have to be: no more rows are there than can be counted, and those that
\* come are later than those there were.
HistoryConstants ==
  /\ Kinds \subseteq {"member", "detail", "kiosk"}
  /\ Rows \subseteq Nat /\ First \subseteq Rows /\ IsFiniteSet(First)
  /\ \A r \in First, s \in Rows \ First : r < s
  /\ Limit \in Nat \ {0} /\ None \notin Owners
  /\ Of \in [Rows -> Owners] /\ Time \in [Rows -> Nat \ {0}] /\ Day \in [Rows -> Nat \ {0}]
  /\ \A r, s \in Rows : r < s => Time[r] <= Time[s] /\ Day[r] <= Day[s]
  /\ DOMAIN Table = Rows
  /\ Draws \in Nat /\ Faults \in Nat

VARIABLES
  kind, owner,  \* the page, and whose list it shows
  box,          \* the list: rows, each with or without a date above it
  cursor,       \* of the next page; 0: the first
  more, loading,
  last,         \* the date that was drawn last; 0: none
  call,         \* the load under way
  rows,         \* the tables
  draws, faults,
  calm          \* history: the list was drawn while no load was under way

list == <<box, cursor, more, last>>
vars == <<kind, owner, list, loading, call, rows, draws, faults, calm>>

NoCall == [owner |-> None, before |-> 0, answer |-> "none", page |-> <<>>, next |-> 0]

TypeOK ==
  /\ kind \in Kinds /\ owner \in Owners /\ box \in Seq([row : Rows, dated : BOOLEAN])
  /\ cursor \in Nat /\ more \in BOOLEAN /\ last \in Nat /\ loading = (call # NoCall)
  /\ rows \subseteq Rows /\ calm \in BOOLEAN

Load(o, b) == [NoCall EXCEPT !.owner = o, !.before = b]

\* The page has just been opened for somebody.
Init ==
  /\ kind \in Kinds /\ owner \in Owners /\ box = <<>> /\ cursor = 0 /\ more = TRUE /\ last = 0
  /\ loading = TRUE /\ call = Load(owner, 0)
  /\ rows = First /\ draws = Draws /\ faults = Faults /\ calm = TRUE

-------------------------------------------------------------------------------
(* The pages.                                                              *)

\* Mutant of Redraw: the rows stay.
RedrawOnto(o) == owner' = o /\ cursor' = 0 /\ more' = TRUE /\ last' = 0 /\ UNCHANGED box
\* What is forgotten when a list is drawn anew.
Redraw(o) == owner' = o /\ cursor' = 0 /\ more' = TRUE /\ last' = 0 /\ box' = <<>>

\* loadMoreHistory(true), renderDetailHistory, renderKioskDetailHistory: after something
\* has changed, or for another member or kiosk.
Draw(o) ==
  /\ draws > 0 /\ draws' = draws - 1 /\ (kind = "member" => o = owner)
  /\ Redraw(o) /\ calm' = ~loading
  /\ loading' = TRUE /\ call' = IF loading THEN call ELSE Load(o, 0)
  /\ UNCHANGED <<kind, rows, faults>>

\* The scroll handlers: a page without a list does not scroll.
ReadOn == more /\ ~loading /\ box # <<>>

\* loadMoreHistory(false), loadMoreDetailHistory, loadMoreKioskDetailHistory.
Scroll ==
  /\ ReadOn /\ loading' = TRUE /\ call' = Load(owner, cursor)
  /\ UNCHANGED <<kind, owner, list, rows, draws, faults, calm>>

\* historyItemHtml: a row has the date above it if it is not the date above it already.
Drawn(page) ==
  [i \in DOMAIN page |->
     [row |-> page[i],
      dated |-> Day[page[i]] # IF i = 1 THEN last ELSE Day[page[i - 1]]]]

\* An empty page is the end of the list.
AddRows(c) ==
  IF c.page = <<>> THEN more' = FALSE /\ UNCHANGED <<box, cursor, last>>
  ELSE /\ box' = box \o Drawn(c.page)
       /\ cursor' = c.next /\ last' = Day[Last(c.page)] /\ UNCHANGED more

\* Mutant of Stale: every answer is taken.
StaleNever(c) == FALSE
\* A kiosk's detail drops the answer about another kiosk.
Stale(c) == kind = "kiosk" /\ c.owner # owner

\* Mutant of Hear: a lost answer is not the end of its load.
HearNoFinally ==
  /\ call.answer # "none" /\ call' = NoCall /\ loading' = (call.answer = "lost")
  /\ IF call.answer = "lost" \/ Stale(call) THEN UNCHANGED list ELSE AddRows(call)
  /\ UNCHANGED <<kind, owner, rows, draws, faults, calm>>
\* The rest of the load, in each of the three.
Hear ==
  /\ call.answer # "none" /\ loading' = FALSE /\ call' = NoCall
  /\ IF call.answer = "lost" \/ Stale(call) THEN UNCHANGED list ELSE AddRows(call)
  /\ UNCHANGED <<kind, owner, rows, draws, faults, calm>>

-------------------------------------------------------------------------------
(* The server.                                                             *)

\* The rows that are newer than one of them, the newest n rows, and rows in the order of
\* a list: each has as many newer ones as there are places above it.
Above(S, r) == Cardinality({s \in S : s > r})
Newest(n, S) == {r \in S : Above(S, r) < n}
Sorted(S) == [i \in 1..Cardinality(S) |-> CHOOSE r \in S : Above(S, r) = i - 1]

Before(o, b) == {r \in rows : Of[r] = o /\ (b = 0 \/ Time[r] < b)}
\* Each table gives its newest rows, and the newest of those are the page.
Candidates(o, b) ==
  UNION {Newest(Limit, {r \in Before(o, b) : Table[r] = t}) : t \in {Table[r] : r \in Rows}}
Page(o, b) == Sorted(Newest(Limit, Candidates(o, b)))

\* Mutant of Cursor: the oldest of all the rows that were looked at.
CursorOfAll(o, b) == IF Candidates(o, b) = {} THEN 0 ELSE Time[Last(Sorted(Candidates(o, b)))]
\* next_cursor
Cursor(o, b) == IF Candidates(o, b) = {} THEN 0 ELSE Time[Last(Page(o, b))]

\* get_history_page, get_kiosk_payment_history_page
Serve ==
  /\ call # NoCall /\ call.answer = "none"
  /\ call' = [call EXCEPT !.answer = "ok", !.page = Page(call.owner, call.before),
                          !.next = Cursor(call.owner, call.before)]
  /\ UNCHANGED <<kind, owner, list, loading, rows, draws, faults, calm>>

Lose ==
  /\ call # NoCall /\ call.answer # "lost" /\ faults > 0 /\ faults' = faults - 1
  /\ call' = [call EXCEPT !.answer = "lost", !.page = <<>>, !.next = 0]
  /\ UNCHANGED <<kind, owner, list, loading, rows, draws, calm>>

\* Something happens to a balance.
Happen ==
  /\ rows # Rows
  /\ rows' = rows \cup {CHOOSE r \in Rows \ rows : \A s \in Rows \ rows : r <= s}
  /\ UNCHANGED <<kind, owner, list, loading, call, draws, faults, calm>>

Next == (\E o \in Owners : Draw(o)) \/ Scroll \/ Hear \/ Serve \/ Lose \/ Happen
Spec == Init /\ [][Next]_vars /\ WF_vars(Scroll) /\ WF_vars(Hear) /\ WF_vars(Serve)

-------------------------------------------------------------------------------
(* Properties.                                                             *)

\* A list never shows a row twice, nor an older row above a newer one, and has each
\* date above the first of its rows, whatever is drawn anew while a page is loading.
ReadsInOrder ==
  \A i \in DOMAIN box :
    /\ \A j \in DOMAIN box : i < j => box[i].row > box[j].row
    /\ box[i].dated = (i = 1 \/ Day[box[i].row] # Day[box[i - 1].row])

\* A list shows the rows of its owner. The member's detail takes the rows of the member
\* before when it is opened while these are loading; the kiosk's does not.
OwnRows == kind = "kiosk" \/ calm => \A i \in DOMAIN box : Of[box[i].row] = owner

\* No row is left out between the first and the last of the list, and none after the last
\* at its end (history.py:142), if the list was drawn in peace. Of rows that have one
\* time, a page may end between them: the others are never shown.
NothingLeftOut ==
  calm /\ box # <<>> =>
    \A r \in rows :
      Of[r] = owner /\ box[1].row > r /\ (~more \/ r > Last(box).row) =>
        \E i \in DOMAIN box : Time[box[i].row] = Time[r]

\* Whoever scrolls comes to the end of a list that shows something, whatever pages are
\* lost on the way, unless it is drawn anew.
EndIsReached == box # <<>> ~> ~more \/ box = <<>>

===============================================================================
