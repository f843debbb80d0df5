-------------------------------- MODULE ListPages --------------------------------
(***************************************************************************)
(* The lists of the gateways and the mobile app that scrolls through one.  *)
(* A page holds the newest rows older than the cursor, created_at of the   *)
(* last row of the page before.  Rows are stored and change meanwhile; the *)
(* app may have several requests going on, and each answer replaces the    *)
(* list that the app shows.                                                *)
(***************************************************************************)
EXTENDS Naturals, Sequences, SequencesExt, FiniteSets, FiniteSetsExt

CONSTANTS
    Rows,      \* rows of the table, stored or yet to be
    Times,     \* bound on the clock: created_at is in 1 .. Times
    PerPage,   \* rows of a page
    Lists,     \* the lists considered
    Asks,      \* requests of the app that may be going on at once
    Updates,   \* bound on the updates of rows
    Loads      \* bound on the requests for a page

ASSUME ListAssumption ==
    /\ Lists \subseteq {"alerts", "web alerts", "blocked", "decisions", "notifications"}
    /\ {Rows, Asks, Updates, Loads} \subseteq Nat /\ {Times, PerPage} \subseteq Nat \ {0}

VARIABLES
    list,     \* the list shown
    clock,    \* the time of the database
    row,      \* per row: the state of its insertion, created_at, its status, its version
    screen,   \* the state of the app's cubit
    walk,     \* DecisionLoaded and its like: the pages so far, cursor and hasNext
    loading,  \* isLoadingMore, of the list shown
    ask,      \* per request: its kind, the walk captured before it, and its answer
    asked,    \* requests for a page so far
    changed   \* updates of rows so far

listVars == <<list, clock, row, screen, walk, loading, ask, asked, changed>>

\* Rows are numbered in the order of their insertion.
Item == 1 .. Rows
Ask == 1 .. Asks

\* The rows seen by the first page, each with its version, are kept with the walk.
NoWalk == [pages |-> <<>>, cursor |-> 0, more |-> FALSE, start |-> {}]
NoAsk == [pc |-> "idle", kind |-> "load", base |-> NoWalk, got |-> NoWalk]

ListInit ==
    /\ list \in Lists
    /\ clock = 1
    /\ row = [r \in Item |-> [pc |-> "none", at |-> 0, on |-> TRUE, v |-> 0]]
    /\ screen = "initial"
    /\ walk = NoWalk
    /\ loading = FALSE
    /\ ask = [q \in Ask |-> NoAsk]
    /\ asked = 0
    /\ changed = 0

TimePasses ==
    /\ clock < Times
    /\ clock' = clock + 1
    /\ UNCHANGED <<list, row, screen, walk, loading, ask, asked, changed>>

\* created_at is NOW(), the start of the transaction, which commits later.
Insert(R) ==
    /\ row' = [r \in Item |-> IF r \in R THEN [row[r] EXCEPT !.pc = "open", !.at = clock]
                                        ELSE row[r]]
    /\ UNCHANGED <<list, clock, screen, walk, loading, ask, asked, changed>>

New == {r \in Item : row[r].pc = "none"}

\* The rows of one batch of decisions have the same created_at.
InsertBatch == list = "decisions" /\ \E last \in New : Insert({r \in New : r <= last})
InsertRow == list # "decisions" /\ New # {} /\ Insert({Min(New)})

Commit(R) ==
    /\ row' = [r \in Item |-> IF r \in R THEN [row[r] EXCEPT !.pc = "in"] ELSE row[r]]
    /\ UNCHANGED <<list, clock, screen, walk, loading, ask, asked, changed>>

Open == {r \in Item : row[r].pc = "open"}
CommitBatch ==
    list = "decisions" /\ \E r \in Open : Commit({s \in Open : row[s].at = row[r].at})
CommitRow == list # "decisions" /\ \E r \in Open : Commit({r})

SetOn(r, on) ==
    /\ row[r].pc = "in" /\ changed < Updates
    /\ row' = [row EXCEPT ![r].on = on, ![r].v = @ + 1]
    /\ changed' = changed + 1
    /\ UNCHANGED <<list, clock, screen, walk, loading, ask, asked>>

\* An analyst sets the status of an alert: it leaves the filter, or comes back.
UpdateAlert(r) == list \in {"alerts", "web alerts"} /\ SetOn(r, ~row[r].on)

UnblockRow(r) == list = "blocked" /\ row[r].on /\ SetOn(r, FALSE)

-----------------------------------------------------------------------------
\* A page of the rows S: limit + 1 of them are asked for, the one beyond the page only
\* tells has_next.  The order of rows with one created_at is not told.

Stored == {r \in Item : row[r].pc = "in"}

Older(S, cursor) == {r \in S : cursor = 0 \/ row[r].at < cursor}

\* Mutant: the cursor is the row that was read beyond the page.
PagePeeked(S, base) ==
    LET C == Older(S, base.cursor)
        n == IF Cardinality(C) > PerPage THEN PerPage + 1 ELSE Cardinality(C)
    IN  {[pages |-> Append(base.pages, P), more |-> Cardinality(C) > PerPage,
          cursor |-> IF P = {} THEN 0
                     ELSE Min({row[r].at : r \in P \cup {CHOOSE s \in C : \A t \in C : row[s].at <= row[t].at}}),
          start |-> IF base.pages = <<>> THEN {<<r, row[r].v>> : r \in S} ELSE base.start] :
         P \in {Q \in kSubset(IF n > PerPage THEN PerPage ELSE n, C) :
                  \A r \in Q, s \in C \ Q : row[r].at >= row[s].at}}

Page(S, base) ==
    LET C == Older(S, base.cursor)
        n == IF Cardinality(C) > PerPage THEN PerPage ELSE Cardinality(C)
    IN  {[pages |-> Append(base.pages, P), more |-> Cardinality(C) > PerPage,
          cursor |-> IF P = {} THEN 0 ELSE Min({row[r].at : r \in P}),
          start |-> IF base.pages = <<>> THEN {<<r, row[r].v>> : r \in S} ELSE base.start] :
         P \in {Q \in kSubset(n, C) : \A r \in Q, s \in C \ Q : row[r].at >= row[s].at}}

Read(q, S) ==
    /\ ask[q].pc = "sent" /\ ask[q].kind # "act"
    /\ \E w \in Page(S, ask[q].base) : ask' = [ask EXCEPT ![q] = [@ EXCEPT !.pc = "answered", !.got = w]]
    /\ UNCHANGED <<list, clock, row, screen, walk, loading, asked, changed>>

\* The endpoints, each with its filter: a status, active_only, or none.
GetAlerts(q)        == list = "alerts" /\ Read(q, {r \in Stored : row[r].on})
GetWebAlerts(q)     == list = "web alerts" /\ Read(q, {r \in Stored : row[r].on})
GetBlockedIps(q)    == list = "blocked" /\ Read(q, {r \in Stored : row[r].on})
GetDecisions(q)     == list = "decisions" /\ Read(q, Stored)
GetNotifications(q) == list = "notifications" /\ Read(q, Stored)

-----------------------------------------------------------------------------
\* The app.

FreeAsks == {q \in Ask : ask[q].pc = "idle"}
Send(q, kind, base) ==
    /\ asked < Loads /\ FreeAsks # {} /\ q = Min(FreeAsks)
    /\ ask' = [ask EXCEPT ![q] = [NoAsk EXCEPT !.pc = "sent", !.kind = kind, !.base = base]]
    /\ asked' = asked + 1

\* The page opens, or the user refreshes it or tries again.
Load(q) ==
    /\ Send(q, "load", NoWalk)
    /\ screen' = "loading" /\ walk' = NoWalk /\ loading' = FALSE
    /\ UNCHANGED <<list, clock, row, changed>>

\* The state is captured before the request; the answer is put after its pages.
LoadMore(q) ==
    /\ screen = "loaded" /\ walk.more /\ ~loading
    /\ Send(q, "more", walk)
    /\ loading' = TRUE
    /\ UNCHANGED <<list, clock, row, screen, walk, changed>>

\* A block, an unblock, a new status or a decision is sent, from any screen.
Act(q) ==
    /\ Send(q, "act", NoWalk)
    /\ screen' = "acting" /\ walk' = NoWalk /\ loading' = FALSE
    /\ UNCHANGED <<list, clock, row, changed>>

\* The action is answered: after a success the list is fetched again silently.
Acted(q) ==
    /\ ask[q].pc = "sent" /\ ask[q].kind = "act"
    /\ screen' = "acted" /\ walk' = NoWalk /\ loading' = FALSE
    /\ \/ ask' = [ask EXCEPT ![q] = NoAsk]
       \/ ask' = [ask EXCEPT ![q] = [NoAsk EXCEPT !.pc = "sent", !.kind = "refresh"]]
    /\ UNCHANGED <<list, clock, row, asked, changed>>

Shows(q) == ~(ask[q].kind = "refresh" /\ screen = "acted")

\* Mutant: the answer is put after the pages that are shown now.
LandMixed(q) ==
    /\ ask[q].pc = "answered"
    /\ ask' = [ask EXCEPT ![q] = NoAsk]
    /\ IF Shows(q)
       THEN /\ screen' = "loaded" /\ loading' = FALSE
            /\ walk' = IF ask[q].kind = "more"
                       THEN [ask[q].got EXCEPT !.pages = walk.pages \o <<Last(@)>>]
                       ELSE ask[q].got
       ELSE UNCHANGED <<screen, loading, walk>>
    /\ UNCHANGED <<list, clock, row, asked, changed>>

\* A silent refresh is dropped if the outcome of an action is on the screen; any other
\* answer replaces what is shown.
Land(q) ==
    /\ ask[q].pc = "answered"
    /\ ask' = [ask EXCEPT ![q] = NoAsk]
    /\ IF Shows(q)
       THEN screen' = "loaded" /\ loading' = FALSE /\ walk' = ask[q].got
       ELSE UNCHANGED <<screen, loading, walk>>
    /\ UNCHANGED <<list, clock, row, asked, changed>>

\* A failure: the captured list is shown again, an error, or nothing changes.
Fail(q) ==
    /\ ask[q].pc = "sent" /\ ask[q].kind # "act"
    /\ ask' = [ask EXCEPT ![q] = NoAsk]
    /\ \/ /\ ask[q].kind = "more"
          /\ screen' = "loaded" /\ loading' = FALSE /\ walk' = ask[q].base
       \/ /\ ask[q].kind = "load"
          /\ screen' = "error" /\ loading' = FALSE /\ walk' = NoWalk
       \/ /\ ask[q].kind = "refresh"
          /\ UNCHANGED <<screen, loading, walk>>
    /\ UNCHANGED <<list, clock, row, asked, changed>>

ListNext ==
    \/ TimePasses \/ InsertBatch \/ InsertRow \/ CommitBatch \/ CommitRow
    \/ \E r \in Item : UpdateAlert(r) \/ UnblockRow(r)
    \/ \E q \in Ask :
         \/ GetAlerts(q) \/ GetWebAlerts(q) \/ GetBlockedIps(q) \/ GetDecisions(q)
         \/ GetNotifications(q)
         \/ Load(q) \/ LoadMore(q) \/ Act(q) \/ Acted(q) \/ Land(q) \/ Fail(q)

ListSpec == ListInit /\ [][ListNext]_listVars

-----------------------------------------------------------------------------

Walk(w) ==
    /\ w.pages \in Seq(SUBSET Item) /\ w.cursor \in 0 .. Times /\ w.more \in BOOLEAN
    /\ w.start \subseteq Item \X (0 .. Updates)

ListTypeOK ==
    /\ list \in Lists /\ clock \in 1 .. Times /\ loading \in BOOLEAN
    /\ row \in [Item -> [pc : {"none", "open", "in"}, at : 0 .. Times, on : BOOLEAN,
                        v : 0 .. Updates]]
    /\ screen \in {"initial", "loading", "loaded", "error", "acting", "acted"}
    /\ Walk(walk) /\ \A q \in Ask : Walk(ask[q].base) /\ Walk(ask[q].got)
    /\ asked \in 0 .. Loads /\ changed \in 0 .. Updates

Shown == UNION Range(walk.pages)

\* Pages that are read at different times, from a table that changes, make one list
\* (mobile_gateway/main.py:383-399, gateway/main.py:808-822, decision_cubit.dart:58-80):
\* no row is in two pages, and a row that was listed when the first page was read and did
\* not change since is shown once the walk has passed it, unless a row with the same
\* created_at is shown instead.  The code does skip those: all decisions of one batch have
\* one created_at.
PagesComplete ==
    screen = "loaded" =>
      /\ \A i, j \in DOMAIN walk.pages : i # j => walk.pages[i] \cap walk.pages[j] = {}
      /\ \A s \in walk.start :
           /\ row[s[1]].v = s[2]
           /\ walk.more => row[s[1]].at >= walk.cursor
           => \E r \in Shown : r = s[1] \/ row[r].at = row[s[1]].at
=============================================================================
