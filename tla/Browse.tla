------------------------------- MODULE Browse -------------------------------
(***************************************************************************)
(* The terminal viewer (cmd/eideticd-browse/main.go): one model that       *)
(* Update changes, one message at a time.  A query runs beside it and its  *)
(* answer is a message; so is the end of a debounce timer.  Neither can be *)
(* called back, and nothing orders the answers of two queries.             *)
(*                                                                         *)
(* Writers come between queries, so an answer may have any length up to    *)
(* the limit: a list is the query it answers, and a length.                *)
(***************************************************************************)
EXTENDS Integers, FiniteSets

CONSTANTS
  SurfaceCount, \* surface filters: 4, of which 0 is all surfaces
  Texts,        \* what the input boxes may hold
  Blank,        \* one of them: nothing but spaces
  Limit,        \* most engrams of an answer: 50
  MaxScroll,    \* bounds: lines scrolled,
  MaxQueries,   \*   queries issued,
  MaxTyped      \*   keystrokes in the search box

ASSUME BrowseAssumption ==
  /\ SurfaceCount \in Nat \ {0} /\ IsFiniteSet(Texts) /\ Blank \in Texts
  /\ Limit \in Nat /\ MaxScroll \in Nat /\ MaxQueries \in Nat /\ MaxTyped \in Nat

VARIABLES
  view, surface,      \* what is shown
  list, length,       \* the query that the list answers, and the list's length
  selected,           \* the cursor in the list
  open, scroll,       \* the detail pane
  failing,            \* the last answer was an error, and hides the list
  input, askInput,    \* the input boxes
  typed,              \* when the search box last changed: the number of the keystroke
  timers,             \* debounce timers that have not ended
  searched,           \* what a timer last asked for
  loads,              \* queries that have not been answered
  issued              \* the last query issued and its number

browseVars == <<view, surface, list, length, selected, open, scroll, failing, input, askInput,
                typed, timers, searched, loads, issued>>

Recent == [kind |-> "recent", surface |-> surface, text |-> Blank]
Hits(text) == [kind |-> "search", surface |-> surface, text |-> text]

\* newModel: the first list is loaded before the program runs.
BrowseInit ==
  /\ view = "recent" /\ surface = 0
  /\ list = Recent /\ length \in 0..Limit /\ selected = 0
  /\ open = FALSE /\ scroll = 0
  /\ failing \in BOOLEAN /\ (failing => length = 0)
  /\ input = Blank /\ askInput = Blank
  /\ typed = 0 /\ timers = {} /\ searched = Blank
  /\ loads = {} /\ issued = [query |-> Recent, nr |-> 0]

shown == <<list, length, failing>>
boxes == <<input, askInput, typed, timers, searched>>

Issue(q) ==
  /\ issued.nr < MaxQueries
  /\ issued' = [query |-> q, nr |-> issued.nr + 1]
  /\ loads' = loads \cup {issued'}

NoQuery == UNCHANGED <<loads, issued>>

(***************************************************************************)
(* Keys.                                                                   *)
(***************************************************************************)
\* The detail pane takes every key.
DetailKey ==
  /\ open
  /\ \/ open' = FALSE /\ scroll' = 0
     \/ scroll < MaxScroll /\ scroll' = scroll + 1 /\ UNCHANGED open
     \/ scroll > 0 /\ scroll' = scroll - 1 /\ UNCHANGED open
  /\ UNCHANGED <<view, surface, shown, selected, boxes, loads, issued>>

\* 1, 2 and 3; / and ? of Recent; esc of Search and Ask.  Only 1 asks anew.
SwitchView(v) ==
  /\ ~ open
  /\ view' = v
  /\ \/ v = "recent" /\ Issue(Recent)
     \/ (v = "recent" => view # "recent") /\ NoQuery
  /\ UNCHANGED <<surface, shown, selected, open, scroll, boxes>>

Move ==
  /\ ~ open
  /\ \/ selected < length - 1 /\ selected' = selected + 1
     \/ selected > 0 /\ selected' = selected - 1
  /\ UNCHANGED <<view, surface, shown, open, scroll, boxes, loads, issued>>

Enter ==
  /\ ~ open /\ view \in {"recent", "search"} /\ length > 0
  /\ open' = TRUE
  /\ UNCHANGED <<view, surface, shown, selected, scroll, boxes, loads, issued>>

CycleSurface ==
  /\ ~ open /\ view = "recent"
  /\ surface' = (surface + 1) % SurfaceCount
  /\ selected' = 0
  /\ Issue([Recent EXCEPT !.surface = surface'])
  /\ UNCHANGED <<view, shown, open, scroll, boxes>>

\* A variant for comparison: a timer that runs already serves.
TypeOnce(text) ==
  /\ ~ open /\ view = "search" /\ typed < MaxTyped
  /\ input' = text
  /\ typed' = typed + 1
  /\ timers' = IF timers = {} THEN {typed'} ELSE timers
  /\ UNCHANGED <<view, surface, shown, selected, open, scroll, askInput, searched, loads, issued>>

\* A rune, a space or a backspace in Search, and a timer for it.
Type(text) ==
  /\ ~ open /\ view = "search" /\ typed < MaxTyped
  /\ input' = text
  /\ typed' = typed + 1
  /\ timers' = timers \cup {typed'}
  /\ UNCHANGED <<view, surface, shown, selected, open, scroll, askInput, searched, loads, issued>>

TypeAsk(text) ==
  /\ ~ open /\ view = "ask"
  /\ askInput' = text
  /\ UNCHANGED <<view, surface, shown, selected, open, scroll, input, typed, timers, searched,
                 loads, issued>>

EnterAsk ==
  /\ ~ open /\ view = "ask" /\ askInput # Blank
  /\ Issue([Hits(askInput) EXCEPT !.kind = "ask"])
  /\ UNCHANGED <<view, surface, shown, selected, open, scroll, boxes>>

(***************************************************************************)
(* Other messages, also while the detail pane is open.                     *)
(***************************************************************************)
\* debouncedSearchMsg: dropped if another keystroke has come since.
TimerEnds(t) ==
  /\ t \in timers
  /\ timers' = timers \ {t}
  /\ IF t = typed
       THEN Issue(IF input = Blank THEN Recent ELSE Hits(input)) /\ searched' = input
       ELSE NoQuery /\ UNCHANGED searched
  /\ UNCHANGED <<view, surface, shown, selected, open, scroll, input, askInput, typed>>

\* engramsLoadedMsg
Loaded(l) ==
  /\ l \in loads
  /\ loads' = loads \ {l}
  /\ list' = l.query /\ length' \in 0..Limit /\ failing' = FALSE
  /\ selected' = IF selected >= length' THEN 0 ELSE selected
  /\ UNCHANGED <<view, surface, open, scroll, boxes, issued>>

\* An error, or three seconds: the list stays.
LoadFails(l) ==
  /\ l \in loads
  /\ loads' = loads \ {l}
  /\ failing' = TRUE
  /\ UNCHANGED <<view, surface, list, length, selected, open, scroll, boxes, issued>>

BrowseNext ==
  \/ DetailKey \/ Move \/ Enter \/ CycleSurface \/ EnterAsk
  \/ \E v \in {"recent", "search", "ask"} : SwitchView(v)
  \/ \E text \in Texts : Type(text) \/ TypeAsk(text)
  \/ \E t \in timers : TimerEnds(t)
  \/ \E l \in loads : Loaded(l) \/ LoadFails(l)

---------------------------------------------------------------------------
\* "debounced search": when the timer of the last keystroke has ended, all that
\* was typed has been searched for, in whatever order the timers end.
SearchSettles == typed \in timers \/ searched = input

\* What the code does not keep: when every query has been answered, the list
\* is the answer of the last.  An older answer may come later.
NewestShown == loads = {} /\ ~ failing => list = issued.query

\* "Recent: last 50 engrams across the active surface filter": esc shows what
\* was searched before.
RecentIsRecent == view = "recent" /\ loads = {} /\ ~ failing => list.kind = "recent"

\* The pane shows the engram it was opened for until it is closed: an answer
\* that arrives meanwhile puts another in its place.
DetailStays == [][open /\ open' => list' = list]_browseVars
=============================================================================
