--------------------------- MODULE ContextPicker ----------------------------
(***************************************************************************)
(* The context a user picks for a message: hooks/useContextSearch.ts,      *)
(* components/ContextPicker.tsx and ContextChips.tsx, and the parts of     *)
(* ChatPanel.tsx that open the picker on "@", keep the chips and send      *)
(* them.                                                                   *)
(*                                                                         *)
(* The picker stays mounted while it is closed; the effect that searches   *)
(* runs with the change of the tab, the query or open that it depends on.  *)
(* sendMessage is remade when isLoading, sessionId or dashboardContext     *)
(* changes, not when the chips do: it sends the chips it was made with.    *)
(***************************************************************************)
EXTENDS SequencesExt, Integers

CONSTANTS
  None,
  Hits,     \* Hits[<<tab, query>>]: the entities the server finds
  FirstTab, \* the tab the picker starts with
  MaxMoves  \* bound: what the user does

Blank == ""
Keys == DOMAIN Hits
EntityTabs == {key[1] : key \in Keys}
Queries == {key[2] : key \in Keys}
Entities == UNION {ToSet(Hits[key]) : key \in Keys}

VARIABLES
  open, tab, query,   \* the picker
  highlight,          \* highlightIndex, from 0, -1 after an arrow in an empty list
  results, loading,   \* useContextSearch
  timer,              \* what the debounce timer will ask for
  inflight,           \* searches the server has not answered
  cache,              \* cacheRef
  chips,              \* selectedContext
  captured,           \* selectedContext as sendMessage sees it
  isLoading, known,   \* a message is being answered; the session has an id
  moves,
  last,               \* history: the last message: its chips, what it carried,
                      \* and what had been picked for it
  picked,             \* history: entities picked since
  overtaken           \* history: the results came after a change of the search

searchVars == <<results, loading, timer, overtaken>>
pickerVars == <<open, tab, query, highlight>>
chatVars == <<chips, captured, isLoading, known, last, picked>>
vars == <<pickerVars, searchVars, inflight, cache, chatVars, moves>>

Init ==
  /\ open = FALSE /\ tab = FirstTab /\ query = Blank /\ highlight = 0
  /\ results = <<>> /\ loading = FALSE /\ timer = None /\ inflight = <<>>
  /\ cache = [key \in {} |-> <<>>]
  /\ chips = {} /\ captured = {} /\ isLoading = FALSE /\ known = FALSE
  /\ moves = 0 /\ picked = {} /\ overtaken = FALSE
  /\ last = [chips |-> {}, carried |-> {}, picked |-> {}]

Move == moves < MaxMoves /\ moves' = moves + 1

-----------------------------------------------------------------------------
(* useContextSearch *)

\* MUTANT of Key: the cache forgets the tab.
KeyOfQuery(t, q) == <<FirstTab, q>>

\* cacheKey
Key(t, q) == <<t, q>>

\* search, with the spinner on or off before it.  A cached answer drops the
\* timer and leaves the spinner as it is.
Search(t, q, spinning) ==
  IF Key(t, q) \in DOMAIN cache
  THEN /\ results' = cache[Key(t, q)] /\ overtaken' = FALSE
       /\ loading' = spinning /\ timer' = None
  ELSE /\ loading' = TRUE /\ timer' = <<t, q>>
       /\ UNCHANGED <<results, overtaken>>

\* The timer goes off.
Ask ==
  /\ timer # None
  /\ inflight' = Append(inflight, timer) /\ timer' = None
  /\ UNCHANGED <<pickerVars, results, loading, overtaken, cache, chatVars, moves>>

\* A search is answered, or has failed; nothing puts the answers in order.
Answered(i, found) ==
  LET asked == inflight[i]
  IN /\ inflight' = RemoveAt(inflight, i)
     /\ results' = IF found THEN Hits[asked] ELSE <<>>
     /\ cache' = IF found
                 THEN [key \in DOMAIN cache \cup {Key(asked[1], asked[2])} |->
                         IF key = Key(asked[1], asked[2]) THEN Hits[asked] ELSE cache[key]]
                 ELSE cache
     /\ loading' = FALSE /\ overtaken' = (asked # <<tab, query>>)
  /\ UNCHANGED <<pickerVars, timer, chatVars, moves>>

-----------------------------------------------------------------------------
(* ContextPicker *)

\* "@" in the message opens it.
Open ==
  /\ Move /\ ~open /\ open' = TRUE /\ highlight' = 0
  /\ Search(tab, query, loading)
  /\ UNCHANGED <<tab, query, inflight, cache, chatVars>>

\* Escape, or a click outside.
Close ==
  /\ open /\ open' = FALSE
  /\ UNCHANGED <<tab, query, highlight, searchVars, inflight, cache, chatVars, moves>>

Type(q) ==
  /\ Move /\ open /\ q # query /\ query' = q /\ highlight' = 0
  /\ Search(tab, q, loading)
  /\ UNCHANGED <<open, tab, inflight, cache, chatVars>>

\* handleTabChange.  A click on the tab that is open, with no query, changes
\* nothing the effect depends on: the list stays empty.
ChangeTab(t) ==
  /\ Move /\ open /\ tab' = t /\ query' = Blank /\ highlight' = 0
  /\ IF <<t, Blank>> = <<tab, query>>
     THEN results' = <<>> /\ loading' = FALSE /\ overtaken' = FALSE /\ UNCHANGED timer
     ELSE IF Key(t, Blank) \in DOMAIN cache
     THEN Search(t, Blank, FALSE)
     ELSE /\ results' = <<>> /\ overtaken' = FALSE
          /\ loading' = TRUE /\ timer' = <<t, Blank>>
  /\ UNCHANGED <<open, inflight, cache, chatVars>>

Arrow(step) ==
  /\ open
  /\ highlight' = IF step = 1 THEN Min({highlight + 1, Len(results) - 1})
                  ELSE Max({highlight - 1, 0})
  /\ highlight' # highlight
  /\ UNCHANGED <<open, tab, query, searchVars, inflight, cache, chatVars, moves>>

\* handleContextSelect
Select(entity) ==
  /\ chips' = chips \cup {entity} /\ picked' = picked \cup {entity} /\ open' = FALSE
  /\ UNCHANGED <<tab, query, highlight, searchVars, inflight, cache,
                 captured, isLoading, known, last>>

Pick(i) == Move /\ open /\ i \in DOMAIN results /\ Select(results[i])

\* The spinner hides the results.
Click(i) == ~loading /\ Pick(i)

\* It does not ask whether they are hidden.
Enter == Pick(highlight + 1)

-----------------------------------------------------------------------------
(* ChatPanel *)

\* handleContextRemove
RemoveChip(entity) ==
  /\ Move /\ entity \in chips /\ chips' = chips \ {entity}
  /\ UNCHANGED <<pickerVars, searchVars, inflight, cache, captured, isLoading, known, last, picked>>

\* The chips sendMessage sees once isLoading has changed, which it depends on.
Seen(shown) == shown

\* sendMessage: isLoading and the empty chips come with one render.
Send ==
  /\ Move /\ ~isLoading /\ isLoading' = TRUE
  /\ last' = [chips |-> chips, carried |-> captured, picked |-> picked]
  /\ chips' = {} /\ captured' = Seen({}) /\ picked' = {}
  /\ UNCHANGED <<pickerVars, searchVars, inflight, cache, known>>

\* sendMessage is remade: the session gets its id, the answer ends, or App
\* has a new dashboardContext.
Remake(shown) ==
  /\ captured' = shown
  /\ UNCHANGED <<pickerVars, searchVars, inflight, cache, chips, last, picked, moves>>

Started == isLoading /\ ~known /\ known' = TRUE /\ UNCHANGED isLoading /\ Remake(chips)
Finished == isLoading /\ isLoading' = FALSE /\ UNCHANGED known /\ Remake(Seen(chips))
ContextChanges == captured # chips /\ UNCHANGED <<isLoading, known>> /\ Remake(chips)

Arrive == \E i \in DOMAIN inflight, found \in BOOLEAN : Answered(i, found)

Next ==
  \/ Ask \/ Arrive
  \/ Open \/ Close
  \/ \E q \in Queries : Type(q)
  \/ \E t \in EntityTabs : ChangeTab(t)
  \/ \E step \in {1, -1} : Arrow(step)
  \/ \E i \in DOMAIN results : Click(i)
  \/ Enter
  \/ \E entity \in chips : RemoveChip(entity)
  \/ Send \/ Started \/ Finished \/ ContextChanges

\* The timer goes off, and requests have an end.
Proceed == Ask \/ Arrive \/ Finished

AtRest == timer = None /\ inflight = <<>> /\ ~isLoading

-----------------------------------------------------------------------------
(* Properties *)

Lists == {Hits[key] : key \in Keys} \cup {<<>>}

TypeOK ==
  /\ open \in BOOLEAN /\ tab \in EntityTabs /\ query \in Queries /\ highlight \in Int
  /\ results \in Lists /\ loading \in BOOLEAN /\ timer \in Keys \cup {None}
  /\ inflight \in Seq(Keys) /\ DOMAIN cache \subseteq Keys
  /\ {chips, captured, picked, last.chips, last.carried, last.picked} \subseteq SUBSET Entities
  /\ {isLoading, known, overtaken} \subseteq BOOLEAN /\ moves \in 0..MaxMoves

Asked == <<tab, query>>

TimerIsAsked == timer \in {None, Asked}
ListIsAsked == ~loading /\ ~overtaken => results \in {<<>>, Hits[Asked]}
SpinnerHidesKnown ==
  loading /\ timer = None /\ inflight = <<>> /\ ~overtaken => results = Hits[Asked]

\* The picker searches for what its tab and its field say: the timer is never
\* one of an earlier query, a list it shows is the answer to this one unless
\* an earlier answer came late, and a spinner that waits for nothing hides
\* the cached answer (it stays until the query changes).
ShowsItsSearch == TimerIsAsked /\ ListIsAsked /\ SpinnerHidesKnown

\* What a message carries was picked for it, after the message before it.
CarriesItsOwn == last.carried \subseteq last.picked

\* "Pass selected context in API request payload": a message carries the
\* chips that were shown when it was sent.
SendsSelection == last.carried = last.chips
=============================================================================
