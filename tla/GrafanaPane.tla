---------------------------- MODULE GrafanaPane -----------------------------
(***************************************************************************)
(* frontend/src/App.tsx: Grafana in an iframe beside the chat, a poll that *)
(* turns its URL into the context of the next message, and the links the   *)
(* assistant opens in it.                                                  *)
(*                                                                         *)
(* A URL is the segments of its path with the query parameters that        *)
(* matter: the time range, the template variables, and the panes of        *)
(* Explore, None when there are none or they are not JSON.  The pane is    *)
(* mounted for good, so isMounted is always true.                          *)
(***************************************************************************)
EXTENDS SequencesExt

CONSTANTS
  None,
  Base,       \* the base path the server put into the page, as segments
  Pages,      \* what Grafana can show, as under an empty base path
  MaxVisits   \* bound: pages the user or the assistant opens

Foreign == [path |-> <<>>, time |-> None, variables |-> None, panes |-> None]

VARIABLES
  src,           \* the src attribute of the iframe
  page,          \* the page in it, Foreign when its URL may not be read
  lastUrl,       \* lastUrlRef: the URL of the last poll
  fetching,      \* dashboard summaries on their way
  context,       \* dashboardContext
  lastNavigate,  \* lastNavigateRef: the last link of a tool result
  visits,
  newest,        \* history: the last polled URL that has a context
  behind         \* history: the context is of a page that was left before it came

vars == <<src, page, lastUrl, fetching, context, lastNavigate, visits, newest, behind>>

-----------------------------------------------------------------------------
(* utils/basePath.ts *)

WithBasePath(path) == IF IsPrefix(Base, path) THEN path ELSE Base \o path

\* The URL of a page, and the page an empty pane starts with.
At(u) == [u EXCEPT !.path = Base \o @]
Start == [Foreign EXCEPT !.path = WithBasePath(<<"grafana">>)]
Urls == {Start} \cup {At(u) : u \in Pages}

-----------------------------------------------------------------------------
(* utils/dashboard.ts *)

\* The segment after the first "d" that is not the last one.
IsDashboard(u) == \E i \in 1..(Len(u.path) - 1) : u.path[i] = "d"
Uid(u) == u.path[1 + CHOOSE i \in DOMAIN u.path :
                       /\ u.path[i] = "d" /\ i < Len(u.path)
                       /\ \A j \in 1..(i - 1) : u.path[j] # "d"]

IsExplore(u) == Contains(u.path, "explore") /\ u.panes # None

\* The first of the panes' values that is not empty.
First(s) == LET given == SelectSeq(s, LAMBDA x : x # None)
            IN IF given = <<>> THEN None ELSE given[1]

Field(panes, f) == [i \in DOMAIN panes |-> panes[i][f]]

-----------------------------------------------------------------------------
(* updateContextFromUrl *)

\* What the panel knows of a dashboard; without a summary it has no title.
DashboardContext(u, summary) ==
  [uid |-> Uid(u), named |-> summary, time |-> u.time, variables |-> u.variables,
   datasource |-> None, queries |-> <<>>]

ExploreContext(u) ==
  [uid |-> None, named |-> TRUE, time |-> First(Field(u.panes, "time")),
   variables |-> None, datasource |-> First(Field(u.panes, "datasource")),
   queries |-> FlattenSeq(Field(u.panes, "queries"))]

Init ==
  /\ src = Start /\ page = Start /\ lastUrl = None
  /\ fetching = <<>> /\ context = None /\ lastNavigate = None
  /\ visits = 0 /\ newest = None /\ behind = FALSE

\* The URL the poll reads: that of the iframe itself when the page is foreign.
Read == IF page = Foreign THEN src ELSE page

Late == [i \in DOMAIN fetching |-> [fetching[i] EXCEPT !.late = TRUE]]

Poll ==
  /\ Read # lastUrl
  /\ lastUrl' = Read
  /\ CASE IsDashboard(Read) ->
            /\ fetching' = Append(Late, [url |-> Read, late |-> FALSE])
            /\ newest' = Read
            /\ UNCHANGED <<context, behind>>
       [] ~IsDashboard(Read) /\ IsExplore(Read) ->
            /\ context' = ExploreContext(Read)
            /\ fetching' = Late /\ newest' = Read /\ behind' = FALSE
       [] OTHER -> UNCHANGED <<fetching, context, newest, behind>>
  /\ UNCHANGED <<src, page, lastNavigate, visits>>

\* MUTANT of Fetched: a dashboard the server has no summary of is passed over.
FetchedIfKnown(i, summary) ==
  /\ context' = IF summary THEN DashboardContext(fetching[i].url, summary) ELSE context
  /\ behind' = fetching[i].late
  /\ fetching' = RemoveAt(fetching, i)
  /\ UNCHANGED <<src, page, lastUrl, lastNavigate, visits, newest>>

\* A summary is there, or its request has failed.
Fetched(i, summary) ==
  /\ context' = DashboardContext(fetching[i].url, summary)
  /\ behind' = fetching[i].late
  /\ fetching' = RemoveAt(fetching, i)
  /\ UNCHANGED <<src, page, lastUrl, lastNavigate, visits, newest>>

-----------------------------------------------------------------------------
(* The user, and the links of tool results *)

Visit == visits < MaxVisits /\ visits' = visits + 1

\* The user follows a link inside Grafana, or out of it.
Browse(u) ==
  /\ Visit /\ page # u /\ page' = u
  /\ UNCHANGED <<src, lastUrl, fetching, context, lastNavigate, newest, behind>>

\* MUTANT of Resolve: a link of the server is used as it is.
ResolveAsIs(link) ==
  IF Head(link) = "grafana" \/ IsPrefix(Base \o <<"grafana">>, link) THEN link
  ELSE WithBasePath(<<"grafana">>) \o link

\* handleNavigate: the path of a link that has the base path and "grafana"
\* before it, only "grafana", or neither.
Resolve(link) ==
  CASE Base # <<>> /\ IsPrefix(Base \o <<"grafana">>, link) -> link
    [] Head(link) = "grafana" -> WithBasePath(link)
    [] OTHER -> WithBasePath(<<"grafana">>) \o link

\* A tool result has a link, with or without a prefix.  One that repeats the
\* last one, or the src the user may have left, changes nothing.
Navigate(u, link) ==
  /\ Visit /\ link # lastNavigate /\ lastNavigate' = link
  /\ LET url == [u EXCEPT !.path = Resolve(link)]
     IN IF src = url THEN UNCHANGED <<src, page>>
        ELSE src' = url /\ page' = url
  /\ UNCHANGED <<lastUrl, fetching, context, newest, behind>>

Links(u) == {Base \o u.path, u.path, Tail(u.path)}

Arrive == \E i \in DOMAIN fetching, summary \in BOOLEAN : Fetched(i, summary)

Next ==
  \/ Poll
  \/ Arrive
  \/ \E u \in Urls \cup {Foreign} : Browse(u)
  \/ \E u \in Pages : \E link \in Links(u) : Navigate(u, link)

Proceed == Poll \/ Arrive

AtRest == Read = lastUrl /\ fetching = <<>>

-----------------------------------------------------------------------------
(* Properties *)

Contexts == {DashboardContext(u, summary) : u \in {v \in Urls : IsDashboard(v)}, summary \in BOOLEAN}
  \cup {ExploreContext(u) : u \in {v \in Urls : ~IsDashboard(v) /\ IsExplore(v)}}

\* The iframe stays inside the Grafana the server proxies: src is always the
\* URL of one of its pages, below the base path, whatever form a link has.
TypeOK ==
  /\ src \in Urls /\ page \in Urls \cup {Foreign} /\ lastUrl \in Urls \cup {None}
  /\ fetching \in Seq([url : Urls, late : BOOLEAN])
  /\ context \in Contexts \cup {None}
  /\ visits \in 0..MaxVisits /\ newest \in Urls \cup {None} /\ behind \in BOOLEAN

Fits(c, u) == IF IsDashboard(u) THEN c \in {DashboardContext(u, s) : s \in BOOLEAN}
              ELSE c = ExploreContext(u)

\* The context sent with a message is that of the dashboard or the Explore
\* panes polled last, summary or not, once its summary has had its answer;
\* only an answer that comes after that of a later page can put it back.
ContextFollows ==
  (newest # None /\ ~behind /\ \A i \in DOMAIN fetching : fetching[i].late)
    => context # None /\ Fits(context, newest)
=============================================================================
