----------------------------- MODULE Artifacts ------------------------------
(***************************************************************************)
(* frontend/src/components/Artifact.tsx: how the fenced artifacts of an    *)
(* answer are taken out of its text, and which of them React can render.   *)
(*                                                                         *)
(* The text is lines of module Markdown; a line of kind json is one whole  *)
(* JSON value.  An artifact is the fields its component reads, and each of *)
(* them may hold anything: the model has written it.                       *)
(***************************************************************************)
EXTENDS Markdown

-----------------------------------------------------------------------------
(* parseArtifacts *)

\* The first fenced artifact from line i on: its fences, if it has both.  Any
\* fence ends it, that of another artifact too.
Opening(lines, i) == FirstFrom(lines, i, LAMBDA j : lines[j].k = "art")
Closing(lines, i) == FirstFrom(lines, Opening(lines, i) + 1, LAMBDA j : lines[j].k \in Fences)

\* What is between the fences is one JSON value.
Parses(lines, first, last) ==
  LET within == (first + 1)..(last - 1)
  IN \E j \in within :
       lines[j].k = "json" /\ \A i \in within : i = j \/ Blank(lines[i])

\* What stays of the line of the closing fence.
Rest(line) == LineOf(IF line.k = "art" THEN "text" ELSE "blank")

\* MUTANT of Extract: a block that does not parse is taken out as well.
ExtractAll(lines) ==
  LET from[i \in 1..(Len(lines) + 1)] ==
        LET first == Opening(lines, i)
            last == Closing(lines, i)
            next == from[last + 1]
        IN IF last > Len(lines) THEN [artifacts |-> 0, text |-> SubSeq(lines, i, Len(lines))]
           ELSE [artifacts |-> next.artifacts + IF Parses(lines, first, last) THEN 1 ELSE 0,
                 text |-> SubSeq(lines, i, first - 1) \o <<Rest(lines[last])>> \o next.text]
  IN from[1]

\* The number of artifacts, and the lines without them: a block that does not
\* parse stays in the text, and the search goes on behind it.
Extract(lines) ==
  LET from[i \in 1..(Len(lines) + 1)] ==
        LET first == Opening(lines, i)
            last == Closing(lines, i)
            next == from[last + 1]
        IN IF last > Len(lines) THEN [artifacts |-> 0, text |-> SubSeq(lines, i, Len(lines))]
           ELSE IF Parses(lines, first, last)
           THEN [artifacts |-> next.artifacts + 1,
                 text |-> SubSeq(lines, i, first - 1) \o <<Rest(lines[last])>> \o next.text]
           ELSE [next EXCEPT !.text = SubSeq(lines, i, last) \o @]
  IN from[1]

\* trim: no blank lines around the text, no space before or after it.
Trimmed(lines) ==
  LET stem == Stem(Reverse(Stem(Reverse(lines))))
      bare(line) == [line EXCEPT !.k = IF @ \in Unfinished THEN "text" ELSE @]
  IN [i \in DOMAIN stem |->
        [(IF i = Len(stem) THEN bare(stem[i]) ELSE stem[i]) EXCEPT !.indent = @ /\ i > 1]]

RemainingContent(lines) ==
  LET text == Extract(lines).text IN IF text = lines THEN lines ELSE Trimmed(text)

-----------------------------------------------------------------------------
(* The components *)

\* What a field for a list may hold: a list that is empty, full of objects as
\* they should be, or has a null in it (nulls) or an object with another in place
\* of a text, or the icon "constructor", which all objects have (unfit); or
\* no list: nothing, null, another value that is falsy, one that has no length
\* (odd), or one that has (long: a text).
Lists == {"absent", "null", "falsy", "empty", "full", "nulls", "unfit", "odd", "long"}
Falsy == {"absent", "null", "falsy"}
Filled == {"full", "nulls", "unfit", "long"}

\* What .map over the elements throws for, with an element rendered in it.
MapThrows(list) == list \in {"nulls", "unfit", "odd", "long"}

\* The same with a question mark before it.
MapIfAnyThrows(list) == list = "falsy" \/ MapThrows(list)

\* TableBlock: the defaults are for absent lists only; the columns are not
\* looked at when there are no rows, and a cell is made a text whatever it is.
TableThrows(columns, rows) ==
  \/ rows = "null"
  \/ rows \in Filled /\ (columns = "null" \/ columns \in Filled \ {"full"})
  \/ rows \in {"nulls", "long"} /\ columns = "full"

\* ChartBlock asks for a first point before it looks for its keys; only a pie
\* maps the points itself, and does not look at them.
PieThrows(data) == data \in {"odd", "long"}

\* A section without its lists is shown as text.
ShownAsText(a) ==
  CASE a.section \in {"metrics", "chart", "pie"} -> a.list \in Falsy
    [] a.section = "table" -> a.columns \in Falsy \/ a.rows \in Falsy
    [] OTHER -> TRUE

\* ReportSectionBlock; React refuses an object as a child.
SectionThrows(a) ==
  IF ShownAsText(a) THEN a.object = "content"
  ELSE \/ a.section = "metrics" /\ MapThrows(a.list)
       \/ a.section = "pie" /\ PieThrows(a.list)
       \/ a.section = "table" /\ TableThrows(a.columns, a.rows)

\* Artifact, and the key that ChatPanel gives it: its heading, then its type.
Throws(a) ==
  \/ a.type = "null" \/ a.object = "title"
  \/ a.type = "table" /\ TableThrows(a.columns, a.rows)
  \/ a.type = "metric-cards" /\ MapIfAnyThrows(a.list)
  \/ a.type = "pie" /\ PieThrows(a.list)
  \/ a.type = "report" /\ IF a.section = "none" THEN MapIfAnyThrows(a.list)
                           ELSE SectionThrows(a)

\* The JSON values that tell the components apart: a report has the list of
\* its sections or one section with the lists in it.  An object may be in place
\* of the title, subtitle or description, or of the content of a section (the
\* title of a section is in the list of them).  A "pie" is a chart of that type.
Plain(type, section, list) ==
  [type |-> type, section |-> section, columns |-> "absent", rows |-> "absent",
   list |-> list, object |-> "none"]
Tables(type, section) ==
  {[Plain(type, section, "absent") EXCEPT !.columns = c, !.rows = r] : c \in Lists, r \in Lists}

Sections ==
  {Plain("report", section, l) : section \in {"metrics", "chart", "pie", "text"}, l \in Lists}
  \cup Tables("report", "table")

Shapes ==
  {Plain(type, "none", l) : type \in {"chart", "pie", "metric-cards", "report"}, l \in Lists}
  \cup {Plain(type, "none", "absent") : type \in {"null", "raw"}}
  \cup Tables("table", "none") \cup Sections
  \cup {[Plain(type, "none", "full") EXCEPT !.object = "title"] :
           type \in {"chart", "pie", "metric-cards", "report", "table", "raw"}}
  \cup {[a EXCEPT !.object = "content"] : a \in Sections}

\* What docs/ARTIFACT_SCHEMA.md and the interface ArtifactData call an artifact.
Conforms(a) ==
  /\ a.type # "null" /\ a.object = "none"
  /\ {a.columns, a.rows, a.list} \subseteq {"absent", "empty", "full"}
=============================================================================
