------------------------------ MODULE Markdown ------------------------------
(***************************************************************************)
(* frontend/src/components/MarkdownContent.tsx: how the text of a message  *)
(* becomes blocks.                                                         *)
(*                                                                         *)
(* A line is what the parser can tell of it: its kind, and whether it is   *)
(* indented, by one space (a list mark after two or more is moved to the   *)
(* margin even at the start of the text).  Kinds:                          *)
(*   text, blank, head                                                     *)
(*   mid      text with a list mark inside: rate(a) - rate(b)              *)
(*   num      "1. first"            num0     "1. " with nothing after it   *)
(*   bullet   "- one"               bullet0  "- "          dash   "-"      *)
(*   fence    "```"                 art      "```artifact"                 *)
(*   json     a line of JSON, which is text here                           *)
(***************************************************************************)
EXTENDS SequencesExt, Naturals

Kinds == {"text", "blank", "head", "mid", "num", "num0", "bullet", "bullet0", "dash",
          "fence", "art", "json"}
Numbers == {"num", "num0"}
Bullets == {"bullet", "bullet0"}
Unfinished == {"num0", "bullet0"}
Fences == {"fence", "art"}

LineOf(kind) == [k |-> kind, indent |-> FALSE]

\* The first index of s from i on that satisfies P, or the end.
FirstFrom(s, i, P(_)) == Min({j \in i..Len(s) : P(j)} \cup {Len(s) + 1})

-----------------------------------------------------------------------------
(* normalizeContent *)

\* Without its blank end.
Stem(s) == SubSeq(s, 1, Max({0} \cup {i \in DOMAIN s : s[i].k # "blank"}))

\* A mark that loses the space after it is text; a dash before the end of a
\* line still is a mark for the next pass.
Shorn(line) ==
  CASE line.k = "num0" -> [line EXCEPT !.k = "text"]
    [] line.k = "bullet0" -> [line EXCEPT !.k = "dash"]
    [] OTHER -> line

\* The next line of a pass over the marks.  The expression wants a character
\* before the white space before a mark, and takes the white space away: the
\* blank lines, the indentation, the last space of an unfinished item.  It has
\* none at the start of the text, nor where its last match (spent) has ended.
Anchor(acc, line, marks) ==
  LET stem == Stem(acc.out)
  IN CASE line.k \in marks /\ stem # <<>> /\ ~acc.spent ->
            [out |-> Append(Append(Front(stem), Shorn(Last(stem))), LineOf(line.k)),
             spent |-> line.k \in Unfinished \cup {"dash"}]
       [] line.k = "mid" /\ "bullet" \in marks ->
            [out |-> acc.out \o <<[line EXCEPT !.k = "text"], LineOf("bullet")>>,
             spent |-> FALSE]
       [] OTHER -> [out |-> Append(acc.out, line),
                    spent |-> acc.spent /\ line.k = "blank"]

Pass(lines, marks) ==
  LET upTo[i \in 0..Len(lines)] ==
        IF i = 0 THEN [out |-> <<>>, spent |-> FALSE]
        ELSE Anchor(upTo[i - 1], lines[i], marks)
  IN upTo[Len(lines)].out

Normalize(lines) == Pass(Pass(lines, Numbers), Bullets \cup {"dash"})

-----------------------------------------------------------------------------
(* parseMarkdown *)

Blank(line) == line.k = "blank"
AtMargin(line, kinds) == line.k \in kinds /\ ~line.indent

\* The list goes on: a number at the margin, an indented bullet after one,
\* blank lines before a number at the margin.
Continues(n, i, j) ==
  \/ AtMargin(n[j], Numbers)
  \/ j > i /\ n[j].k \in Bullets /\ n[j].indent
  \/ /\ Blank(n[j])
     /\ LET next == FirstFrom(n, j, LAMBDA k : ~Blank(n[k]))
        IN next <= Len(n) /\ AtMargin(n[next], Numbers)

\* A paragraph ends before what may begin something else.
EndsParagraph(line) ==
  Blank(line) \/ AtMargin(line, Numbers \cup Bullets \cup Fences \cup {"head"})

\* Where the loop goes on after the block that begins at i.  What begins a
\* list is a trimmed line, what continues or ends one is not.
After(n, i) ==
  CASE n[i].k \in Fences -> FirstFrom(n, i + 1, LAMBDA j : n[j].k \in Fences) + 1
    [] AtMargin(n[i], {"blank", "head"}) -> i + 1
    [] n[i].k = "num" -> FirstFrom(n, i, LAMBDA j : ~Continues(n, i, j))
    [] n[i].k = "bullet" -> FirstFrom(n, i, LAMBDA j : n[j].k # "bullet")
    [] OTHER -> FirstFrom(n, i, LAMBDA j : EndsParagraph(n[j]))

Block(kind, lines) == [kind |-> kind, lines |-> lines]
Hang == Block("hang", <<>>)

\* The blocks of normalized lines; a block that takes no line is made for ever.
Parse(n) ==
  LET from[i \in 1..(Len(n) + 2)] ==
        IF i > Len(n) THEN <<>>
        ELSE IF Blank(n[i]) THEN from[i + 1]
        ELSE IF After(n, i) = i THEN <<Hang>>
        ELSE <<Block(n[i].k, SubSeq(n, i, Min({After(n, i) - 1, Len(n)})))>>
             \o from[After(n, i)]
  IN from[1]

Blocks(lines) == Parse(Normalize(lines))
Hangs(lines) == Contains(Blocks(lines), Hang)
=============================================================================
