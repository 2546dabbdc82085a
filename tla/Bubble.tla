------------------------------- MODULE Bubble -------------------------------
(***************************************************************************)
(* One answer on screen: ChatPanel.tsx renders the text of a message with  *)
(* MarkdownContent whenever a token has come, and when the stream is over  *)
(* takes its artifacts out and renders them too (modules Markdown and      *)
(* Artifacts).  The browser has one thread: a parser that does not return  *)
(* ends everything, and so does a component that throws.                   *)
(***************************************************************************)
EXTENDS Artifacts

CONSTANTS
  Lines,     \* the lines an answer is made of
  MaxLines   \* bound: lines of an answer

VARIABLES
  content,      \* the lines that have come
  isStreaming,
  artifact      \* what the JSON in it says, a Shape, once the stream is over

vars == <<content, isStreaming, artifact>>

Unknown == Plain("raw", "none", "absent")

Init == content = <<>> /\ isStreaming = TRUE /\ artifact = Unknown

\* The text given to MarkdownContent.
Shown == IF isStreaming THEN content ELSE RemainingContent(content)
Artifacts == IF isStreaming THEN 0 ELSE Extract(content).artifacts

Frozen == Hangs(Shown)
Crashed == Artifacts > 0 /\ Throws(artifact)

Token(line) ==
  /\ isStreaming /\ ~Frozen /\ Len(content) < MaxLines
  /\ content' = Append(content, line)
  /\ UNCHANGED <<isStreaming, artifact>>

\* All JSON in one answer is taken to say the same.
Done ==
  /\ isStreaming /\ ~Frozen /\ isStreaming' = FALSE
  /\ artifact' \in IF Extract(content).artifacts > 0 THEN Shapes ELSE {Unknown}
  /\ UNCHANGED content

Next == (\E line \in Lines : Token(line)) \/ Done

-----------------------------------------------------------------------------
(* Properties *)

TypeOK == content \in Seq(Lines) /\ isStreaming \in BOOLEAN /\ artifact \in Shapes

\* "On token: append message to the current response buffer, render
\* incrementally" (docs/ARTIFACT_SCHEMA.md:199): the renderer returns.
RendersIncrementally == ~Frozen

\* Only an item with nothing after its mark, or a number that is indented at
\* the start, stops the renderer.
OnlyUnfinishedStops ==
  Frozen => \E i \in DOMAIN content : \/ content[i].k \in Unfinished
                                      \/ content[i].k = "num" /\ content[i].indent

\* A block that is followed by another one stays as it is while more lines
\* come.
SettledStays ==
  ~Frozen /\ isStreaming /\ content # <<>> /\ Blocks(Front(content)) # <<>>
    => IsPrefix(Front(Blocks(Front(content))), Blocks(content))

Count(s, kind) == Cardinality({i \in DOMAIN s : s[i].k = kind})

\* Each line of JSON is shown, as an artifact or in the text, and each line of
\* text and heading in the text; an artifact that is as the schema says is
\* rendered, whatever lists it lacks.  One that is not may take the panel down.
ArtifactsAreShown ==
  ~isStreaming =>
    /\ Count(content, "json") = Artifacts + Count(Shown, "json")
    /\ \A kind \in {"text", "head"} : Count(content, kind) <= Count(Shown, kind)
    /\ Crashed => ~Conforms(artifact)
=============================================================================
