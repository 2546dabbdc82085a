----------------------------- MODULE PageProofs -----------------------------
(***************************************************************************)
(* Proofs about module Page, for any pages and base path, any entities,    *)
(* tabs, messages and chats, answers of any lines and bounds of any size:  *)
(* the Grafana pane, the context picker, the ratings and the list of       *)
(* chats, each from the invariant of its own part; module AnswerProofs has *)
(* what is proved of an answer on screen.                                  *)
(***************************************************************************)
EXTENDS AnswerProofs

-----------------------------------------------------------------------------
(* The inductive invariant, part by part *)

\* Only dashboards are fetched, and the fetch that nothing has overtaken is
\* that of the last URL with a context.
PaneInv ==
  /\ Pane!TypeOK /\ Pane!ContextFollows
  /\ \A i \in DOMAIN fetching : Pane!IsDashboard(fetching[i].url)
  /\ \A i \in DOMAIN fetching : ~fetching[i].late => fetching[i].url = newest

\* The cache has what the server finds, and what sendMessage sees was picked
\* for the next message.
PickerInv ==
  /\ Picker!TypeOK /\ Picker!ShowsItsSearch /\ Picker!CarriesItsOwn
  /\ \A key \in DOMAIN cache : cache[key] = Hits[key]
  /\ chips \subseteq picked /\ captured \subseteq picked

\* Dialogs and submissions are those of an open tab that has read the storage,
\* and what is being submitted is not marked as submitted yet.
TabOK(t) ==
  /\ state[t] = None => loaded[t] = None
  /\ loaded[t] # None \/ state[t] = None => modal[t] = None /\ submitting[t] = None
  /\ submitting[t] # None => ~state[t][submitting[t].message].submitted

\* The server has this rating of m, or m was rated again in time.
Has(m, rating) == \E i \in DOMAIN rows[m] : m \in edited \/ rows[m][i] = rating
Recorded(s) == \A m \in Messages : s[m].submitted => Has(m, s[m].rating)

\* The draft that is being submitted is what was sent, unless it was rated
\* again, and the row is there before the answer is.
SubmissionOK(t) ==
  LET s == submitting[t]
  IN s # None =>
       /\ s.message \in edited \/ state[t][s.message].rating = s.rating
       /\ s.at = "stored" => Has(s.message, s.rating)

TabInv(t) ==
  /\ TabOK(t) /\ SubmissionOK(t)
  /\ state[t] # None => Recorded(state[t])
  /\ loaded[t] # None => Recorded(loaded[t])

\* One tab at a time: what it shows is what is stored, or it is about to read
\* back what was stored before it was opened.
Alone ==
  /\ \A t, u \in Tabs : state[t] # None /\ state[u] # None => t = u
  /\ \A t \in Tabs : state[t] # None =>
       storage = state[t] /\ (loaded[t] # None => state[t] = Rating!Nothing)

RatingInv ==
  /\ Rating!TypeOK /\ Recorded(storage)
  /\ \A t \in Tabs : TabInv(t)
  /\ ~exposed => Alone
  /\ Rating!RecordedOnce

\* A chat that is listed and not stored has a deletion that succeeded and is
\* not read yet, unless it was put back.
HistoryInv ==
  /\ History!TypeOK /\ History!ListsWhatIsStored
  /\ \A c \in historyItems : c \in stored \cup returned
       \/ \E i \in DOMAIN removals : removals[i] = [chat |-> c, at |-> "removed"]

IInv == /\ PaneInv /\ Gate!TypeOK /\ PickerInv /\ BubbleInv
        /\ RatingInv /\ HistoryInv

-----------------------------------------------------------------------------
(* Sequences *)

\* RemoveAt of the community modules.
Without(s, i) == SubSeq(s, 1, i - 1) \o SubSeq(s, i + 1, Len(s))

\* The elements but the i-th.
LEMMA Remaining ==
  ASSUME NEW S, NEW s \in Seq(S), NEW i \in DOMAIN s
  PROVE  LET r == Without(s, i)
         IN /\ r \in Seq(S) /\ Len(r) = Len(s) - 1
            /\ \A k \in DOMAIN r : \E j \in DOMAIN s : r[k] = s[j]
            /\ \A j \in DOMAIN s : j # i => \E k \in DOMAIN r : r[k] = s[j]
<1>1. DOMAIN s = 1..Len(s) /\ Len(s) \in Nat /\ i \in 1..Len(s)
  BY LenProperties
<1> DEFINE front == SubSeq(s, 1, i - 1)
           back == SubSeq(s, i + 1, Len(s))
           r == Without(s, i)
<1>2. /\ front \in Seq(S) /\ Len(front) = i - 1
      /\ \A k \in 1..(i - 1) : front[k] = s[k]
  <2>1. /\ 1 \in Int /\ i - 1 \in Int /\ (IF 1 <= i - 1 THEN i - 1 - 1 + 1 ELSE 0) = i - 1
        /\ i - 1 - 1 + 1 = i - 1 /\ \A k \in 1..(i - 1) : s[k] \in S /\ 1 + k - 1 = k
    BY <1>1
  <2> QED
    BY <2>1, SubSeqProperties
<1>3. /\ back \in Seq(S) /\ Len(back) = Len(s) - i
      /\ \A k \in 1..(Len(s) - i) : back[k] = s[k + i]
  <2>1. /\ i + 1 \in Int /\ Len(s) \in Int
        /\ (IF i + 1 <= Len(s) THEN Len(s) - (i + 1) + 1 ELSE 0) = Len(s) - i
        /\ Len(s) - (i + 1) + 1 = Len(s) - i
        /\ \A k \in (i + 1)..Len(s) : s[k] \in S
        /\ \A k \in 1..(Len(s) - i) : i + 1 + k - 1 = k + i
    BY <1>1
  <2> QED
    BY <2>1, SubSeqProperties
<1> HIDE DEF front, back, r
<1>4. /\ r \in Seq(S) /\ Len(r) = Len(front) + Len(back)
      /\ \A k \in 1..(Len(front) + Len(back)) :
           r[k] = IF k <= Len(front) THEN front[k] ELSE back[k - Len(front)]
  BY <1>2, <1>3, ConcatProperties DEF front, back, r, Without
<1>5. Len(r) = Len(s) - 1 /\ DOMAIN r = 1..(Len(s) - 1)
  BY <1>1, <1>2, <1>3, <1>4, LenProperties
<1>6. \A k \in 1..(Len(s) - 1) : r[k] = IF k < i THEN s[k] ELSE s[k + 1]
  <2> SUFFICES ASSUME NEW k \in 1..(Len(s) - 1)
               PROVE  r[k] = IF k < i THEN s[k] ELSE s[k + 1]
    OBVIOUS
  <2>1. CASE k < i
    BY <2>1, <1>1, <1>2, <1>3, <1>4
  <2>2. CASE k >= i
    <3>1. k - Len(front) \in 1..(Len(s) - i) /\ (k - Len(front)) + i = k + 1
          /\ ~(k <= Len(front)) /\ k \in 1..(Len(front) + Len(back)) /\ ~(k < i)
      BY <2>2, <1>1, <1>2, <1>3
    <3>2. r[k] = back[k - Len(front)]
      BY <3>1, <1>4
    <3>3. back[k - Len(front)] = s[k + 1]
      BY <3>1, <1>3
    <3> QED
      BY <3>1, <3>2, <3>3
  <2> QED
    BY <2>1, <2>2, <1>1
<1>7. \A k \in DOMAIN r : \E j \in DOMAIN s : r[k] = s[j]
  <2> SUFFICES ASSUME NEW k \in 1..(Len(s) - 1)
               PROVE  \E j \in 1..Len(s) : r[k] = s[j]
    BY <1>1, <1>5
  <2>1. k \in 1..Len(s) /\ k + 1 \in 1..Len(s)
    BY <1>1
  <2> QED
    BY <2>1, <1>6
<1>8. \A j \in DOMAIN s : j # i => \E k \in DOMAIN r : r[k] = s[j]
  <2> SUFFICES ASSUME NEW j \in 1..Len(s), j # i
               PROVE  \E k \in 1..(Len(s) - 1) : r[k] = s[j]
    BY <1>1, <1>5
  <2>1. CASE j < i
    BY <2>1, <1>1, <1>6
  <2>2. CASE j > i
    <3>1. j - 1 \in 1..(Len(s) - 1) /\ ~(j - 1 < i) /\ (j - 1) + 1 = j
      BY <2>2, <1>1
    <3> QED
      BY <3>1, <1>6
  <2> QED
    BY <2>1, <2>2, <1>1
<1> QED
  BY <1>4, <1>5, <1>7, <1>8 DEF r

-----------------------------------------------------------------------------
(* The links of tool results *)

LEMMA PrefixElements ==
  ASSUME NEW S, NEW s \in Seq(S), NEW t \in Seq(S)
  PROVE  Pane!IsPrefix(s, t) <=> Len(s) <= Len(t) /\ \A i \in 1..Len(s) : s[i] = t[i]
<1>1. /\ Len(s) \in Nat /\ DOMAIN s = 1..Len(s) /\ s \in [1..Len(s) -> S]
      /\ Len(t) \in Nat /\ DOMAIN t = 1..Len(t) /\ t \in [1..Len(t) -> S]
  BY LenProperties
<1> SUFFICES ASSUME Len(s) <= Len(t)
             PROVE  SubSeq(s, 1, Len(s)) = SubSeq(t, 1, Len(s))
                      <=> \A i \in 1..Len(s) : s[i] = t[i]
  BY DEF Pane!IsPrefix
<1> DEFINE start == SubSeq(t, 1, Len(s))
<1>2. SubSeq(s, 1, Len(s)) = s
  BY SubSeqFull
<1>3. /\ start \in Seq(S) /\ Len(start) = Len(s)
      /\ \A i \in 1..Len(s) : start[i] = t[i]
  <2>1. /\ 1 \in Int /\ Len(s) \in Int /\ Len(s) - 1 + 1 = Len(s)
        /\ (IF 1 <= Len(s) THEN Len(s) - 1 + 1 ELSE 0) = Len(s)
        /\ \A i \in 1..Len(s) : t[i] \in S /\ 1 + i - 1 = i
    BY <1>1
  <2> QED
    BY <2>1, SubSeqProperties
<1> HIDE DEF start
<1>4. s = start <=> \A i \in 1..Len(s) : s[i] = start[i]
  BY <1>1, <1>3, SeqEqual
<1> QED
  BY <1>2, <1>3, <1>4 DEF start

\* Grafana's own path, and what paths are made of.
Root == <<"grafana">>
Segments == STRING \cup {"grafana"}

LEMMA RootProperties ==
  Root \in Seq(Segments) /\ Len(Root) = 1 /\ Root[1] = "grafana" /\ Head(Root) = "grafana"
BY DEF Root, Segments

LEMMA BaseIsPath == Base \in Seq(Segments) /\ Len(Base) \in Nat
<1>1. Base \in Seq(STRING) /\ STRING \subseteq Segments
  BY PageAssumption DEF Segments
<1>2. Base \in Seq(Segments)
  BY <1>1, SeqMonotonic
<1> QED
  BY <1>2, LenProperties

\* A path below the base path, segment by segment.
LEMMA BelowBase ==
  ASSUME NEW p \in Seq(Segments)
  PROVE  /\ Base \o p \in Seq(Segments) /\ Len(Base \o p) = Len(Base) + Len(p)
         /\ \A i \in 1..Len(Base) : (Base \o p)[i] = Base[i]
         /\ 1 <= Len(p) => (Base \o p)[Len(Base) + 1] = p[1]
<1>1. Len(p) \in Nat
  BY LenProperties
<1>2. /\ Base \o p \in Seq(Segments) /\ Len(Base \o p) = Len(Base) + Len(p)
      /\ \A i \in 1..(Len(Base) + Len(p)) :
           (Base \o p)[i] = IF i <= Len(Base) THEN Base[i] ELSE p[i - Len(Base)]
  BY BaseIsPath, ConcatProperties
<1>3. \A i \in 1..Len(Base) : i \in 1..(Len(Base) + Len(p)) /\ i <= Len(Base)
  BY <1>1, BaseIsPath
<1>4. ASSUME 1 <= Len(p)
      PROVE  /\ Len(Base) + 1 \in 1..(Len(Base) + Len(p)) /\ ~(Len(Base) + 1 <= Len(Base))
             /\ Len(Base) + 1 - Len(Base) = 1
  BY <1>1, <1>4, BaseIsPath
<1> QED
  BY <1>2, <1>3, <1>4

\* Without a base path nothing is put before a path of Grafana, with one the
\* base path is.
LEMMA PutBelow ==
  ASSUME NEW p \in Seq(Segments), Len(p) > 0, p[1] = "grafana"
  PROVE  Pane!WithBasePath(p) = Base \o p
<1>1. CASE Base = <<>>
  <2>1. Base \o p = p
    BY <1>1, ConcatEmptySeq
  <2> QED
    BY <2>1 DEF Pane!WithBasePath
<1>2. CASE Base # <<>>
  <2>1. Base[1] # "grafana" /\ Len(Base) > 0 /\ 1 \in 1..Len(Base)
    BY <1>2, PageAssumption, BaseIsPath, EmptySeq
  <2>2. ~Pane!IsPrefix(Base, p)
    BY <2>1, BaseIsPath, PrefixElements
  <2> QED
    BY <2>2 DEF Pane!WithBasePath
<1> QED
  BY <1>1, <1>2

LEMMA PathProperties ==
  ASSUME NEW u \in Pages
  PROVE  /\ u.path \in Seq(Segments) /\ Len(u.path) \in Nat /\ Len(u.path) > 1
         /\ u.path[1] = "grafana" /\ u.path # <<>>
         /\ Tail(u.path) \in Seq(Segments) /\ Head(Tail(u.path)) # "grafana"
         /\ u.path = Root \o Tail(u.path)
<1>1. /\ u.path \in Seq(STRING) /\ Len(u.path) > 1 /\ Head(u.path) = "grafana"
      /\ u.path[2] # "grafana" /\ STRING \subseteq Segments
  BY PageAssumption DEF Segments
<1>2. u.path \in Seq(Segments) /\ Len(u.path) \in Nat
  BY <1>1, SeqMonotonic, LenProperties
<1>3. u.path # <<>> /\ Head(u.path) = u.path[1]
  BY <1>1, <1>2, EmptySeq
<1>4. /\ Tail(u.path) \in Seq(Segments) /\ Len(Tail(u.path)) = Len(u.path) - 1
      /\ \A i \in 1..Len(Tail(u.path)) : Tail(u.path)[i] = u.path[i + 1]
  BY <1>2, <1>3, HeadTailProperties
<1>5. Head(Tail(u.path)) = Tail(u.path)[1]
  <2>1. \A s \in Seq(Segments) : Head(s) = s[1]
    OBVIOUS
  <2> QED
    BY <2>1, <1>4
<1>6. 1 \in 1..Len(Tail(u.path)) /\ 1 + 1 = 2
  BY <1>1, <1>2, <1>4
<1>7. Head(Tail(u.path)) # "grafana"
  BY <1>1, <1>4, <1>5, <1>6
<1>8. u.path = Root \o Tail(u.path)
  <2> DEFINE rest == Tail(u.path)
             whole == Root \o rest
  <2> HIDE DEF rest
  <2>1. rest \in Seq(Segments) /\ Len(rest) = Len(u.path) - 1
        /\ \A i \in 1..Len(rest) : rest[i] = u.path[i + 1]
    BY <1>4 DEF rest
  <2>2. /\ whole \in Seq(Segments) /\ Len(whole) = 1 + Len(rest)
        /\ \A i \in 1..(1 + Len(rest)) : whole[i] = IF i <= 1 THEN Root[i] ELSE rest[i - 1]
    <3>1. Root \in Seq(Segments) /\ rest \in Seq(Segments)
      BY <2>1, RootProperties
    <3>2. /\ whole \in Seq(Segments) /\ Len(whole) = Len(Root) + Len(rest)
          /\ \A i \in 1..(Len(Root) + Len(rest)) :
               whole[i] = IF i <= Len(Root) THEN Root[i] ELSE rest[i - Len(Root)]
      BY <3>1, ConcatProperties
    <3> HIDE DEF whole
    <3> QED
      BY <3>2, RootProperties
  <2> HIDE DEF whole
  <2>3. ASSUME NEW i \in 1..Len(u.path) PROVE u.path[i] = whole[i]
    <3>1. CASE i = 1
      BY <3>1, <1>1, <1>2, <1>3, <2>1, <2>2, RootProperties
    <3>2. CASE i > 1
      <4>1. i - 1 \in 1..Len(rest) /\ (i - 1) + 1 = i /\ i \in 1..(1 + Len(rest)) /\ ~(i <= 1)
        BY <3>2, <1>2, <2>1
      <4> QED
        BY <4>1, <2>1, <2>2
    <3> QED
      BY <3>1, <3>2, <1>2
  <2>4. Len(whole) = Len(u.path)
    BY <1>2, <2>1, <2>2
  <2>5. u.path = whole
    BY <2>2, <2>3, <2>4, <1>2, SeqEqual
  <2> QED
    BY <2>5 DEF whole, rest
<1> QED
  BY <1>1, <1>2, <1>3, <1>4, <1>7, <1>8

\* The forms of a link exclude each other: the base path does not begin with
\* Grafana's own.
LEMMA Forms ==
  ASSUME NEW link
  PROVE  /\ Base # <<>> /\ Pane!IsPrefix(Base \o Root, link) /\ Head(link) # "grafana"
              => Pane!Resolve(link) = link
         /\ Base = <<>> \/ ~Pane!IsPrefix(Base \o Root, link) =>
              /\ Head(link) = "grafana" => Pane!Resolve(link) = Pane!WithBasePath(link)
              /\ Head(link) # "grafana" => Pane!Resolve(link) = Pane!WithBasePath(Root) \o link
<1> DEFINE prefixed == Base # <<>> /\ Pane!IsPrefix(Base \o Root, link)
           rooted == Head(link) = "grafana"
<1>1. Pane!Resolve(link) = CASE prefixed -> link
                             [] rooted -> Pane!WithBasePath(link)
                             [] OTHER -> Pane!WithBasePath(Root) \o link
  BY DEF Pane!Resolve, Root
<1> DEFINE with == Pane!WithBasePath(link)
           within == Pane!WithBasePath(Root) \o link
<1> HIDE DEF prefixed, rooted, with, within
<1>2. Pane!Resolve(link) = CASE prefixed -> link [] rooted -> with [] OTHER -> within
  BY <1>1 DEF with, within
<1>3. /\ prefixed /\ ~rooted => Pane!Resolve(link) = link
      /\ ~prefixed /\ rooted => Pane!Resolve(link) = with
      /\ ~prefixed /\ ~rooted => Pane!Resolve(link) = within
  BY <1>2
<1> QED
  BY <1>3 DEF prefixed, rooted, with, within

\* A link with either prefix or none resolves to the page below the base path.
LEMMA LinksResolve ==
  ASSUME NEW u \in Pages, NEW link \in Pane!Links(u)
  PROVE  Pane!Resolve(link) = Base \o u.path
<1> DEFINE p == u.path
<1>1. /\ p \in Seq(Segments) /\ Len(p) \in Nat /\ Len(p) > 1
      /\ p[1] = "grafana" /\ p # <<>>
      /\ Tail(p) \in Seq(Segments) /\ Head(Tail(p)) # "grafana" /\ p = Root \o Tail(p)
      /\ ~Pane!IsPrefix(Base \o Root, Tail(p))
  BY PathProperties, PageAssumption DEF Root
<1> SUFFICES Pane!Resolve(link) = Base \o p
  OBVIOUS
<1> HIDE DEF p
<1>2. Pane!WithBasePath(p) = Base \o p
  BY <1>1, PutBelow
<1>r. /\ Root \in Seq(Segments) /\ Len(Root) > 0 /\ 1 <= Len(Root) /\ Root[1] = "grafana"
  BY RootProperties
<1>w. Pane!WithBasePath(Root) = Base \o Root
  BY <1>r, PutBelow
<1>h. \A s \in Seq(Segments) : Head(s) = s[1]
  OBVIOUS
<1>3. Head(p) = "grafana"
  BY <1>1, <1>h
<1>4. /\ Base \o Root \in Seq(Segments) /\ Len(Base \o Root) = Len(Base) + 1
      /\ \A i \in 1..Len(Base) : (Base \o Root)[i] = Base[i]
      /\ (Base \o Root)[Len(Base) + 1] = "grafana"
  <2>1. Len(Root) = 1
    BY RootProperties
  <2> QED
    BY <2>1, <1>r, BelowBase
<1>5. /\ Base \o p \in Seq(Segments) /\ Len(Base \o p) = Len(Base) + Len(p)
      /\ \A i \in 1..Len(Base) : (Base \o p)[i] = Base[i]
      /\ (Base \o p)[Len(Base) + 1] = "grafana"
  BY <1>1, BelowBase
<1>6. Pane!IsPrefix(Base \o Root, Base \o p)
  <2>1. Len(Base \o Root) <= Len(Base \o p)
    BY <1>1, <1>4, <1>5, BaseIsPath
  <2>2. ASSUME NEW i \in 1..(Len(Base) + 1) PROVE (Base \o Root)[i] = (Base \o p)[i]
    <3>1. i \in 1..Len(Base) \/ i = Len(Base) + 1
      BY BaseIsPath
    <3> QED
      BY <3>1, <1>4, <1>5
  <2> QED
    BY <2>1, <2>2, <1>4, <1>5, PrefixElements
<1>7. ASSUME Base # <<>> PROVE ~Pane!IsPrefix(Base \o Root, p)
  <2>1. Base[1] # "grafana" /\ 1 \in 1..Len(Base) /\ 1 \in 1..(Len(Base) + 1)
    BY <1>7, PageAssumption, BaseIsPath, EmptySeq
  <2>2. (Base \o Root)[1] # p[1]
    BY <2>1, <1>1, <1>4
  <2>3. Base \o Root \in Seq(Segments) /\ 1 \in 1..Len(Base \o Root)
    BY <2>1, <1>4
  <2> QED
    BY <2>2, <2>3, <1>1, PrefixElements
<1>8. Base = <<>> => Base \o p = p
  BY <1>1, ConcatEmptySeq
<1>9. CASE link = Base \o p
  <2>1. CASE Base = <<>>
    <3>1. link = p /\ Base \o p = p
      BY <2>1, <1>8, <1>9
    <3>2. Pane!Resolve(link) = Pane!WithBasePath(link)
      BY <3>1, <2>1, <1>3, Forms
    <3> QED
      BY <3>1, <3>2, <1>2
  <2>2. CASE Base # <<>>
    <3>1. Base[1] # "grafana" /\ 1 \in 1..Len(Base)
      BY <2>2, PageAssumption, BaseIsPath, EmptySeq
    <3>2. Head(link) = Base[1]
      BY <3>1, <1>5, <1>9, <1>h
    <3>3. Pane!IsPrefix(Base \o Root, link) /\ Head(link) # "grafana"
      BY <3>1, <3>2, <1>6, <1>9
    <3>4. Pane!Resolve(link) = link
      BY <3>3, <2>2, Forms
    <3> QED
      BY <3>4, <1>9
  <2> QED
    BY <2>1, <2>2
<1>10. CASE link = p
  <2>1. Head(link) = "grafana" /\ (Base = <<>> \/ ~Pane!IsPrefix(Base \o Root, link))
    BY <1>3, <1>7, <1>10
  <2>2. Pane!Resolve(link) = Pane!WithBasePath(link)
    BY <2>1, Forms
  <2> QED
    BY <2>2, <1>2, <1>10
<1>11. CASE link = Tail(p)
  <2>1. Pane!Resolve(link) = (Base \o Root) \o Tail(p)
    <3>1. Head(link) # "grafana" /\ ~Pane!IsPrefix(Base \o Root, link)
      BY <1>1, <1>11
    <3>2. Pane!Resolve(link) = Pane!WithBasePath(Root) \o link
      BY <3>1, Forms
    <3> QED
      BY <3>2, <1>w, <1>11
  <2>2. (Base \o Root) \o Tail(p) = Base \o (Root \o Tail(p))
    BY <1>1, <1>r, BaseIsPath, ConcatAssociative
  <2>3. Root \o Tail(p) = p
    BY <1>1
  <2> QED
    BY <2>1, <2>2, <2>3
<1>12. link \in {Base \o p, p, Tail(p)}
  BY DEF Pane!Links, p
<1> QED
  BY <1>9, <1>10, <1>11, <1>12

-----------------------------------------------------------------------------
(* The Grafana pane *)

Fetches == [url : Pane!Urls, late : BOOLEAN]

LEMMA ContextsAreThere ==
  ASSUME NEW u \in Pane!Urls
  PROVE  /\ Pane!IsDashboard(u) => \A s \in BOOLEAN :
              Pane!DashboardContext(u, s) \in Pane!Contexts /\ Pane!DashboardContext(u, s) # None
         /\ ~Pane!IsDashboard(u) /\ Pane!IsExplore(u) =>
              Pane!ExploreContext(u) \in Pane!Contexts /\ Pane!ExploreContext(u) # None
<1>1. None \notin Pane!Contexts
  BY NoneAssumption
<1>2. ASSUME Pane!IsDashboard(u), NEW s \in BOOLEAN
      PROVE  Pane!DashboardContext(u, s) \in Pane!Contexts
  BY <1>2 DEF Pane!Contexts
<1>3. ASSUME ~Pane!IsDashboard(u), Pane!IsExplore(u)
      PROVE  Pane!ExploreContext(u) \in Pane!Contexts
  BY <1>3 DEF Pane!Contexts
<1> QED
  BY <1>1, <1>2, <1>3

LEMMA AllLate ==
  ASSUME fetching \in Seq(Fetches)
  PROVE  /\ Pane!Late \in Seq(Fetches) /\ DOMAIN Pane!Late = DOMAIN fetching
         /\ \A i \in DOMAIN fetching :
              Pane!Late[i].url = fetching[i].url /\ Pane!Late[i].late
<1>1. /\ Len(fetching) \in Nat /\ DOMAIN fetching = 1..Len(fetching)
      /\ \A i \in DOMAIN fetching : fetching[i] \in Fetches
  BY LenProperties
<1>2. ASSUME NEW i \in DOMAIN fetching
      PROVE  /\ Pane!Late[i] \in Fetches
             /\ Pane!Late[i].url = fetching[i].url /\ Pane!Late[i].late
  <2>1. Pane!Late[i] = [fetching[i] EXCEPT !.late = TRUE]
    BY DEF Pane!Late
  <2>2. fetching[i] \in Fetches
    BY <1>1
  <2> QED
    BY <2>1, <2>2 DEF Fetches
<1>3. DOMAIN Pane!Late = DOMAIN fetching /\ Pane!Late = [i \in DOMAIN fetching |-> Pane!Late[i]]
  BY DEF Pane!Late
<1>4. Pane!Late \in [1..Len(fetching) -> Fetches]
  BY <1>1, <1>2, <1>3
<1>5. Pane!Late \in Seq(Fetches)
  BY <1>1, <1>4, SeqDef
<1> QED
  BY <1>2, <1>3, <1>5

LEMMA ReadIsUrl ==
  ASSUME Pane!TypeOK
  PROVE  Pane!Read \in Pane!Urls
BY DEF Pane!TypeOK, Pane!Read

LEMMA PollKept ==
  ASSUME PaneInv, Pane!Poll
  PROVE  PaneInv'
<1> DEFINE u == Pane!Read
           fresh == [url |-> u, late |-> FALSE]
<1>1. Pane!TypeOK /\ u \in Pane!Urls /\ fetching \in Seq(Fetches)
  BY ReadIsUrl DEF PaneInv, Pane!TypeOK, Fetches
<1>2. /\ lastUrl' = u
      /\ UNCHANGED <<src, page, lastNavigate, visits>>
  BY DEF Pane!Poll
<1>3. /\ Pane!Late \in Seq(Fetches) /\ DOMAIN Pane!Late = DOMAIN fetching
      /\ \A i \in DOMAIN Pane!Late :
           Pane!IsDashboard(Pane!Late[i].url) /\ Pane!Late[i].late
  BY <1>1, AllLate DEF PaneInv
<1>4. /\ Len(Pane!Late) \in Nat /\ DOMAIN Pane!Late = 1..Len(Pane!Late)
  BY <1>3, LenProperties
<1>5. CASE Pane!IsDashboard(u)
  <2>1. fetching' = Append(Pane!Late, fresh) /\ newest' = u /\ UNCHANGED <<context, behind>>
    BY <1>5 DEF Pane!Poll
  <2> HIDE DEF u
  <2>2. fresh \in Fetches /\ fresh.url = u /\ ~fresh.late
    BY <1>1 DEF Fetches
  <2> HIDE DEF fresh
  <2>3. /\ fetching' \in Seq(Fetches) /\ Len(fetching') = Len(Pane!Late) + 1
        /\ \A i \in 1..Len(Pane!Late) : fetching'[i] = Pane!Late[i]
        /\ fetching'[Len(Pane!Late) + 1] = fresh
    BY <2>1, <2>2, <1>3, AppendProperties
  <2>4. DOMAIN fetching' = 1..(Len(Pane!Late) + 1)
    BY <2>3, LenProperties
  <2>5. ASSUME NEW i \in DOMAIN fetching'
        PROVE  /\ Pane!IsDashboard(fetching'[i].url)
               /\ ~fetching'[i].late => fetching'[i].url = newest'
    <3>1. CASE i \in 1..Len(Pane!Late)
      BY <3>1, <2>3, <1>3, <1>4
    <3>2. CASE i = Len(Pane!Late) + 1
      BY <3>2, <2>1, <2>2, <2>3, <1>5
    <3> QED
      BY <3>1, <3>2, <2>4, <1>4
  <2>6. ~ \A i \in DOMAIN fetching' : fetching'[i].late
    <3>1. Len(Pane!Late) + 1 \in DOMAIN fetching'
      BY <2>4, <1>4
    <3> QED
      BY <3>1, <2>2, <2>3
  <2>7. Pane!ContextFollows'
    BY <2>6 DEF Pane!ContextFollows
  <2>8. Pane!TypeOK'
    BY <1>1, <1>2, <2>1, <2>3 DEF Pane!TypeOK, Fetches
  <2> QED
    BY <2>5, <2>7, <2>8 DEF PaneInv
<1>6. CASE ~Pane!IsDashboard(u) /\ Pane!IsExplore(u)
  <2>1. /\ context' = Pane!ExploreContext(u) /\ fetching' = Pane!Late
        /\ newest' = u /\ behind' = FALSE
    BY <1>6 DEF Pane!Poll
  <2> HIDE DEF u
  <2>2. context' \in Pane!Contexts /\ context' # None
    BY <2>1, <1>1, <1>6, ContextsAreThere
  <2>3. Pane!Fits(context', newest')
    BY <2>1, <1>6 DEF Pane!Fits
  <2>4. Pane!ContextFollows'
    BY <2>2, <2>3 DEF Pane!ContextFollows
  <2>5. Pane!TypeOK'
    BY <1>1, <1>2, <1>3, <2>1, <2>2 DEF Pane!TypeOK, Fetches
  <2> QED
    BY <1>3, <2>1, <2>4, <2>5 DEF PaneInv
<1>7. CASE ~Pane!IsDashboard(u) /\ ~Pane!IsExplore(u)
  <2>1. UNCHANGED <<fetching, context, newest, behind>>
    BY <1>7 DEF Pane!Poll
  <2> HIDE DEF u
  <2>2. Pane!TypeOK'
    BY <1>1, <1>2, <2>1 DEF Pane!TypeOK
  <2> QED
    BY <2>1, <2>2 DEF PaneInv, Pane!ContextFollows
<1> QED
  BY <1>5, <1>6, <1>7

LEMMA FetchedKept ==
  ASSUME PaneInv, NEW i \in DOMAIN fetching, NEW summary \in BOOLEAN,
         Pane!Fetched(i, summary)
  PROVE  PaneInv'
<1>1. Pane!TypeOK /\ fetching \in Seq(Fetches)
  BY DEF PaneInv, Pane!TypeOK, Fetches
<1>2. fetching[i] \in Fetches
  BY <1>1, LenProperties
<1>3. /\ fetching[i].url \in Pane!Urls /\ fetching[i].late \in BOOLEAN
      /\ Pane!IsDashboard(fetching[i].url)
      /\ ~fetching[i].late => fetching[i].url = newest
  BY <1>2 DEF PaneInv, Fetches
<1>4. /\ context' = Pane!DashboardContext(fetching[i].url, summary)
      /\ behind' = fetching[i].late /\ fetching' = Without(fetching, i)
      /\ UNCHANGED <<src, page, lastUrl, lastNavigate, visits, newest>>
  BY DEF Pane!Fetched, Pane!RemoveAt, Without
<1>5. /\ fetching' \in Seq(Fetches)
      /\ \A k \in DOMAIN fetching' : \E j \in DOMAIN fetching : fetching'[k] = fetching[j]
  BY <1>1, <1>4, Remaining
<1>6. context' \in Pane!Contexts /\ context' # None
  BY <1>3, <1>4, ContextsAreThere
<1>7. ASSUME NEW k \in DOMAIN fetching'
      PROVE  /\ Pane!IsDashboard(fetching'[k].url)
             /\ ~fetching'[k].late => fetching'[k].url = newest'
  BY <1>4, <1>5 DEF PaneInv
<1>8. ~behind' => Pane!Fits(context', newest')
  BY <1>3, <1>4 DEF Pane!Fits
<1>9. Pane!ContextFollows'
  BY <1>6, <1>8 DEF Pane!ContextFollows
<1>10. Pane!TypeOK'
  BY <1>1, <1>3, <1>4, <1>5, <1>6 DEF Pane!TypeOK, Fetches
<1> QED
  BY <1>7, <1>9, <1>10 DEF PaneInv

LEMMA PaneKept ==
  ASSUME PaneInv, [Pane!Next]_paneVars
  PROVE  PaneInv'
<1>1. ASSUME Pane!Arrive PROVE PaneInv'
  BY <1>1, FetchedKept DEF Pane!Arrive
<1>2. ASSUME NEW u \in Pane!Urls \cup {Pane!Foreign}, Pane!Browse(u) PROVE PaneInv'
  <2>1. Pane!TypeOK'
    BY <1>2, PageAssumption DEF PaneInv, Pane!Browse, Pane!Visit, Pane!TypeOK
  <2> QED
    BY <1>2, <2>1 DEF PaneInv, Pane!Browse, Pane!ContextFollows
<1>3. ASSUME NEW u \in Pages, NEW link \in Pane!Links(u), Pane!Navigate(u, link)
      PROVE  PaneInv'
  <2>1. [u EXCEPT !.path = Pane!Resolve(link)] \in Pane!Urls
    BY LinksResolve DEF Pane!Urls, Pane!At
  <2>2. src' \in Pane!Urls /\ page' \in Pane!Urls \cup {Pane!Foreign}
    BY <1>3, <2>1 DEF PaneInv, Pane!Navigate, Pane!TypeOK
  <2>3. /\ visits' \in 0..MaxVisits
        /\ UNCHANGED <<lastUrl, fetching, context, newest, behind>>
    BY <1>3, PageAssumption DEF PaneInv, Pane!Navigate, Pane!Visit, Pane!TypeOK
  <2>4. Pane!TypeOK'
    BY <2>2, <2>3 DEF PaneInv, Pane!TypeOK
  <2> QED
    BY <2>3, <2>4 DEF PaneInv, Pane!ContextFollows
<1>4. ASSUME UNCHANGED paneVars PROVE PaneInv'
  <2>1. Pane!TypeOK'
    BY <1>4 DEF PaneInv, paneVars, Pane!TypeOK
  <2> QED
    BY <1>4, <2>1 DEF PaneInv, paneVars, Pane!ContextFollows
<1> QED
  BY <1>1, <1>2, <1>3, <1>4, PollKept DEF Pane!Next

-----------------------------------------------------------------------------
(* The context picker *)

LEMMA HitsAreLists ==
  ASSUME NEW key \in Picker!Keys
  PROVE  Hits[key] \in Picker!Lists
BY DEF Picker!Lists

LEMMA ListsHaveEntities ==
  ASSUME NEW list \in Picker!Lists
  PROVE  /\ Len(list) \in Nat
         /\ \A i \in DOMAIN list : list[i] \in Picker!Entities
<1>1. CASE list = <<>>
  <2>1. Len(<<>>) = 0 /\ DOMAIN <<>> = {}
    OBVIOUS
  <2> QED
    BY <1>1, <2>1
<1>2. CASE \E key \in Picker!Keys : list = Hits[key]
  <2>1. list \in Seq(Picker!Entities)
    BY <1>2, PageAssumption
  <2> QED
    BY <2>1, LenProperties
<1> QED
  BY <1>1, <1>2 DEF Picker!Lists

LEMMA KeyProperties ==
  /\ \A t \in Picker!EntityTabs, q \in Picker!Queries :
       Picker!Key(t, q) = <<t, q>> /\ <<t, q>> \in Picker!Keys
  /\ Picker!Blank \in Picker!Queries /\ FirstTab \in Picker!EntityTabs
  /\ None \notin Picker!Keys
BY PageAssumption, NoneAssumption DEF Picker!Key

LEMMA ExtremesAreThere ==
  ASSUME NEW a \in Int, NEW b \in Int
  PROVE  Picker!Min({a, b}) \in Int /\ Picker!Max({a, b}) \in Int
<1>1. \E x \in {a, b} : \A y \in {a, b} : x <= y
  BY SMT
<1>2. \E x \in {a, b} : \A y \in {a, b} : x >= y
  BY SMT
<1> QED
  BY <1>1, <1>2 DEF Picker!Min, Picker!Max

\* What the picker searches for, and what may stand in the list.
SearchTypes ==
  /\ results \in Picker!Lists /\ loading \in BOOLEAN
  /\ timer \in Picker!Keys \cup {None} /\ overtaken \in BOOLEAN

\* A search leaves the picker with a list that fits, or a timer that brings it.
LEMMA SearchKept ==
  ASSUME PickerInv, NEW t \in Picker!EntityTabs, NEW q \in Picker!Queries,
         NEW spinning \in BOOLEAN, Picker!Search(t, q, spinning),
         tab' = t, query' = q, UNCHANGED inflight
  PROVE  SearchTypes' /\ Picker!ShowsItsSearch'
<1>1. /\ Picker!Key(t, q) = <<t, q>> /\ <<t, q>> \in Picker!Keys /\ <<t, q>> # None
      /\ Picker!Asked' = <<t, q>>
  BY KeyProperties DEF Picker!Asked
<1> DEFINE key == <<t, q>>
<1>2. SearchTypes
  BY DEF SearchTypes, PickerInv, Picker!TypeOK
<1>3. CASE key \in DOMAIN cache
  <2>1. /\ results' = Hits[key] /\ overtaken' = FALSE
        /\ loading' = spinning /\ timer' = None
    BY <1>1, <1>3 DEF Picker!Search, PickerInv
  <2>2. Hits[key] \in Picker!Lists
    BY <1>1, HitsAreLists
  <2>3. SearchTypes'
    BY <2>1, <2>2 DEF SearchTypes
  <2> QED
    BY <1>1, <2>1, <2>3
       DEF Picker!ShowsItsSearch, Picker!TimerIsAsked, Picker!ListIsAsked,
           Picker!SpinnerHidesKnown
<1>4. CASE key \notin DOMAIN cache
  <2>1. loading' = TRUE /\ timer' = key /\ UNCHANGED <<results, overtaken>>
    BY <1>1, <1>4 DEF Picker!Search
  <2>2. SearchTypes'
    BY <1>1, <1>2, <2>1 DEF SearchTypes
  <2> QED
    BY <1>1, <2>1, <2>2
       DEF Picker!ShowsItsSearch, Picker!TimerIsAsked, Picker!ListIsAsked,
           Picker!SpinnerHidesKnown
<1> QED
  BY <1>3, <1>4

\* The chips and what sendMessage sees of them.
ChatTypes ==
  /\ {chips, captured, picked, last.chips, last.carried, last.picked} \subseteq SUBSET Picker!Entities
  /\ {isLoading, known} \subseteq BOOLEAN
ChatInv ==
  /\ ChatTypes /\ Picker!CarriesItsOwn
  /\ chips \subseteq picked /\ captured \subseteq picked

CacheTypes ==
  /\ inflight \in Seq(Picker!Keys) /\ DOMAIN cache \subseteq Picker!Keys
  /\ \A key \in DOMAIN cache : cache[key] = Hits[key]

FieldTypes ==
  /\ open \in BOOLEAN /\ tab \in Picker!EntityTabs /\ query \in Picker!Queries
  /\ highlight \in Int /\ moves \in 0..MaxMoves

LEMMA PickerParts ==
  /\ PickerInv =>
       FieldTypes /\ SearchTypes /\ CacheTypes /\ ChatInv /\ Picker!ShowsItsSearch
  /\ FieldTypes' /\ SearchTypes' /\ CacheTypes' /\ ChatInv' /\ Picker!ShowsItsSearch'
       => PickerInv'
BY DEF PickerInv, FieldTypes, SearchTypes, CacheTypes, ChatInv, ChatTypes, Picker!TypeOK

LEMMA ChatStays ==
  ASSUME ChatInv, UNCHANGED Picker!chatVars
  PROVE  ChatInv'
BY DEF ChatInv, ChatTypes, Picker!chatVars, Picker!CarriesItsOwn

LEMMA CacheStays ==
  ASSUME CacheTypes, UNCHANGED <<inflight, cache>>
  PROVE  CacheTypes'
BY DEF CacheTypes

LEMMA SearchStays ==
  ASSUME SearchTypes, Picker!ShowsItsSearch, UNCHANGED <<Picker!searchVars, tab, query, inflight>>
  PROVE  SearchTypes' /\ Picker!ShowsItsSearch'
BY DEF SearchTypes, Picker!searchVars, Picker!ShowsItsSearch, Picker!TimerIsAsked,
       Picker!ListIsAsked, Picker!SpinnerHidesKnown, Picker!Asked

LEMMA MoveIsBounded ==
  ASSUME FieldTypes, Picker!Move
  PROVE  moves' \in 0..MaxMoves
BY PageAssumption DEF FieldTypes, Picker!Move

LEMMA AskKept ==
  ASSUME PickerInv, Picker!Ask
  PROVE  PickerInv'
<1>1. FieldTypes /\ SearchTypes /\ CacheTypes /\ ChatInv /\ Picker!ShowsItsSearch
  BY PickerParts
<1>2. /\ timer \in Picker!Keys /\ inflight' = Append(inflight, timer) /\ timer' = None
      /\ UNCHANGED <<Picker!pickerVars, results, loading, overtaken, cache, Picker!chatVars, moves>>
  BY <1>1 DEF Picker!Ask, SearchTypes
<1>3. inflight' \in Seq(Picker!Keys) /\ inflight' # <<>>
  BY <1>1, <1>2, AppendProperties DEF CacheTypes
<1>4. FieldTypes' /\ SearchTypes' /\ CacheTypes'
  BY <1>1, <1>2, <1>3 DEF FieldTypes, SearchTypes, CacheTypes, Picker!pickerVars
<1>5. Picker!ShowsItsSearch'
  BY <1>1, <1>2, <1>3
     DEF Picker!ShowsItsSearch, Picker!TimerIsAsked, Picker!ListIsAsked,
         Picker!SpinnerHidesKnown, Picker!Asked, Picker!pickerVars
<1> QED
  BY <1>1, <1>2, <1>4, <1>5, ChatStays, PickerParts

LEMMA SearchAnsweredKept ==
  ASSUME PickerInv, NEW i \in DOMAIN inflight, NEW found \in BOOLEAN, Picker!Answered(i, found)
  PROVE  PickerInv'
<1>1. FieldTypes /\ SearchTypes /\ CacheTypes /\ ChatInv /\ Picker!ShowsItsSearch
  BY PickerParts
<1> DEFINE asked == inflight[i]
<1>2. asked \in Picker!Keys /\ \E t \in Picker!EntityTabs, q \in Picker!Queries : asked = <<t, q>>
  <2>1. asked \in Picker!Keys
    BY <1>1, LenProperties DEF CacheTypes
  <2> QED
    BY <2>1, PageAssumption
<1>3. Picker!Key(asked[1], asked[2]) = asked
  BY <1>2 DEF Picker!Key
<1>4. /\ inflight' = Without(inflight, i)
      /\ results' = IF found THEN Hits[asked] ELSE <<>>
      /\ cache' = IF found THEN [key \in DOMAIN cache \cup {asked} |->
                                   IF key = asked THEN Hits[asked] ELSE cache[key]]
                  ELSE cache
      /\ loading' = FALSE /\ overtaken' = (asked # <<tab, query>>)
      /\ UNCHANGED <<Picker!pickerVars, timer, Picker!chatVars, moves>>
  BY <1>3 DEF Picker!Answered, Picker!RemoveAt, Without
<1> HIDE DEF asked
<1>5. inflight' \in Seq(Picker!Keys)
  BY <1>1, <1>4, Remaining DEF CacheTypes
<1>6. CacheTypes'
  <2>1. CASE found
    <3>1. /\ DOMAIN cache' = DOMAIN cache \cup {asked}
          /\ \A key \in DOMAIN cache' : cache'[key] = IF key = asked THEN Hits[asked] ELSE cache[key]
      BY <2>1, <1>4
    <3> QED
      BY <3>1, <1>1, <1>2, <1>5 DEF CacheTypes
  <2>2. CASE ~found
    BY <2>2, <1>1, <1>4, <1>5 DEF CacheTypes
  <2> QED
    BY <2>1, <2>2
<1>7. FieldTypes'
  BY <1>1, <1>4 DEF FieldTypes, Picker!pickerVars
<1>8. results' \in Picker!Lists
  BY <1>2, <1>4, HitsAreLists DEF Picker!Lists
<1>9. SearchTypes'
  BY <1>1, <1>4, <1>8 DEF SearchTypes
<1>10. Picker!ShowsItsSearch'
  <2>1. tab' = tab /\ query' = query
    BY <1>4 DEF Picker!pickerVars
  <2>2. ~overtaken' => results' \in {<<>>, Hits[<<tab, query>>]}
    BY <1>4
  <2> QED
    BY <1>1, <1>4, <2>1, <2>2
       DEF Picker!ShowsItsSearch, Picker!TimerIsAsked, Picker!ListIsAsked,
           Picker!SpinnerHidesKnown, Picker!Asked
<1> QED
  BY <1>1, <1>4, <1>6, <1>7, <1>9, <1>10, ChatStays, PickerParts

\* Open, Type and ChangeTab.
LEMMA SearchesKept ==
  ASSUME PickerInv
  PROVE  /\ Picker!Open => PickerInv'
         /\ \A q \in Picker!Queries : Picker!Type(q) => PickerInv'
         /\ \A t \in Picker!EntityTabs : Picker!ChangeTab(t) => PickerInv'
<1>1. /\ FieldTypes /\ SearchTypes /\ CacheTypes /\ ChatInv /\ Picker!ShowsItsSearch
      /\ loading \in BOOLEAN /\ tab \in Picker!EntityTabs /\ query \in Picker!Queries
  BY PickerParts DEF SearchTypes, FieldTypes
<1>2. ASSUME Picker!Open PROVE PickerInv'
  <2>1. /\ Picker!Search(tab, query, loading) /\ Picker!Move /\ open' = TRUE /\ highlight' = 0
        /\ UNCHANGED <<tab, query, inflight, cache, Picker!chatVars>>
    BY <1>2 DEF Picker!Open
  <2>2. SearchTypes' /\ Picker!ShowsItsSearch'
    BY <2>1, <1>1, SearchKept
  <2>3. FieldTypes'
    BY <2>1, <1>1, MoveIsBounded DEF FieldTypes
  <2> QED
    BY <2>1, <2>2, <2>3, <1>1, ChatStays, CacheStays, PickerParts
<1>3. ASSUME NEW q \in Picker!Queries, Picker!Type(q) PROVE PickerInv'
  <2>1. /\ Picker!Search(tab, q, loading) /\ Picker!Move /\ query' = q /\ highlight' = 0
        /\ UNCHANGED <<open, tab, inflight, cache, Picker!chatVars>>
    BY <1>3 DEF Picker!Type
  <2>2. SearchTypes' /\ Picker!ShowsItsSearch'
    BY <2>1, <1>1, SearchKept
  <2>3. FieldTypes'
    BY <2>1, <1>1, MoveIsBounded DEF FieldTypes
  <2> QED
    BY <2>1, <2>2, <2>3, <1>1, ChatStays, CacheStays, PickerParts
<1>4. ASSUME NEW t \in Picker!EntityTabs, Picker!ChangeTab(t) PROVE PickerInv'
  <2>1. /\ Picker!Move /\ tab' = t /\ query' = Picker!Blank /\ highlight' = 0
        /\ UNCHANGED <<open, inflight, cache, Picker!chatVars>>
    BY <1>4 DEF Picker!ChangeTab
  <2>2. FieldTypes'
    BY <2>1, <1>1, MoveIsBounded, KeyProperties DEF FieldTypes
  <2>3. SearchTypes' /\ Picker!ShowsItsSearch'
    <3> DEFINE key == <<t, Picker!Blank>>
    <3>1. key \in Picker!Keys /\ Picker!Asked' = key /\ key # None
          /\ <<>> \in Picker!Lists /\ Picker!Blank \in Picker!Queries
      BY <2>1, KeyProperties DEF Picker!Asked, Picker!Lists
    <3>2. CASE key = <<tab, query>>
      <4>1. results' = <<>> /\ loading' = FALSE /\ overtaken' = FALSE /\ timer' = timer
        BY <3>2, <1>4 DEF Picker!ChangeTab
      <4>2. Picker!Asked = key
        BY <3>2 DEF Picker!Asked
      <4> HIDE DEF key
      <4>3. SearchTypes'
        BY <4>1, <3>1, <1>1 DEF SearchTypes
      <4> QED
        BY <4>1, <4>2, <4>3, <3>1, <1>1
           DEF Picker!ShowsItsSearch, Picker!TimerIsAsked, Picker!ListIsAsked,
               Picker!SpinnerHidesKnown
    <3>3. CASE key # <<tab, query>> /\ Picker!Key(t, Picker!Blank) \in DOMAIN cache
      <4>1. Picker!Search(t, Picker!Blank, FALSE)
        BY <3>3, <1>4 DEF Picker!ChangeTab
      <4> QED
        BY <4>1, <3>1, <2>1, SearchKept
    <3>4. CASE key # <<tab, query>> /\ Picker!Key(t, Picker!Blank) \notin DOMAIN cache
      <4>1. results' = <<>> /\ overtaken' = FALSE /\ loading' = TRUE /\ timer' = key
        BY <3>4, <1>4 DEF Picker!ChangeTab
      <4> HIDE DEF key
      <4>2. SearchTypes'
        BY <4>1, <3>1 DEF SearchTypes
      <4> QED
        BY <4>1, <4>2, <3>1
           DEF Picker!ShowsItsSearch, Picker!TimerIsAsked, Picker!ListIsAsked,
               Picker!SpinnerHidesKnown
    <3> QED
      BY <3>2, <3>3, <3>4
  <2> QED
    BY <2>1, <2>2, <2>3, <1>1, ChatStays, CacheStays, PickerParts
<1> QED
  BY <1>2, <1>3, <1>4

\* Close, the arrows, and an entity that is picked.
LEMMA FieldKept ==
  ASSUME PickerInv
  PROVE  /\ Picker!Close => PickerInv'
         /\ \A step \in {1, -1} : Picker!Arrow(step) => PickerInv'
         /\ \A i : Picker!Pick(i) => PickerInv'
<1>1. /\ FieldTypes /\ SearchTypes /\ CacheTypes /\ ChatInv /\ Picker!ShowsItsSearch
      /\ highlight \in Int /\ results \in Picker!Lists
  BY PickerParts DEF SearchTypes, FieldTypes
<1>2. ASSUME Picker!Close PROVE PickerInv'
  <2>1. /\ open' = FALSE
        /\ UNCHANGED <<tab, query, highlight, Picker!searchVars, inflight, cache,
                       Picker!chatVars, moves>>
    BY <1>2 DEF Picker!Close
  <2>2. FieldTypes'
    BY <2>1, <1>1 DEF FieldTypes
  <2> QED
    BY <2>1, <2>2, <1>1, ChatStays, CacheStays, SearchStays, PickerParts
<1>3. ASSUME NEW step \in {1, -1}, Picker!Arrow(step) PROVE PickerInv'
  <2>1. UNCHANGED <<open, tab, query, Picker!searchVars, inflight, cache,
                    Picker!chatVars, moves>>
    BY <1>3 DEF Picker!Arrow
  <2>2. highlight' \in Int
    <3> DEFINE lower == Picker!Min({highlight + 1, Len(results) - 1})
               upper == Picker!Max({highlight - 1, 0})
    <3>1. /\ Len(results) - 1 \in Int /\ highlight + 1 \in Int /\ highlight - 1 \in Int
          /\ 0 \in Int
      BY <1>1, ListsHaveEntities
    <3>2. highlight' = IF step = 1 THEN lower ELSE upper
      BY <1>3 DEF Picker!Arrow
    <3> DEFINE one == highlight - 1
    <3>3. lower \in Int
      BY <3>1, ExtremesAreThere
    <3>4. one \in Int
      BY <3>1
    <3> HIDE DEF one
    <3>5. Picker!Max({one, 0}) \in Int
      BY <3>1, <3>4, ExtremesAreThere
    <3>6. upper \in Int
      BY <3>5 DEF one
    <3> HIDE DEF upper, lower
    <3> QED
      BY <3>2, <3>3, <3>6
  <2>3. FieldTypes'
    BY <2>1, <2>2, <1>1 DEF FieldTypes
  <2> QED
    BY <2>1, <2>3, <1>1, ChatStays, CacheStays, SearchStays, PickerParts
<1>4. ASSUME NEW i, Picker!Pick(i) PROVE PickerInv'
  <2>1. /\ i \in DOMAIN results /\ Picker!Move /\ open' = FALSE
        /\ chips' = chips \cup {results[i]} /\ picked' = picked \cup {results[i]}
        /\ UNCHANGED <<tab, query, highlight, Picker!searchVars, inflight, cache,
                       captured, isLoading, known, last>>
    BY <1>4 DEF Picker!Pick, Picker!Select
  <2>2. results[i] \in Picker!Entities
    BY <2>1, <1>1, ListsHaveEntities
  <2>3. ChatInv'
    BY <2>1, <2>2, <1>1 DEF ChatInv, ChatTypes, Picker!CarriesItsOwn
  <2>4. FieldTypes'
    BY <2>1, <1>1, MoveIsBounded DEF FieldTypes
  <2> QED
    BY <2>1, <2>3, <2>4, <1>1, CacheStays, SearchStays, PickerParts
<1> QED
  BY <1>2, <1>3, <1>4

\* RemoveChip, Send, and what remakes sendMessage.
LEMMA ChatKept ==
  ASSUME PickerInv
  PROVE  /\ \A entity \in chips : Picker!RemoveChip(entity) => PickerInv'
         /\ Picker!Send => PickerInv'
         /\ Picker!Started \/ Picker!Finished \/ Picker!ContextChanges => PickerInv'
<1>1. FieldTypes /\ SearchTypes /\ CacheTypes /\ ChatInv /\ Picker!ShowsItsSearch
  BY PickerParts
<1> DEFINE Rest == /\ UNCHANGED <<Picker!pickerVars, Picker!searchVars, inflight, cache>>
                   /\ moves' \in 0..MaxMoves
<1>2. ASSUME Rest, ChatInv' PROVE PickerInv'
  <2>1. FieldTypes'
    BY <1>1, <1>2 DEF FieldTypes, Picker!pickerVars
  <2>2. tab' = tab /\ query' = query
    BY <1>2 DEF Picker!pickerVars
  <2> QED
    BY <2>1, <2>2, <1>1, <1>2, CacheStays, SearchStays, PickerParts
<1> HIDE DEF Rest
<1>3. ASSUME NEW entity \in chips, Picker!RemoveChip(entity) PROVE PickerInv'
  <2>1. Rest
    BY <1>1, <1>3, MoveIsBounded DEF Picker!RemoveChip, Rest
  <2>2. ChatInv'
    BY <1>1, <1>3 DEF Picker!RemoveChip, ChatInv, ChatTypes, Picker!CarriesItsOwn
  <2> QED
    BY <1>2, <2>1, <2>2
<1>4. ASSUME Picker!Send PROVE PickerInv'
  <2>1. Rest
    BY <1>1, <1>4, MoveIsBounded DEF Picker!Send, Rest
  <2>2. /\ last' = [chips |-> chips, carried |-> captured, picked |-> picked]
        /\ chips' = {} /\ captured' = {} /\ picked' = {} /\ isLoading' = TRUE /\ known' = known
    BY <1>4 DEF Picker!Send, Picker!Seen
  <2>3. ChatInv'
    BY <1>1, <2>2 DEF ChatInv, ChatTypes, Picker!CarriesItsOwn
  <2> QED
    BY <1>2, <2>1, <2>3
<1>5. ASSUME Picker!Started \/ Picker!Finished \/ Picker!ContextChanges PROVE PickerInv'
  <2>1. /\ Picker!Remake(chips)
        /\ isLoading' \in {isLoading, FALSE} /\ known' \in {known, TRUE}
    BY <1>5 DEF Picker!Started, Picker!Finished, Picker!ContextChanges, Picker!Seen
  <2>2. /\ captured' = chips /\ moves' = moves
        /\ UNCHANGED <<Picker!pickerVars, Picker!searchVars, inflight, cache, chips, last, picked>>
    BY <2>1 DEF Picker!Remake
  <2>3. Rest
    BY <1>1, <2>2 DEF Rest, FieldTypes
  <2>4. ChatInv'
    BY <1>1, <2>1, <2>2 DEF ChatInv, ChatTypes, Picker!CarriesItsOwn
  <2> QED
    BY <1>2, <2>3, <2>4
<1> QED
  BY <1>3, <1>4, <1>5

LEMMA PickerKept ==
  ASSUME PickerInv, [Picker!Next]_pickerVars
  PROVE  PickerInv'
<1>1. CASE Picker!Next
  <2>1. ASSUME Picker!Arrive PROVE PickerInv'
    BY <2>1, SearchAnsweredKept DEF Picker!Arrive
  <2>2. ASSUME (\E i \in DOMAIN results : Picker!Click(i)) \/ Picker!Enter PROVE PickerInv'
    BY <2>2, FieldKept DEF Picker!Click, Picker!Enter
  <2> QED
    BY <1>1, <2>1, <2>2, AskKept, SearchesKept, FieldKept, ChatKept DEF Picker!Next
<1>2. CASE UNCHANGED pickerVars
  <2>1. FieldTypes /\ SearchTypes /\ CacheTypes /\ ChatInv /\ Picker!ShowsItsSearch
    BY PickerParts
  <2>2. /\ UNCHANGED <<Picker!searchVars, Picker!chatVars, open, highlight, moves>>
        /\ UNCHANGED <<tab, query, inflight, cache>>
    BY <1>2 DEF pickerVars, Picker!searchVars, Picker!chatVars
  <2>3. FieldTypes'
    BY <2>1, <2>2 DEF FieldTypes
  <2> QED
    BY <2>1, <2>2, <2>3, ChatStays, CacheStays, SearchStays, PickerParts
<1> QED
  BY <1>1, <1>2

-----------------------------------------------------------------------------
(* The ratings *)

\* An entry is rated, or marked as submitted.
Rated(e, m, value) == [e EXCEPT ![m].rating = value]
Closed(e, m) == [e EXCEPT ![m].submitted = TRUE]

LEMMA EntryEdits ==
  ASSUME NEW e \in Rating!Entries, NEW m \in Messages, NEW value \in 1..MaxRating
  PROVE  /\ Rated(e, m, value) \in Rating!Entries /\ Closed(e, m) \in Rating!Entries
         /\ \A n \in Messages :
              /\ Rated(e, m, value)[n].submitted <=> e[n].submitted
              /\ Rated(e, m, value)[n].rating = IF n = m THEN value ELSE e[n].rating
              /\ Closed(e, m)[n].submitted <=> n = m \/ e[n].submitted
              /\ Closed(e, m)[n].rating = e[n].rating
<1> DEFINE Entry == [rating : 0..MaxRating, submitted : BOOLEAN]
           rated == [e EXCEPT ![m].rating = value]
           closed == [e EXCEPT ![m].submitted = TRUE]
<1>1. MaxRating \in Nat /\ e \in [Messages -> Entry]
  BY PageAssumption DEF Rating!Entries
<1>2. /\ [e[m] EXCEPT !.rating = value] \in Entry /\ [e[m] EXCEPT !.submitted = TRUE] \in Entry
      /\ [e[m] EXCEPT !.rating = value].rating = value
      /\ [e[m] EXCEPT !.rating = value].submitted = e[m].submitted
      /\ [e[m] EXCEPT !.submitted = TRUE].submitted = TRUE
      /\ [e[m] EXCEPT !.submitted = TRUE].rating = e[m].rating
  <2>1. value \in 0..MaxRating
    BY <1>1
  <2>2. PICK entry \in Entry : entry = e[m]
    BY <1>1
  <2>3. /\ [entry EXCEPT !.rating = value] \in Entry
        /\ [entry EXCEPT !.rating = value].rating = value
        /\ [entry EXCEPT !.rating = value].submitted = entry.submitted
    BY <2>1
  <2>4. /\ [entry EXCEPT !.submitted = TRUE] \in Entry
        /\ [entry EXCEPT !.submitted = TRUE].submitted = TRUE
        /\ [entry EXCEPT !.submitted = TRUE].rating = entry.rating
    OBVIOUS
  <2> QED
    BY <2>2, <2>3, <2>4
<1>3. ASSUME NEW n \in Messages
      PROVE  /\ rated[n] = IF n = m THEN [e[m] EXCEPT !.rating = value] ELSE e[n]
             /\ closed[n] = IF n = m THEN [e[m] EXCEPT !.submitted = TRUE] ELSE e[n]
  BY <1>1
<1>4. rated \in [Messages -> Entry] /\ closed \in [Messages -> Entry]
  <2>1. /\ rated = [n \in Messages |-> rated[n]] /\ closed = [n \in Messages |-> closed[n]]
        /\ \A n \in Messages : e[n] \in Entry
    BY <1>1
  <2> HIDE DEF rated, closed, Entry
  <2>2. \A n \in Messages : rated[n] \in Entry /\ closed[n] \in Entry
    BY <1>2, <1>3, <2>1
  <2> QED
    BY <2>1, <2>2
<1> HIDE DEF rated, closed, Entry
<1>5. ASSUME NEW n \in Messages
      PROVE  /\ rated[n].submitted <=> e[n].submitted
             /\ rated[n].rating = IF n = m THEN value ELSE e[n].rating
             /\ closed[n].submitted <=> n = m \/ e[n].submitted
             /\ closed[n].rating = e[n].rating
  BY <1>2, <1>3
<1>6. rated \in Rating!Entries /\ closed \in Rating!Entries
  BY <1>4 DEF Rating!Entries, Entry
<1> QED
  BY <1>5, <1>6 DEF rated, closed, Rated, Closed

LEMMA NothingIsAnEntry ==
  Rating!Nothing \in Rating!Entries /\ Recorded(Rating!Nothing)
<1>1. MaxRating \in Nat
  BY PageAssumption
<1>2. Rating!Fresh \in [rating : 0..MaxRating, submitted : BOOLEAN] /\ Rating!Fresh.submitted = FALSE
  BY <1>1 DEF Rating!Fresh
<1> QED
  BY <1>2 DEF Rating!Nothing, Rating!Entries, Recorded

LEMMA TabTypes ==
  ASSUME Rating!TypeOK, NEW t \in Tabs
  PROVE  /\ storage \in Rating!Entries /\ storage # None
         /\ loaded[t] # None => loaded[t] \in Rating!Entries
         /\ state[t] # None => state[t] \in Rating!Entries
         /\ modal[t] # None => modal[t] \in Messages
         /\ submitting[t] # None =>
              /\ submitting[t] \in Rating!Submissions /\ submitting[t].message \in Messages
              /\ submitting[t].rating \in 1..MaxRating /\ submitting[t].at \in {"sent", "stored"}
<1>1. None \notin Rating!Entries
  BY NoneAssumption
<1>2. \A s \in Rating!Submissions :
        /\ s.message \in Messages /\ s.rating \in 1..MaxRating /\ s.at \in {"sent", "stored"}
  BY DEF Rating!Submissions
<1> QED
  BY <1>1, <1>2 DEF Rating!TypeOK

\* What the tab t makes of the count, while it is the only one.
Shown(t, m) ==
  \/ storage[m].submitted
  \/ loaded[t] # None /\ loaded[t][m].submitted
  \/ submitting[t] # None /\ submitting[t].at = "stored" /\ submitting[t].message = m

Solo(t) ==
  /\ \A u \in Tabs : u # t => state[u] = None
  /\ state[t] # None => storage = state[t] /\ (loaded[t] # None => state[t] = Rating!Nothing)
  /\ \A m \in Messages : Len(rows[m]) = lost[m] + IF Shown(t, m) THEN 1 ELSE 0

Counted(m) ==
  \/ \E s \in Rating!Panels : s[m].submitted
  \/ \E t \in Tabs : loaded[t] # None /\ loaded[t][m].submitted
  \/ {t \in Tabs : submitting[t] # None /\ submitting[t].at = "stored"
                   /\ submitting[t].message = m} # {}

LEMMA CountedIsShown ==
  ASSUME \A u \in Tabs : TabInv(u), NEW t \in Tabs, NEW m \in Messages,
         \A u \in Tabs : u # t => state[u] = None,
         state[t] # None => storage = state[t]
  PROVE  Counted(m) <=> Shown(t, m)
<1>1. \A u \in Tabs : u # t => state[u] = None /\ loaded[u] = None /\ submitting[u] = None
  BY DEF TabInv, TabOK
<1>2. (\E s \in Rating!Panels : s[m].submitted) <=> storage[m].submitted
  BY <1>1 DEF Rating!Panels
<1>3. (\E u \in Tabs : loaded[u] # None /\ loaded[u][m].submitted)
        <=> loaded[t] # None /\ loaded[t][m].submitted
  BY <1>1
<1>4. {u \in Tabs : submitting[u] # None /\ submitting[u].at = "stored"
                    /\ submitting[u].message = m} # {}
        <=> submitting[t] # None /\ submitting[t].at = "stored" /\ submitting[t].message = m
  BY <1>1
<1> QED
  BY <1>2, <1>3, <1>4 DEF Counted, Shown

LEMMA CountedIsShownAfter ==
  ASSUME \A u \in Tabs : TabInv(u)', NEW t \in Tabs, NEW m \in Messages,
         \A u \in Tabs : u # t => state'[u] = None,
         state'[t] # None => storage' = state'[t]
  PROVE  Counted(m)' <=> Shown(t, m)'
<1>1. \A u \in Tabs : u # t => state'[u] = None /\ loaded'[u] = None /\ submitting'[u] = None
  BY DEF TabInv, TabOK
<1>2. (\E s \in Rating!Panels' : s[m].submitted) <=> storage'[m].submitted
  BY <1>1 DEF Rating!Panels
<1>3. (\E u \in Tabs : loaded'[u] # None /\ loaded'[u][m].submitted)
        <=> loaded'[t] # None /\ loaded'[t][m].submitted
  BY <1>1
<1>4. {u \in Tabs : submitting'[u] # None /\ submitting'[u].at = "stored"
                    /\ submitting'[u].message = m} # {}
        <=> submitting'[t] # None /\ submitting'[t].at = "stored" /\ submitting'[t].message = m
  BY <1>1
<1> QED
  BY <1>2, <1>3, <1>4 DEF Counted, Shown

LEMMA OnceIsCounted ==
  /\ Rating!RecordedOnce <=>
       (~exposed => \A m \in Messages : Len(rows[m]) = lost[m] + IF Counted(m) THEN 1 ELSE 0)
  /\ Rating!RecordedOnce' <=>
       (~exposed' => \A m \in Messages : Len(rows'[m]) = lost'[m] + IF Counted(m)' THEN 1 ELSE 0)
BY DEF Rating!RecordedOnce, Counted

LEMMA SoloHolds ==
  ASSUME RatingInv, ~exposed, NEW t \in Tabs, \A u \in Tabs : u # t => state[u] = None
  PROVE  Solo(t)
<1>1. Alone /\ \A u \in Tabs : TabInv(u)
  BY DEF RatingInv
<1>2. state[t] # None => storage = state[t] /\ (loaded[t] # None => state[t] = Rating!Nothing)
  BY <1>1 DEF Alone
<1>3. ASSUME NEW m \in Messages
      PROVE  Len(rows[m]) = lost[m] + IF Shown(t, m) THEN 1 ELSE 0
  <2>1. Len(rows[m]) = lost[m] + IF Counted(m) THEN 1 ELSE 0
    BY OnceIsCounted DEF RatingInv
  <2> QED
    BY <2>1, <1>1, <1>2, CountedIsShown
<1> QED
  BY <1>2, <1>3 DEF Solo

LEMMA OpenTabIsAlone ==
  ASSUME RatingInv, ~exposed, NEW t \in Tabs, state[t] # None
  PROVE  Solo(t)
BY SoloHolds DEF RatingInv, Alone

\* A step of the tab t leaves the others as they are, and forgets no rating.
Others(t) ==
  \A u \in Tabs : u # t =>
    /\ state'[u] = state[u] /\ loaded'[u] = loaded[u]
    /\ modal'[u] = modal[u] /\ submitting'[u] = submitting[u]

Grows ==
  /\ edited \subseteq edited'
  /\ \A m \in Messages : \A rating :
       (\E i \in DOMAIN rows[m] : rows[m][i] = rating)
         => \E i \in DOMAIN rows'[m] : rows'[m][i] = rating

LEMMA HasStays ==
  ASSUME NEW m \in Messages, NEW rating, Has(m, rating), Grows
  PROVE  \E i \in DOMAIN rows'[m] : m \in edited' \/ rows'[m][i] = rating
<1>1. PICK i \in DOMAIN rows[m] : m \in edited \/ rows[m][i] = rating
  BY DEF Has
<1>2. PICK k \in DOMAIN rows'[m] : rows'[m][k] = rows[m][i]
  BY DEF Grows
<1> QED
  BY <1>1, <1>2 DEF Grows

LEMMA RecordedStays ==
  ASSUME NEW s, Recorded(s), Grows
  PROVE  Recorded(s)'
BY DEF Recorded, Has, Grows

LEMMA OtherTabs ==
  ASSUME RatingInv, NEW t \in Tabs, Others(t), Grows, NEW u \in Tabs, u # t
  PROVE  TabInv(u)'
<1>1. Rating!TypeOK /\ TabInv(u)
  BY DEF RatingInv
<1>2. /\ state'[u] = state[u] /\ loaded'[u] = loaded[u]
      /\ modal'[u] = modal[u] /\ submitting'[u] = submitting[u]
  BY DEF Others
<1>3. TabOK(u)'
  BY <1>1, <1>2 DEF TabInv, TabOK
<1>4. SubmissionOK(u)'
  <2>1. submitting[u] # None => submitting[u].message \in Messages
    BY <1>1, TabTypes
  <2> QED
    BY <2>1, <1>1, <1>2 DEF TabInv, SubmissionOK, Has, Grows
<1>5. state'[u] # None => Recorded(state[u])'
  BY <1>1, <1>2 DEF TabInv, Recorded, Has, Grows
<1>6. loaded'[u] # None => Recorded(loaded[u])'
  BY <1>1, <1>2 DEF TabInv, Recorded, Has, Grows
<1> QED
  BY <1>3, <1>4, <1>5, <1>6 DEF TabInv

LEMMA RatingStep ==
  ASSUME RatingInv, NEW t \in Tabs, Others(t), Grows, Rating!TypeOK', Recorded(storage)',
         TabInv(t)', ~exposed' => Solo(t)'
  PROVE  RatingInv'
<1>1. \A u \in Tabs : TabInv(u)'
  <2> SUFFICES ASSUME NEW u \in Tabs PROVE TabInv(u)'
    OBVIOUS
  <2>1. CASE u = t
    BY <2>1
  <2>2. CASE u # t
    BY <2>2, OtherTabs
  <2> QED
    BY <2>1, <2>2
<1>2. ASSUME ~exposed' PROVE Alone'
  <2>1. /\ \A u \in Tabs : u # t => state'[u] = None
        /\ state'[t] # None =>
             storage' = state'[t] /\ (loaded'[t] # None => state'[t] = Rating!Nothing)
    BY <1>2 DEF Solo
  <2> QED
    BY <2>1 DEF Alone
<1>3. ASSUME ~exposed', NEW m \in Messages
      PROVE  Len(rows'[m]) = lost'[m] + IF Counted(m)' THEN 1 ELSE 0
  <2>1. /\ \A u \in Tabs : u # t => state'[u] = None
        /\ state'[t] # None => storage' = state'[t]
        /\ Len(rows'[m]) = lost'[m] + IF Shown(t, m)' THEN 1 ELSE 0
    BY <1>3 DEF Solo
  <2>2. Counted(m)' <=> Shown(t, m)'
    BY <2>1, <1>1, CountedIsShownAfter
  <2> QED
    BY <2>1, <2>2
<1>4. Rating!RecordedOnce'
  BY <1>3, OnceIsCounted
<1> QED
  BY <1>1, <1>2, <1>4 DEF RatingInv

\* Rows and ratings as they were.
LEMMA NoRow ==
  ASSUME rows' = rows, edited \subseteq edited'
  PROVE  Grows
BY DEF Grows

LEMMA ActIsBounded ==
  ASSUME Rating!TypeOK, Rating!Act
  PROVE  acts' \in 0..MaxActs
BY PageAssumption DEF Rating!TypeOK, Rating!Act

LEMMA MountKept ==
  ASSUME RatingInv, NEW t \in Tabs, Rating!Mount(t)
  PROVE  RatingInv'
<1>1. Rating!TypeOK /\ TabInv(t) /\ Recorded(storage)
  BY DEF RatingInv
<1>2. /\ storage \in Rating!Entries /\ storage # None
      /\ Rating!Nothing \in Rating!Entries /\ Rating!Nothing # None
  BY <1>1, TabTypes, NothingIsAnEntry, NoneAssumption
<1>3. /\ state[t] = None
      /\ state' = [state EXCEPT ![t] = Rating!Nothing] /\ storage' = Rating!Nothing
      /\ loaded' = [loaded EXCEPT ![t] = storage]
      /\ exposed' = (exposed \/ \E u \in Tabs : state[u] # None)
      /\ UNCHANGED <<modal, submitting, rows, lost, edited>>
      /\ acts' \in 0..MaxActs
  BY <1>1, ActIsBounded DEF Rating!Mount, Rating!SetState
<1>4. /\ state'[t] = Rating!Nothing /\ loaded'[t] = storage
      /\ modal'[t] = None /\ submitting'[t] = None /\ Others(t)
      /\ loaded[t] = None /\ submitting[t] = None
  BY <1>1, <1>3 DEF Rating!TypeOK, Others, TabInv, TabOK
<1>5. Rating!TypeOK'
  BY <1>1, <1>2, <1>3 DEF Rating!TypeOK
<1>6. Grows
  BY <1>3, NoRow
<1>7. \A m \in Messages : ~Rating!Nothing[m].submitted
  BY DEF Rating!Nothing, Rating!Fresh
<1>8. Recorded(storage)' /\ Recorded(state[t])'
  BY <1>3, <1>4, <1>7 DEF Recorded
<1>9. Recorded(loaded[t])'
  BY <1>1, <1>4, <1>6 DEF Recorded, Has, Grows
<1>10. TabInv(t)'
  BY <1>2, <1>4, <1>8, <1>9 DEF TabInv, TabOK, SubmissionOK
<1>11. ASSUME ~exposed' PROVE Solo(t)'
  <2>1. ~exposed /\ \A u \in Tabs : state[u] = None
    BY <1>3, <1>11
  <2>2. Solo(t)
    BY <2>1, SoloHolds
  <2>3. \A m \in Messages : Shown(t, m)' <=> Shown(t, m)
    BY <1>2, <1>3, <1>4, <1>7 DEF Shown
  <2>4. \A u \in Tabs : u # t => state'[u] = None
    BY <1>4, <2>1 DEF Others
  <2>5. \A m \in Messages : Len(rows'[m]) = lost'[m] + IF Shown(t, m)' THEN 1 ELSE 0
    BY <2>2, <2>3, <1>3 DEF Solo
  <2> QED
    BY <2>4, <2>5, <1>3, <1>4 DEF Solo
<1> QED
  BY <1>4, <1>5, <1>6, <1>8, <1>10, <1>11, RatingStep

LEMMA LoadKept ==
  ASSUME RatingInv, NEW t \in Tabs, Rating!Load(t)
  PROVE  RatingInv'
<1>1. Rating!TypeOK /\ TabInv(t)
  BY DEF RatingInv
<1>2. /\ loaded[t] # None /\ loaded[t] \in Rating!Entries
      /\ state' = [state EXCEPT ![t] = loaded[t]] /\ storage' = loaded[t]
      /\ loaded' = [loaded EXCEPT ![t] = None]
      /\ UNCHANGED <<modal, submitting, rows, acts, lost, edited, exposed>>
  BY <1>1, TabTypes DEF Rating!Load, Rating!SetState, Rating!historyVars
<1>3. /\ state'[t] = loaded[t] /\ loaded'[t] = None
      /\ modal'[t] = None /\ submitting'[t] = None /\ Others(t)
      /\ submitting[t] = None /\ state[t] # None
  BY <1>1, <1>2 DEF Rating!TypeOK, Others, TabInv, TabOK
<1>4. Rating!TypeOK'
  BY <1>1, <1>2 DEF Rating!TypeOK
<1>5. Grows
  BY <1>2, NoRow
<1>6. Recorded(storage)' /\ Recorded(state[t])'
  BY <1>1, <1>2, <1>3, <1>5 DEF TabInv, Recorded, Has, Grows
<1>7. TabInv(t)'
  BY <1>2, <1>3, <1>6 DEF TabInv, TabOK, SubmissionOK
<1>8. ASSUME ~exposed' PROVE Solo(t)'
  <2>1. ~exposed
    BY <1>2, <1>8
  <2>2. Solo(t) /\ storage = Rating!Nothing
    BY <2>1, <1>2, <1>3, OpenTabIsAlone DEF Solo
  <2>3. \A m \in Messages : ~storage[m].submitted
    BY <2>2 DEF Rating!Nothing, Rating!Fresh
  <2>4. \A m \in Messages : Shown(t, m)' <=> Shown(t, m)
    BY <1>2, <1>3, <2>3 DEF Shown
  <2>5. \A u \in Tabs : u # t => state'[u] = None
    BY <1>3, <2>2 DEF Others, Solo
  <2>6. \A m \in Messages : Len(rows'[m]) = lost'[m] + IF Shown(t, m)' THEN 1 ELSE 0
    BY <2>2, <2>4, <1>2 DEF Solo
  <2> QED
    BY <2>5, <2>6, <1>2, <1>3 DEF Solo
<1> QED
  BY <1>3, <1>4, <1>5, <1>6, <1>7, <1>8, RatingStep

\* OpenModal and CloseModal.
LEMMA DialogKept ==
  ASSUME RatingInv, NEW t \in Tabs,
         Rating!CloseModal(t) \/ \E m \in Messages : Rating!OpenModal(t, m)
  PROVE  RatingInv'
<1>1. Rating!TypeOK /\ TabInv(t) /\ Recorded(storage)
  BY DEF RatingInv
<1>2. PICK m \in Messages \cup {None} :
        /\ modal' = [modal EXCEPT ![t] = m]
        /\ m = None \/ (state[t] # None /\ loaded[t] = None)
        /\ UNCHANGED <<storage, loaded, state, submitting, rows, lost, edited, exposed>>
        /\ acts' \in 0..MaxActs
  <2>1. acts \in 0..MaxActs
    BY <1>1 DEF Rating!TypeOK
  <2>2. CASE Rating!CloseModal(t)
    BY <2>1, <2>2 DEF Rating!CloseModal, Rating!historyVars
  <2>3. CASE \E m \in Messages : Rating!OpenModal(t, m)
    BY <2>3, <1>1, ActIsBounded DEF Rating!OpenModal, Rating!historyVars
  <2> QED
    BY <2>2, <2>3
<1>3. /\ modal'[t] = m /\ Others(t)
      /\ state'[t] = state[t] /\ loaded'[t] = loaded[t] /\ submitting'[t] = submitting[t]
  BY <1>1, <1>2 DEF Rating!TypeOK, Others
<1>4. Rating!TypeOK'
  BY <1>1, <1>2 DEF Rating!TypeOK
<1>5. Grows
  BY <1>2, NoRow
<1>6. Recorded(storage)'
  BY <1>1, <1>2, <1>5 DEF Recorded, Has, Grows
<1>7. TabInv(t)'
  <2>1. TabOK(t)'
    BY <1>1, <1>2, <1>3 DEF TabInv, TabOK
  <2>2. SubmissionOK(t)' /\ (state'[t] # None => Recorded(state[t])')
        /\ (loaded'[t] # None => Recorded(loaded[t])')
    BY <1>1, <1>2, <1>3 DEF TabInv, SubmissionOK, Recorded, Has
  <2> QED
    BY <2>1, <2>2 DEF TabInv
<1>8. ASSUME ~exposed' PROVE Solo(t)'
  <2>1. state[t] # None
    <3>1. modal[t] # None \/ state[t] # None
      BY DEF Rating!CloseModal, Rating!OpenModal
    <3> QED
      BY <3>1, <1>1 DEF TabInv, TabOK
  <2>2. Solo(t)
    BY <2>1, <1>2, <1>8, OpenTabIsAlone
  <2> QED
    BY <2>2, <1>2, <1>3 DEF Solo, Shown
<1> QED
  BY <1>3, <1>4, <1>5, <1>6, <1>7, <1>8, RatingStep

LEMMA RateKept ==
  ASSUME RatingInv, NEW t \in Tabs, NEW value \in 1..MaxRating, Rating!Rate(t, value)
  PROVE  RatingInv'
<1>1. Rating!TypeOK /\ TabInv(t)
  BY DEF RatingInv
<1> DEFINE m == modal[t]
           new == Rated(state[t], m, value)
<1>2. /\ modal[t] # None /\ ~state[t][m].submitted
      /\ state' = [state EXCEPT ![t] = new] /\ storage' = new
      /\ edited' = IF submitting[t] # None THEN edited \cup {m} ELSE edited
      /\ UNCHANGED <<loaded, modal, submitting, rows, lost, exposed>>
      /\ acts' \in 0..MaxActs
  BY <1>1, ActIsBounded DEF Rating!Rate, Rating!SetState, Rating!Draft, Rated
<1>3. /\ m \in Messages /\ state[t] # None /\ loaded[t] = None
      /\ state[t] \in Rating!Entries
  BY <1>1, <1>2, TabTypes DEF TabInv, TabOK
<1>4. /\ new \in Rating!Entries
      /\ \A n \in Messages : /\ new[n].submitted <=> state[t][n].submitted
                             /\ new[n].rating = IF n = m THEN value ELSE state[t][n].rating
  BY <1>3, EntryEdits
<1> HIDE DEF new, m
<1>5. /\ state'[t] = new /\ loaded'[t] = None /\ modal'[t] = modal[t]
      /\ submitting'[t] = submitting[t] /\ Others(t) /\ new # None
  BY <1>1, <1>2, <1>3, <1>4, NoneAssumption DEF Rating!TypeOK, Others
<1>6. edited' \subseteq Messages /\ edited \subseteq edited'
  BY <1>1, <1>2, <1>3 DEF Rating!TypeOK
<1>7. Rating!TypeOK'
  BY <1>1, <1>2, <1>4, <1>6 DEF Rating!TypeOK
<1>8. Grows
  BY <1>2, <1>6, NoRow
<1>9. Recorded(state[t])' /\ Recorded(storage)'
  <2>1. ASSUME NEW n \in Messages, new[n].submitted
        PROVE  new[n].rating = state[t][n].rating /\ Has(n, state[t][n].rating)
    BY <2>1, <1>1, <1>2, <1>3, <1>4 DEF TabInv, Recorded
  <2> QED
    BY <2>1, <1>2, <1>5, <1>8 DEF Recorded, Has, Grows
<1>10. TabInv(t)'
  <2>1. TabOK(t)'
    <3>1. submitting[t] # None => submitting[t].message \in Messages
      BY <1>1, TabTypes
    <3> QED
      BY <3>1, <1>1, <1>2, <1>3, <1>4, <1>5 DEF TabInv, TabOK
  <2>2. SubmissionOK(t)'
    <3> SUFFICES ASSUME submitting[t] # None PROVE SubmissionOK(t)'
      BY <1>5 DEF SubmissionOK
    <3>1. submitting[t].message \in Messages
      BY <1>1, TabTypes
    <3>2. \/ submitting[t].message \in edited'
          \/ new[submitting[t].message].rating = submitting[t].rating
      BY <3>1, <1>1, <1>2, <1>4 DEF TabInv, SubmissionOK
    <3>3. submitting[t].at = "stored" => Has(submitting[t].message, submitting[t].rating)'
      BY <3>1, <1>1, <1>2, <1>6 DEF TabInv, SubmissionOK, Has
    <3> QED
      BY <3>2, <3>3, <1>5 DEF SubmissionOK, Has
  <2> QED
    BY <2>1, <2>2, <1>5, <1>9 DEF TabInv
<1>11. ASSUME ~exposed' PROVE Solo(t)'
  <2>1. Solo(t) /\ storage = state[t]
    BY <1>2, <1>3, <1>11, OpenTabIsAlone DEF Solo
  <2>2. \A n \in Messages : Shown(t, n)' <=> Shown(t, n)
    BY <2>1, <1>2, <1>3, <1>4, <1>5 DEF Shown
  <2>3. \A u \in Tabs : u # t => state'[u] = None
    BY <1>5, <2>1 DEF Others, Solo
  <2>4. \A n \in Messages : Len(rows'[n]) = lost'[n] + IF Shown(t, n)' THEN 1 ELSE 0
    BY <2>1, <2>2, <1>2 DEF Solo
  <2> QED
    BY <2>3, <2>4, <1>2, <1>5 DEF Solo
<1> QED
  BY <1>5, <1>7, <1>8, <1>9, <1>10, <1>11, RatingStep

LEMMA SubmitKept ==
  ASSUME RatingInv, NEW t \in Tabs, Rating!Submit(t)
  PROVE  RatingInv'
<1>1. Rating!TypeOK /\ TabInv(t) /\ Recorded(storage)
  BY DEF RatingInv
<1> DEFINE m == modal[t]
           new == [message |-> m, rating |-> state[t][m].rating, at |-> "sent"]
<1>2. /\ modal[t] # None /\ submitting[t] = None /\ ~state[t][m].submitted
      /\ state[t][m].rating # 0 /\ submitting' = [submitting EXCEPT ![t] = new]
      /\ UNCHANGED <<storage, loaded, state, modal, rows, lost, edited, exposed>>
      /\ acts' \in 0..MaxActs
  BY <1>1, ActIsBounded DEF Rating!Submit, Rating!Draft, Rating!historyVars
<1>3. /\ m \in Messages /\ state[t] # None /\ loaded[t] = None
      /\ state[t] \in Rating!Entries
  BY <1>1, <1>2, TabTypes DEF TabInv, TabOK
<1>4. state[t][m].rating \in 1..MaxRating
  <2>1. MaxRating \in Nat /\ state[t][m].rating \in 0..MaxRating
    BY <1>3, PageAssumption DEF Rating!Entries
  <2> QED
    BY <2>1, <1>2
<1>5. /\ new \in Rating!Submissions /\ new # None /\ new.message = m
      /\ new.rating = state[t][m].rating /\ new.at = "sent"
  BY <1>3, <1>4, NoneAssumption DEF Rating!Submissions
<1> HIDE DEF new, m
<1>6. /\ submitting'[t] = new /\ Others(t)
      /\ state'[t] = state[t] /\ loaded'[t] = loaded[t] /\ modal'[t] = modal[t]
  BY <1>1, <1>2 DEF Rating!TypeOK, Others
<1>7. Rating!TypeOK'
  BY <1>1, <1>2, <1>5 DEF Rating!TypeOK
<1>8. Grows
  BY <1>2, NoRow
<1>9. Recorded(storage)'
  BY <1>1, <1>2 DEF Recorded, Has
<1>10. TabInv(t)'
  <2>1. TabOK(t)' /\ SubmissionOK(t)'
    BY <1>2, <1>3, <1>5, <1>6 DEF TabOK, SubmissionOK
  <2>2. (state'[t] # None => Recorded(state[t])') /\ (loaded'[t] # None => Recorded(loaded[t])')
    BY <1>1, <1>2, <1>6 DEF TabInv, Recorded, Has
  <2> QED
    BY <2>1, <2>2 DEF TabInv
<1>11. ASSUME ~exposed' PROVE Solo(t)'
  <2>1. Solo(t)
    BY <1>2, <1>3, <1>11, OpenTabIsAlone
  <2>2. \A n \in Messages : Shown(t, n)' <=> Shown(t, n)
    BY <1>2, <1>5, <1>6 DEF Shown
  <2> QED
    BY <2>1, <2>2, <1>2, <1>6 DEF Solo
<1> QED
  BY <1>6, <1>7, <1>8, <1>9, <1>10, <1>11, RatingStep

LEMMA StoreKept ==
  ASSUME RatingInv, NEW t \in Tabs, Rating!Store(t)
  PROVE  RatingInv'
<1>1. Rating!TypeOK /\ TabInv(t) /\ Recorded(storage)
  BY DEF RatingInv
<1>s. submitting[t] # None /\ submitting[t] \in Rating!Submissions
  BY <1>1, TabTypes DEF Rating!Store
<1>m. PICK m \in Messages, rating \in 1..MaxRating :
        m = submitting[t].message /\ rating = submitting[t].rating
  BY <1>1, <1>s, TabTypes
<1> DEFINE new == [submitting[t] EXCEPT !.at = "stored"]
<1>2. /\ submitting[t] # None /\ submitting[t].at = "sent"
      /\ rows' = [rows EXCEPT ![m] = Append(rows[m], rating)]
      /\ submitting' = [submitting EXCEPT ![t].at = "stored"]
      /\ UNCHANGED <<storage, loaded, state, modal, acts, lost, edited, exposed>>
  BY <1>m DEF Rating!Store, Rating!historyVars
<1>3. /\ m \in Messages /\ rating \in 1..MaxRating /\ state[t] # None /\ loaded[t] = None
      /\ submitting[t] \in Rating!Submissions /\ ~state[t][m].submitted
  BY <1>1, <1>2, <1>m, <1>s DEF TabInv, TabOK
<1>4. /\ new \in Rating!Submissions /\ new # None /\ new.message = m
      /\ new.rating = rating /\ new.at = "stored"
  BY <1>3, <1>m, NoneAssumption DEF Rating!Submissions
<1>5. submitting' = [submitting EXCEPT ![t] = new]
  BY <1>1, <1>2 DEF Rating!TypeOK
<1> HIDE DEF new
<1>6. /\ submitting'[t] = new /\ Others(t)
      /\ state'[t] = state[t] /\ loaded'[t] = loaded[t] /\ modal'[t] = modal[t]
  BY <1>1, <1>2, <1>5 DEF Rating!TypeOK, Others
<1>7. /\ rows[m] \in Seq(1..MaxRating) /\ rows'[m] = Append(rows[m], rating)
      /\ \A n \in Messages : n # m => rows'[n] = rows[n]
  BY <1>1, <1>2, <1>3 DEF Rating!TypeOK
<1>8. /\ rows'[m] \in Seq(1..MaxRating) /\ Len(rows'[m]) = Len(rows[m]) + 1
      /\ Len(rows[m]) \in Nat /\ DOMAIN rows[m] = 1..Len(rows[m])
      /\ DOMAIN rows'[m] = 1..(Len(rows[m]) + 1)
      /\ \A i \in 1..Len(rows[m]) : rows'[m][i] = rows[m][i]
      /\ rows'[m][Len(rows[m]) + 1] = rating
  <2>1. /\ Append(rows[m], rating) \in Seq(1..MaxRating)
        /\ Len(Append(rows[m], rating)) = Len(rows[m]) + 1
        /\ \A i \in 1..Len(rows[m]) : Append(rows[m], rating)[i] = rows[m][i]
        /\ Append(rows[m], rating)[Len(rows[m]) + 1] = rating
    BY <1>3, <1>7, AppendProperties
  <2>2. rows'[m] \in Seq(1..MaxRating) /\ Len(rows'[m]) = Len(rows[m]) + 1
    BY <2>1, <1>7
  <2>3. DOMAIN rows'[m] = 1..(Len(rows[m]) + 1)
    BY <2>2, LenProperties
  <2>4. Len(rows[m]) \in Nat /\ DOMAIN rows[m] = 1..Len(rows[m])
    BY <1>7, LenProperties
  <2> QED
    BY <2>1, <2>2, <2>3, <2>4, <1>7
<1>9. Grows /\ \E i \in DOMAIN rows'[m] : rows'[m][i] = rating
  <2>1. ASSUME NEW n \in Messages, NEW r, \E i \in DOMAIN rows[n] : rows[n][i] = r
        PROVE  \E i \in DOMAIN rows'[n] : rows'[n][i] = r
    <3>1. CASE n = m
      <4>1. PICK i \in 1..Len(rows[m]) : rows[m][i] = r
        BY <2>1, <3>1, <1>8
      <4>2. i \in DOMAIN rows'[m] /\ rows'[m][i] = r
        BY <4>1, <1>8
      <4> QED
        BY <4>2, <3>1
    <3>2. CASE n # m
      BY <3>2, <2>1, <1>7
    <3> QED
      BY <3>1, <3>2
  <2>2. Len(rows[m]) + 1 \in DOMAIN rows'[m]
    BY <1>8
  <2> QED
    BY <2>1, <2>2, <1>2, <1>8 DEF Grows
<1>10. Rating!TypeOK'
  <2>1. rows' \in [Messages -> Seq(1..MaxRating)]
    BY <1>1, <1>2, <1>8, <1>7, <1>3 DEF Rating!TypeOK
  <2> QED
    BY <2>1, <1>1, <1>2, <1>4, <1>5 DEF Rating!TypeOK
<1>11. Recorded(storage)'
  BY <1>1, <1>2, <1>9 DEF Recorded, Has, Grows
<1>12. TabInv(t)'
  <2>1. TabOK(t)'
    BY <1>2, <1>3, <1>4, <1>6 DEF TabOK
  <2>2. SubmissionOK(t)'
    <3>1. m \in edited \/ state[t][m].rating = rating
      BY <1>1, <1>2, <1>m DEF TabInv, SubmissionOK
    <3>2. /\ submitting'[t].message = m /\ submitting'[t].rating = rating
          /\ submitting'[t] # None
      BY <1>4, <1>6
    <3>3. \E i \in DOMAIN rows'[m] : m \in edited' \/ rows'[m][i] = rating
      BY <1>9
    <3>4. m \in edited' \/ state'[t][m].rating = rating
      BY <3>1, <1>2, <1>6
    <3>5. /\ submitting'[t].message \in edited'
               \/ state'[t][submitting'[t].message].rating = submitting'[t].rating
          /\ \E i \in DOMAIN rows'[submitting'[t].message] :
               \/ submitting'[t].message \in edited'
               \/ rows'[submitting'[t].message][i] = submitting'[t].rating
      BY <3>2, <3>3, <3>4, Zenon
    <3> QED
      BY <3>5 DEF SubmissionOK, Has
  <2>3. Recorded(state[t])'
    <3>1. \A n \in Messages : state[t][n].submitted =>
            \E i \in DOMAIN rows'[n] : n \in edited' \/ rows'[n][i] = state[t][n].rating
      BY <1>1, <1>3, <1>9, HasStays DEF TabInv, Recorded
    <3> QED
      BY <3>1, <1>6 DEF Recorded, Has
  <2> QED
    BY <2>1, <2>2, <2>3, <1>3, <1>6 DEF TabInv
<1>13. ASSUME ~exposed' PROVE Solo(t)'
  <2>1. Solo(t) /\ storage = state[t]
    BY <1>2, <1>3, <1>13, OpenTabIsAlone DEF Solo
  <2>2. ~Shown(t, m) /\ Shown(t, m)'
    BY <2>1, <1>2, <1>3, <1>4, <1>6 DEF Shown
  <2>3. \A n \in Messages : n # m => (Shown(t, n)' <=> Shown(t, n))
    BY <1>2, <1>4, <1>6, <1>m DEF Shown
  <2>4. lost[m] \in Nat
    BY <1>1, <1>3 DEF Rating!TypeOK
  <2>5. Len(rows'[m]) = lost'[m] + IF Shown(t, m)' THEN 1 ELSE 0
    <3>1. Len(rows[m]) = lost[m] + 0
      BY <2>1, <2>2, <1>3 DEF Solo
    <3>2. Len(rows'[m]) = lost'[m] + 1
      BY <3>1, <2>4, <1>2, <1>8
    <3> QED
      BY <3>2, <2>2
  <2>6. \A n \in Messages : n # m => Len(rows'[n]) = lost'[n] + IF Shown(t, n)' THEN 1 ELSE 0
    BY <2>1, <2>3, <1>2, <1>7 DEF Solo
  <2> QED
    BY <2>1, <2>5, <2>6, <1>2, <1>6 DEF Solo
<1> QED
  BY <1>6, <1>9, <1>10, <1>11, <1>12, <1>13, RatingStep

LEMMA AcknowledgeKept ==
  ASSUME RatingInv, NEW t \in Tabs, Rating!Acknowledge(t)
  PROVE  RatingInv'
<1>1. Rating!TypeOK /\ TabInv(t)
  BY DEF RatingInv
<1>2. submitting[t] # None /\ submitting[t].at = "stored"
  BY DEF Rating!Acknowledge
<1>3. PICK m \in Messages, rating \in 1..MaxRating :
        m = submitting[t].message /\ rating = submitting[t].rating
  BY <1>1, <1>2, TabTypes
<1> DEFINE new == Closed(state[t], m)
<1>4. /\ state' = [state EXCEPT ![t] = new] /\ storage' = new
      /\ modal' = [modal EXCEPT ![t] = None]
      /\ submitting' = [submitting EXCEPT ![t] = None]
      /\ UNCHANGED <<loaded, rows, acts, lost, edited, exposed>>
  BY <1>3 DEF Rating!Acknowledge, Rating!SetState, Rating!historyVars, Closed
<1>5. /\ state[t] # None /\ loaded[t] = None /\ state[t] \in Rating!Entries
      /\ ~state[t][m].submitted
  BY <1>1, <1>2, <1>3, TabTypes DEF TabInv, TabOK
<1>6. /\ new \in Rating!Entries
      /\ \A n \in Messages : /\ new[n].submitted <=> n = m \/ state[t][n].submitted
                             /\ new[n].rating = state[t][n].rating
  BY <1>3, <1>5, EntryEdits
<1> HIDE DEF new
<1>7. /\ state'[t] = new /\ loaded'[t] = None /\ modal'[t] = None
      /\ submitting'[t] = None /\ Others(t) /\ new # None
  BY <1>1, <1>4, <1>5, <1>6, NoneAssumption DEF Rating!TypeOK, Others
<1>8. Rating!TypeOK'
  BY <1>1, <1>4, <1>6 DEF Rating!TypeOK
<1>9. Grows
  BY <1>4, NoRow
<1>10. Has(m, state[t][m].rating)
  BY <1>1, <1>2, <1>3 DEF TabInv, SubmissionOK, Has
<1>11. Recorded(state[t])' /\ Recorded(storage)'
  <2>1. ASSUME NEW n \in Messages, new[n].submitted
        PROVE  new[n].rating = state[t][n].rating /\ Has(n, state[t][n].rating)
    BY <2>1, <1>1, <1>5, <1>6, <1>10 DEF TabInv, Recorded
  <2> QED
    BY <2>1, <1>4, <1>7, <1>9 DEF Recorded, Has, Grows
<1>12. TabInv(t)'
  BY <1>7, <1>11 DEF TabInv, TabOK, SubmissionOK
<1>13. ASSUME ~exposed' PROVE Solo(t)'
  <2>1. Solo(t) /\ storage = state[t]
    BY <1>4, <1>5, <1>13, OpenTabIsAlone DEF Solo
  <2>2. \A n \in Messages : Shown(t, n)' <=> Shown(t, n)
    BY <2>1, <1>2, <1>3, <1>4, <1>5, <1>6, <1>7 DEF Shown
  <2>3. \A u \in Tabs : u # t => state'[u] = None
    BY <1>7, <2>1 DEF Others, Solo
  <2>4. \A n \in Messages : Len(rows'[n]) = lost'[n] + IF Shown(t, n)' THEN 1 ELSE 0
    BY <2>1, <2>2, <1>4 DEF Solo
  <2> QED
    BY <2>3, <2>4, <1>4, <1>7 DEF Solo
<1> QED
  BY <1>7, <1>8, <1>9, <1>11, <1>12, <1>13, RatingStep

\* A submission is given up, by Fail or with the tab: what was stored of it is
\* one row more that nobody knows of.
LEMMA GivenUp ==
  ASSUME RatingInv, NEW t \in Tabs, lost' = Rating!Unacknowledged(t), rows' = rows,
         storage' = storage, submitting'[t] = None, loaded'[t] = loaded[t]
  PROVE  /\ lost' \in [Messages -> Nat]
         /\ Solo(t) /\ state[t] # None =>
              \A n \in Messages : Len(rows'[n]) = lost'[n] + IF Shown(t, n)' THEN 1 ELSE 0
<1>1. Rating!TypeOK /\ TabInv(t) /\ lost \in [Messages -> Nat]
  BY DEF RatingInv, Rating!TypeOK
<1>2. CASE submitting[t] # None /\ submitting[t].at = "stored"
  <2>1. PICK m \in Messages : m = submitting[t].message
    BY <1>1, <1>2, TabTypes
  <2>2. lost' = [lost EXCEPT ![m] = lost[m] + 1] /\ lost[m] \in Nat
    BY <1>1, <1>2, <2>1 DEF Rating!Unacknowledged
  <2>3. ASSUME Solo(t), state[t] # None, NEW n \in Messages
        PROVE  Len(rows'[n]) = lost'[n] + IF Shown(t, n)' THEN 1 ELSE 0
    <3>1. /\ ~state[t][m].submitted /\ loaded[t] = None /\ storage = state[t]
          /\ Len(rows[n]) = lost[n] + IF Shown(t, n) THEN 1 ELSE 0
      BY <2>1, <2>3, <1>1, <1>2 DEF TabInv, TabOK, Solo
    <3>2. CASE n = m
      <4>1. Shown(t, n) /\ ~Shown(t, n)'
        BY <3>1, <3>2, <2>1, <1>2 DEF Shown
      <4>2. Len(rows[n]) = lost[n] + 1 /\ lost'[n] = lost[n] + 1
        BY <4>1, <3>1, <3>2, <2>2, <1>1
      <4>3. Len(rows'[n]) = lost'[n] + 0
        BY <4>2, <3>2, <2>2
      <4> QED
        BY <4>1, <4>3
    <3>3. CASE n # m
      <4>1. Shown(t, n) <=> Shown(t, n)'
        BY <3>1, <3>3, <2>1 DEF Shown
      <4>2. lost'[n] = lost[n]
        BY <3>3, <2>2, <1>1
      <4> QED
        BY <4>1, <4>2, <3>1
    <3> QED
      BY <3>2, <3>3
  <2>4. lost' \in [Messages -> Nat]
    BY <2>2, <1>1
  <2> QED
    BY <2>3, <2>4
<1>3. CASE ~(submitting[t] # None /\ submitting[t].at = "stored")
  <2>1. lost' = lost
    BY <1>3 DEF Rating!Unacknowledged
  <2>2. \A n \in Messages : Shown(t, n) <=> Shown(t, n)'
    BY <1>3 DEF Shown
  <2> QED
    BY <2>1, <2>2, <1>1 DEF Solo
<1> QED
  BY <1>2, <1>3

LEMMA FailKept ==
  ASSUME RatingInv, NEW t \in Tabs, Rating!Fail(t)
  PROVE  RatingInv'
<1>1. Rating!TypeOK /\ TabInv(t) /\ Recorded(storage)
  BY DEF RatingInv
<1>2. /\ submitting' = [submitting EXCEPT ![t] = None]
      /\ lost' = Rating!Unacknowledged(t)
      /\ UNCHANGED <<storage, loaded, state, modal, rows, acts, edited, exposed>>
      /\ submitting[t] # None /\ state[t] # None
  BY <1>1 DEF Rating!Fail, TabInv, TabOK
<1>3. /\ submitting'[t] = None /\ Others(t)
      /\ state'[t] = state[t] /\ loaded'[t] = loaded[t] /\ modal'[t] = modal[t]
  BY <1>1, <1>2 DEF Rating!TypeOK, Others
<1>4. /\ lost' \in [Messages -> Nat]
      /\ Solo(t) =>
           \A n \in Messages : Len(rows'[n]) = lost'[n] + IF Shown(t, n)' THEN 1 ELSE 0
  BY <1>2, <1>3, GivenUp
<1>5. Rating!TypeOK'
  BY <1>1, <1>2, <1>4 DEF Rating!TypeOK
<1>6. Grows
  BY <1>2, NoRow
<1>7. Recorded(storage)' /\ TabInv(t)'
  BY <1>1, <1>2, <1>3 DEF Recorded, Has, TabInv, TabOK, SubmissionOK
<1>8. ASSUME ~exposed' PROVE Solo(t)'
  <2>1. Solo(t)
    BY <1>2, <1>8, OpenTabIsAlone
  <2>2. \A n \in Messages : Len(rows'[n]) = lost'[n] + IF Shown(t, n)' THEN 1 ELSE 0
    BY <2>1, <1>4
  <2> QED
    BY <2>1, <2>2, <1>2, <1>3 DEF Solo
<1> QED
  BY <1>3, <1>5, <1>6, <1>7, <1>8, RatingStep

LEMMA CloseTabKept ==
  ASSUME RatingInv, NEW t \in Tabs, Rating!CloseTab(t)
  PROVE  RatingInv'
<1>1. Rating!TypeOK /\ TabInv(t) /\ Recorded(storage)
  BY DEF RatingInv
<1>2. /\ state[t] # None /\ state' = [state EXCEPT ![t] = None]
      /\ loaded' = [loaded EXCEPT ![t] = None] /\ modal' = [modal EXCEPT ![t] = None]
      /\ submitting' = [submitting EXCEPT ![t] = None]
      /\ lost' = Rating!Unacknowledged(t) /\ exposed' = (exposed \/ loaded[t] # None)
      /\ UNCHANGED <<storage, rows, acts, edited>>
  BY DEF Rating!CloseTab
<1>3. /\ submitting'[t] = None /\ Others(t)
      /\ state'[t] = None /\ loaded'[t] = None /\ modal'[t] = None
  BY <1>1, <1>2 DEF Rating!TypeOK, Others
<1>4. lost' \in [Messages -> Nat]
  <2>1. CASE submitting[t] # None /\ submitting[t].at = "stored"
    <3>1. PICK m \in Messages : m = submitting[t].message
      BY <1>1, <2>1, TabTypes
    <3>2. lost' = [lost EXCEPT ![m] = lost[m] + 1] /\ lost \in [Messages -> Nat]
      BY <1>1, <1>2, <2>1, <3>1 DEF Rating!Unacknowledged, Rating!TypeOK
    <3> QED
      BY <3>2
  <2>2. CASE ~(submitting[t] # None /\ submitting[t].at = "stored")
    BY <2>2, <1>1, <1>2 DEF Rating!Unacknowledged, Rating!TypeOK
  <2> QED
    BY <2>1, <2>2
<1>5. Rating!TypeOK'
  BY <1>1, <1>2, <1>4 DEF Rating!TypeOK
<1>6. Grows
  BY <1>2, NoRow
<1>7. Recorded(storage)' /\ TabInv(t)'
  BY <1>1, <1>2, <1>3 DEF Recorded, Has, TabInv, TabOK, SubmissionOK
<1>8. ASSUME ~exposed' PROVE Solo(t)'
  <2>1. ~exposed /\ loaded[t] = None
    BY <1>2, <1>8
  <2>2. Solo(t)
    BY <2>1, <1>2, OpenTabIsAlone
  <2>3. \A n \in Messages : Len(rows'[n]) = lost'[n] + IF Shown(t, n)' THEN 1 ELSE 0
    BY <2>1, <2>2, <1>2, <1>3, GivenUp
  <2>4. \A u \in Tabs : u # t => state'[u] = None
    BY <1>3, <2>2 DEF Others, Solo
  <2> QED
    BY <2>3, <2>4, <1>3 DEF Solo
<1> QED
  BY <1>3, <1>5, <1>6, <1>7, <1>8, RatingStep

LEMMA RatingKept ==
  ASSUME RatingInv, [Rating!Next]_feedbackVars
  PROVE  RatingInv'
<1>1. ASSUME NEW t \in Tabs, NEW m \in Messages, Rating!OpenModal(t, m) PROVE RatingInv'
  BY <1>1, DialogKept
<1>2. CASE UNCHANGED feedbackVars
  BY <1>2
     DEF feedbackVars, RatingInv, Rating!TypeOK, Recorded, Has, TabInv, TabOK, SubmissionOK,
         Alone, Rating!RecordedOnce, Rating!Panels
<1> QED
  BY <1>1, <1>2, MountKept, LoadKept, DialogKept, RateKept, SubmitKept, StoreKept,
     AcknowledgeKept, FailKept, CloseTabKept
     DEF Rating!Next, Rating!Answered

-----------------------------------------------------------------------------
(* The list of chats, and the labels *)

\* The chat is on the server, or was put back, or its deletion has succeeded.
Accounted(c) ==
  c \in stored \cup returned
    \/ \E i \in DOMAIN removals : removals[i] = [chat |-> c, at |-> "removed"]

\* The label of an answer is some timeout's to take back.
Labelled(m) ==
  bundleStatus[m] # None =>
    \E i \in DOMAIN timers : timers[i] = [answer |-> m, status |-> bundleStatus[m]]

Requests == [chat : Chats, at : {"sent", "removed", "failed"}]
Labels == {"copied", "exported", "error"}
Timeouts == [answer : Answers, status : Labels]

LEMMA HistoryParts ==
  /\ HistoryInv <=>
       /\ History!TypeOK /\ \A c \in historyItems : Accounted(c)
       /\ \A m \in Answers : Labelled(m)
  /\ HistoryInv' <=>
       /\ History!TypeOK' /\ \A c \in historyItems' : Accounted(c)'
       /\ \A m \in Answers : Labelled(m)'
<1>1. ASSUME \A c \in historyItems : Accounted(c)
      PROVE  historyItems \subseteq
               stored \cup returned \cup {removals[i].chat : i \in DOMAIN removals}
  BY <1>1 DEF Accounted
<1>2. ASSUME \A c \in historyItems' : Accounted(c)'
      PROVE  historyItems' \subseteq
               stored' \cup returned' \cup {removals'[i].chat : i \in DOMAIN removals'}
  BY <1>2 DEF Accounted
<1>3. HistoryInv <=>
        /\ History!TypeOK /\ \A c \in historyItems : Accounted(c)
        /\ \A m \in Answers : Labelled(m)
  BY <1>1 DEF HistoryInv, History!ListsWhatIsStored, Accounted, Labelled
<1>4. HistoryInv' <=>
        /\ History!TypeOK' /\ \A c \in historyItems' : Accounted(c)'
        /\ \A m \in Answers : Labelled(m)'
  BY <1>2 DEF HistoryInv, History!ListsWhatIsStored, Accounted, Labelled
<1> QED
  BY <1>3, <1>4

LEMMA HistoryTypes ==
  ASSUME History!TypeOK
  PROVE  /\ stored \subseteq Chats /\ historyItems \subseteq Chats /\ returned \subseteq Chats
         /\ lists \in Seq((SUBSET Chats) \cup {None}) /\ removals \in Seq(Requests)
         /\ bundleStatus \in [Answers -> {None} \cup Labels] /\ timers \in Seq(Timeouts)
BY DEF History!TypeOK, Requests, Labels, Timeouts

LEMMA ClicksAreBounded ==
  ASSUME History!TypeOK, clicks' = clicks \/ (clicks < MaxClicks /\ clicks' = clicks + 1)
  PROVE  clicks' \in 0..MaxClicks
<1>1. MaxClicks \in Nat
  BY PageAssumption
<1> QED
  BY <1>1 DEF History!TypeOK

LEMMA OpenHistoryKept ==
  ASSUME HistoryInv, History!OpenHistory
  PROVE  HistoryInv'
<1>1. History!TypeOK /\ lists \in Seq((SUBSET Chats) \cup {None})
  BY HistoryTypes DEF HistoryInv
<1>2. /\ clicks < MaxClicks /\ clicks' = clicks + 1 /\ lists' = Append(lists, None)
      /\ showHistory' = TRUE /\ historyLoading' = TRUE /\ historyError' = FALSE
      /\ UNCHANGED <<stored, historyItems, removals, returned, bundleStatus, timers, copying>>
  BY DEF History!OpenHistory, History!Click, History!bundleVars
<1>3. lists' \in Seq((SUBSET Chats) \cup {None})
  BY <1>1, <1>2, AppendProperties
<1>4. clicks' \in 0..MaxClicks
  BY <1>1, <1>2, ClicksAreBounded
<1>5. History!TypeOK'
  BY <1>1, <1>2, <1>3, <1>4 DEF History!TypeOK
<1> QED
  BY <1>2, <1>5, HistoryParts DEF Accounted, Labelled

LEMMA CloseHistoryKept ==
  ASSUME HistoryInv, History!CloseHistory
  PROVE  HistoryInv'
BY DEF HistoryInv, History!CloseHistory, History!TypeOK, History!ListsWhatIsStored,
       History!bundleVars

LEMMA ServeListKept ==
  ASSUME HistoryInv, NEW i \in DOMAIN lists, History!ServeList(i)
  PROVE  HistoryInv'
<1>1. /\ History!TypeOK /\ lists \in Seq((SUBSET Chats) \cup {None})
      /\ stored \in (SUBSET Chats) \cup {None}
  BY HistoryTypes DEF HistoryInv
<1>2. /\ lists' = [lists EXCEPT ![i] = stored]
      /\ UNCHANGED <<stored, showHistory, historyItems, historyLoading, historyError,
                     removals, returned, bundleStatus, timers, copying, clicks>>
  BY DEF History!ServeList, History!bundleVars
<1>3. i \in 1..Len(lists)
  BY <1>1, LenProperties
<1>4. lists' \in Seq((SUBSET Chats) \cup {None})
  BY <1>1, <1>2, <1>3, ExceptSeq
<1>5. History!TypeOK'
  BY <1>1, <1>2, <1>4 DEF History!TypeOK
<1> QED
  BY <1>2, <1>5, HistoryParts DEF Accounted, Labelled

LEMMA ListedKept ==
  ASSUME HistoryInv, NEW i \in DOMAIN lists, History!Listed(i)
  PROVE  HistoryInv'
<1>1. /\ History!TypeOK /\ lists \in Seq((SUBSET Chats) \cup {None})
      /\ lists[i] \in (SUBSET Chats) \cup {None}
  BY HistoryTypes, LenProperties DEF HistoryInv
<1>2. /\ historyLoading' = FALSE /\ lists' = Without(lists, i)
      /\ UNCHANGED <<stored, showHistory, removals, bundleStatus, timers, copying, clicks>>
  BY DEF History!Listed, History!RemoveAt, Without, History!bundleVars
<1>3. lists' \in Seq((SUBSET Chats) \cup {None})
  BY <1>1, <1>2, Remaining
<1>4. CASE /\ lists[i] # None /\ historyItems' = lists[i]
           /\ returned' = lists[i] \ stored /\ UNCHANGED historyError
  <2>1. lists[i] \subseteq Chats
    BY <1>1, <1>4
  <2>2. History!TypeOK'
    BY <1>1, <1>2, <1>3, <1>4, <2>1 DEF History!TypeOK
  <2>3. \A c \in historyItems' : Accounted(c)'
    BY <1>2, <1>4 DEF Accounted
  <2> QED
    BY <1>2, <2>2, <2>3, HistoryParts DEF Labelled
<1>5. CASE historyError' = TRUE /\ UNCHANGED <<historyItems, returned>>
  <2>1. History!TypeOK'
    BY <1>1, <1>2, <1>3, <1>5 DEF History!TypeOK
  <2> QED
    BY <1>2, <1>5, <2>1, HistoryParts DEF Accounted, Labelled
<1> QED
  BY <1>4, <1>5 DEF History!Listed

LEMMA DeleteKept ==
  ASSUME HistoryInv, NEW c \in Chats, History!Delete(c)
  PROVE  HistoryInv'
<1>1. History!TypeOK /\ removals \in Seq(Requests)
  BY HistoryTypes DEF HistoryInv
<1> DEFINE request == [chat |-> c, at |-> "sent"]
<1>2. /\ clicks < MaxClicks /\ clicks' = clicks + 1 /\ removals' = Append(removals, request)
      /\ UNCHANGED <<stored, showHistory, historyItems, historyLoading, historyError, lists,
                     returned, bundleStatus, timers, copying>>
  BY DEF History!Delete, History!Click, History!bundleVars
<1>3. request \in Requests
  BY DEF Requests
<1> HIDE DEF request
<1>4. /\ removals' \in Seq(Requests) /\ Len(removals') = Len(removals) + 1
      /\ \A i \in 1..Len(removals) : removals'[i] = removals[i]
  BY <1>1, <1>2, <1>3, AppendProperties
<1>5. /\ DOMAIN removals = 1..Len(removals) /\ Len(removals) \in Nat
      /\ DOMAIN removals' = 1..(Len(removals) + 1)
  BY <1>1, <1>4, LenProperties
<1>6. \A i \in DOMAIN removals : i \in DOMAIN removals' /\ removals'[i] = removals[i]
  BY <1>4, <1>5
<1>7. History!TypeOK'
  <2>1. clicks' \in 0..MaxClicks
    BY <1>1, <1>2, ClicksAreBounded
  <2> QED
    BY <2>1, <1>1, <1>2, <1>4 DEF History!TypeOK, Requests
<1>8. \A d \in historyItems' : Accounted(d)'
  BY <1>2, <1>6, HistoryParts DEF Accounted
<1> QED
  BY <1>2, <1>7, <1>8, HistoryParts DEF Labelled

LEMMA ServeRemovalKept ==
  ASSUME HistoryInv, NEW i \in DOMAIN removals, History!ServeRemoval(i)
  PROVE  HistoryInv'
<1>1. History!TypeOK /\ removals \in Seq(Requests) /\ stored \subseteq Chats
  BY HistoryTypes DEF HistoryInv
<1>2. removals[i] \in Requests /\ i \in 1..Len(removals) /\ DOMAIN removals = 1..Len(removals)
  BY <1>1, LenProperties
<1>3. PICK c \in Chats : removals[i] = [chat |-> c, at |-> "sent"]
  BY <1>2 DEF Requests, History!ServeRemoval
<1> DEFINE next == IF c \in stored THEN "removed" ELSE "failed"
           answer == [chat |-> c, at |-> next]
<1>4. /\ removals' = [removals EXCEPT ![i] = answer] /\ stored' = stored \ {c}
      /\ UNCHANGED <<showHistory, historyItems, historyLoading, historyError, lists, returned,
                     bundleStatus, timers, copying, clicks>>
  <2>1. [removals[i] EXCEPT !.at = next] = answer
    BY <1>3
  <2>2. removals' = [removals EXCEPT ![i] = [removals[i] EXCEPT !.at = next]]
    BY <1>3 DEF History!ServeRemoval
  <2> QED
    BY <2>1, <2>2, <1>3 DEF History!ServeRemoval, History!bundleVars
<1>5. answer \in Requests
  BY DEF Requests
<1>6. /\ removals' \in Seq(Requests) /\ Len(removals') = Len(removals)
      /\ \A j \in 1..Len(removals) : removals'[j] = IF j = i THEN answer ELSE removals[j]
  <2> HIDE DEF answer
  <2> QED
    BY <1>1, <1>2, <1>4, <1>5, ExceptSeq
<1>7. DOMAIN removals' = DOMAIN removals
  BY <1>2, <1>6, LenProperties
<1>8. History!TypeOK'
  BY <1>1, <1>4, <1>6 DEF History!TypeOK, Requests
<1>9. ASSUME NEW d \in historyItems' PROVE Accounted(d)'
  <2>1. Accounted(d)
    BY <1>4, <1>9, HistoryParts
  <2>2. CASE d = c /\ d \in stored
    <3>1. removals'[i] = [chat |-> d, at |-> "removed"] /\ i \in DOMAIN removals'
      BY <2>2, <1>2, <1>6, <1>7
    <3> QED
      BY <3>1 DEF Accounted
  <2>3. CASE d \in returned \/ (d \in stored /\ d # c)
    BY <2>3, <1>4 DEF Accounted
  <2>4. ASSUME NEW j \in DOMAIN removals, removals[j] = [chat |-> d, at |-> "removed"]
        PROVE  Accounted(d)'
    <3>1. j # i
      BY <2>4, <1>3
    <3>2. removals'[j] = [chat |-> d, at |-> "removed"] /\ j \in DOMAIN removals'
      BY <2>4, <3>1, <1>2, <1>6, <1>7
    <3> QED
      BY <3>2 DEF Accounted
  <2> QED
    BY <2>1, <2>2, <2>3, <2>4 DEF Accounted
<1> QED
  BY <1>4, <1>8, <1>9, HistoryParts DEF Labelled

LEMMA RemovedKept ==
  ASSUME HistoryInv, NEW i \in DOMAIN removals, History!Removed(i)
  PROVE  HistoryInv'
<1>1. /\ History!TypeOK /\ removals \in Seq(Requests)
      /\ historyItems \subseteq Chats /\ returned \subseteq Chats
  BY HistoryTypes DEF HistoryInv
<1>2. removals[i] \in Requests
  BY <1>1, LenProperties
<1>3. PICK c \in Chats : removals[i].chat = c
  BY <1>2 DEF Requests
<1>4. /\ removals' = Without(removals, i)
      /\ UNCHANGED <<stored, showHistory, historyLoading, lists, bundleStatus, timers,
                     copying, clicks>>
      /\ \/ /\ removals[i].at = "removed" /\ historyItems' = historyItems \ {c}
            /\ UNCHANGED <<historyError, returned>>
         \/ /\ historyError' = TRUE /\ UNCHANGED historyItems
            /\ returned' = IF removals[i].at = "removed" THEN returned \cup {c} ELSE returned
  BY <1>3 DEF History!Removed, History!RemoveAt, Without, History!bundleVars
<1>5. /\ removals' \in Seq(Requests)
      /\ \A j \in DOMAIN removals : j # i =>
           \E k \in DOMAIN removals' : removals'[k] = removals[j]
  BY <1>1, <1>4, Remaining
<1>6. historyItems' \subseteq Chats /\ returned' \subseteq Chats /\ historyError' \in BOOLEAN
  BY <1>1, <1>3, <1>4 DEF History!TypeOK
<1>7. History!TypeOK'
  BY <1>1, <1>4, <1>5, <1>6 DEF History!TypeOK, Requests
<1>8. ASSUME NEW d \in historyItems' PROVE Accounted(d)'
  <2>1. Accounted(d) /\ returned \subseteq returned'
    BY <1>4, <1>8, HistoryParts
  <2>2. CASE d \in stored \cup returned
    BY <2>1, <2>2, <1>4 DEF Accounted
  <2>3. ASSUME NEW j \in DOMAIN removals, removals[j] = [chat |-> d, at |-> "removed"]
        PROVE  Accounted(d)'
    <3>1. CASE j = i
      <4>1. d = c /\ removals[i].at = "removed"
        BY <2>3, <3>1, <1>3
      <4>2. d \in returned'
        BY <4>1, <1>4, <1>8
      <4> QED
        BY <4>2 DEF Accounted
    <3>2. CASE j # i
      BY <2>3, <3>2, <1>5 DEF Accounted
    <3> QED
      BY <3>1, <3>2
  <2> QED
    BY <2>1, <2>2, <2>3 DEF Accounted
<1> QED
  BY <1>4, <1>7, <1>8, HistoryParts DEF Labelled

LEMMA MarkKept ==
  ASSUME HistoryInv, NEW m \in Answers, NEW status \in Labels, History!Mark(m, status),
         UNCHANGED <<stored, showHistory, historyItems, historyLoading, historyError, lists,
                     removals, returned>>,
         copying' \subseteq Answers, clicks' \in 0..MaxClicks
  PROVE  HistoryInv'
<1>1. /\ History!TypeOK /\ bundleStatus \in [Answers -> {None} \cup Labels]
      /\ timers \in Seq(Timeouts)
  BY HistoryTypes DEF HistoryInv
<1> DEFINE timeout == [answer |-> m, status |-> status]
<1>2. bundleStatus' = [bundleStatus EXCEPT ![m] = status] /\ timers' = Append(timers, timeout)
  BY DEF History!Mark
<1>3. timeout \in Timeouts
  BY DEF Timeouts
<1>4. /\ timers' \in Seq(Timeouts) /\ Len(timers') = Len(timers) + 1
      /\ \A i \in 1..Len(timers) : timers'[i] = timers[i]
      /\ timers'[Len(timers) + 1] = timeout
  <2> HIDE DEF timeout
  <2> QED
    BY <1>1, <1>2, <1>3, AppendProperties
<1>5. /\ DOMAIN timers = 1..Len(timers) /\ Len(timers) \in Nat
      /\ DOMAIN timers' = 1..(Len(timers) + 1)
  BY <1>1, <1>4, LenProperties
<1>6. Len(timers) + 1 \in DOMAIN timers'
      /\ \A i \in DOMAIN timers : i \in DOMAIN timers' /\ timers'[i] = timers[i]
  BY <1>4, <1>5
<1>7. /\ bundleStatus' \in [Answers -> {None} \cup Labels] /\ bundleStatus'[m] = status
      /\ \A n \in Answers : n # m => bundleStatus'[n] = bundleStatus[n]
  BY <1>1, <1>2
<1>8. History!TypeOK'
  BY <1>1, <1>4, <1>7 DEF History!TypeOK, Labels, Timeouts
<1>9. ASSUME NEW n \in Answers PROVE Labelled(n)'
  <2>1. CASE n = m
    <3>1. timers'[Len(timers) + 1] = [answer |-> n, status |-> bundleStatus'[n]]
      BY <2>1, <1>4, <1>7
    <3> QED
      BY <3>1, <1>6 DEF Labelled
  <2>2. CASE n # m
    <3>1. Labelled(n) /\ bundleStatus'[n] = bundleStatus[n]
      BY <2>2, <1>7, HistoryParts
    <3> QED
      BY <3>1, <1>6 DEF Labelled
  <2> QED
    BY <2>1, <2>2
<1>10. \A c \in historyItems' : Accounted(c)'
  BY HistoryParts DEF Accounted
<1> QED
  BY <1>8, <1>9, <1>10, HistoryParts

LEMMA ExpireKept ==
  ASSUME HistoryInv, NEW i \in DOMAIN timers, History!Expire(i)
  PROVE  HistoryInv'
<1>1. /\ History!TypeOK /\ bundleStatus \in [Answers -> {None} \cup Labels]
      /\ timers \in Seq(Timeouts) /\ timers[i] \in Timeouts
  BY HistoryTypes, LenProperties DEF HistoryInv
<1>2. PICK m \in Answers, status \in Labels : timers[i] = [answer |-> m, status |-> status]
  BY <1>1 DEF Timeouts
<1>3. /\ timers' = Without(timers, i)
      /\ bundleStatus' = IF bundleStatus[m] = status
                         THEN [bundleStatus EXCEPT ![m] = None] ELSE bundleStatus
      /\ UNCHANGED <<stored, showHistory, historyItems, historyLoading, historyError, lists,
                     removals, returned, copying, clicks>>
  BY <1>2 DEF History!Expire, History!RemoveAt, Without, History!listVars
<1>4. /\ timers' \in Seq(Timeouts)
      /\ \A j \in DOMAIN timers : j # i => \E k \in DOMAIN timers' : timers'[k] = timers[j]
  BY <1>1, <1>3, Remaining
<1>5. bundleStatus' \in [Answers -> {None} \cup Labels]
  BY <1>1, <1>3
<1>6. History!TypeOK'
  BY <1>1, <1>3, <1>4, <1>5 DEF History!TypeOK, Labels, Timeouts
<1>7. ASSUME NEW n \in Answers PROVE Labelled(n)'
  <2> SUFFICES ASSUME bundleStatus'[n] # None
               PROVE  \E k \in DOMAIN timers' :
                        timers'[k] = [answer |-> n, status |-> bundleStatus'[n]]
    BY DEF Labelled
  <2>1. bundleStatus'[n] = bundleStatus[n] /\ ~(n = m /\ bundleStatus[n] = status)
    BY <1>1, <1>3
  <2>2. PICK j \in DOMAIN timers : timers[j] = [answer |-> n, status |-> bundleStatus[n]]
    BY <2>1, HistoryParts DEF Labelled
  <2>3. j # i
    BY <2>1, <2>2, <1>2
  <2> QED
    BY <2>1, <2>2, <2>3, <1>4
<1>8. \A c \in historyItems' : Accounted(c)'
  BY <1>3, HistoryParts DEF Accounted
<1> QED
  BY <1>6, <1>7, <1>8, HistoryParts

LEMMA HistoryKept ==
  ASSUME HistoryInv, [History!Next]_historyVars
  PROVE  HistoryInv'
<1>1. History!TypeOK /\ copying \subseteq Answers
  BY DEF HistoryInv, History!TypeOK
<1>2. ASSUME NEW m \in Answers, History!Copy(m) PROVE HistoryInv'
  <2>1. /\ clicks' \in 0..MaxClicks /\ copying' \subseteq Answers
        /\ UNCHANGED <<stored, showHistory, historyItems, historyLoading, historyError, lists,
                       removals, returned, bundleStatus, timers>>
    BY <1>1, <1>2, ClicksAreBounded DEF History!Copy, History!Click, History!listVars
  <2>2. History!TypeOK'
    BY <1>1, <2>1 DEF History!TypeOK
  <2> QED
    BY <2>1, <2>2, HistoryParts DEF Accounted, Labelled
<1>3. ASSUME NEW m \in Answers, History!Copied(m) PROVE HistoryInv'
  <2>1. PICK status \in {"copied", "error"} : History!Mark(m, status)
    BY <1>3 DEF History!Copied
  <2>2. /\ copying' \subseteq Answers
        /\ clicks' = clicks \/ (clicks < MaxClicks /\ clicks' = clicks + 1)
        /\ UNCHANGED <<stored, showHistory, historyItems, historyLoading, historyError, lists,
                       removals, returned>>
    BY <1>1, <1>3 DEF History!Copied, History!listVars
  <2>3. clicks' \in 0..MaxClicks
    BY <1>1, <2>2, ClicksAreBounded
  <2>4. status \in Labels
    BY DEF Labels
  <2> QED
    BY <2>1, <2>2, <2>3, <2>4, MarkKept
<1>4. ASSUME NEW m \in Answers, History!Export(m) PROVE HistoryInv'
  <2>1. PICK status \in {"exported", "error"} : History!Mark(m, status)
    BY <1>4 DEF History!Export
  <2>2. /\ copying' \subseteq Answers
        /\ clicks' = clicks \/ (clicks < MaxClicks /\ clicks' = clicks + 1)
        /\ UNCHANGED <<stored, showHistory, historyItems, historyLoading, historyError, lists,
                       removals, returned>>
    BY <1>1, <1>4 DEF History!Export, History!Click, History!listVars
  <2>3. clicks' \in 0..MaxClicks
    BY <1>1, <2>2, ClicksAreBounded
  <2>4. status \in Labels
    BY DEF Labels
  <2> QED
    BY <2>1, <2>2, <2>3, <2>4, MarkKept
<1>5. CASE UNCHANGED historyVars
  BY <1>5 DEF historyVars, HistoryInv, History!TypeOK, History!ListsWhatIsStored
<1> QED
  BY <1>2, <1>3, <1>4, <1>5, OpenHistoryKept, CloseHistoryKept, ServeListKept, ListedKept,
     DeleteKept, ServeRemovalKept, RemovedKept, ExpireKept
     DEF History!Next

-----------------------------------------------------------------------------
(* The login check *)

LEMMA GateKept ==
  ASSUME Gate!TypeOK, [Gate!Next]_gateVars
  PROVE  Gate!TypeOK'
<1>1. MaxUpsets \in Nat /\ upsets \in 0..MaxUpsets
  BY PageAssumption DEF Gate!TypeOK
<1>2. upsets' = upsets \/ (upsets < MaxUpsets /\ upsets' = upsets + 1)
  BY DEF Gate!Next, Gate!LogInOrOut, Gate!Ask, Gate!Serve, Gate!Fail, Gate!Answered,
         Gate!Upset, gateVars
<1>3. upsets' \in 0..MaxUpsets
  BY <1>1, <1>2
<1> QED
  BY <1>3 DEF Gate!TypeOK, Gate!Next, Gate!LogInOrOut, Gate!Ask, Gate!Serve, Gate!Fail,
              Gate!Answered, gateVars

-----------------------------------------------------------------------------
(* The page *)

LEMMA PaneStarts == Pane!Init => PaneInv
<1> SUFFICES ASSUME Pane!Init PROVE PaneInv
  OBVIOUS
<1>1. /\ src = Pane!Start /\ page = Pane!Start /\ lastUrl = None /\ fetching = <<>>
      /\ context = None /\ visits = 0 /\ newest = None /\ behind = FALSE
  BY DEF Pane!Init
<1>2. Pane!Start \in Pane!Urls /\ 0 \in 0..MaxVisits
  BY PageAssumption DEF Pane!Urls
<1>3. fetching \in Seq([url : Pane!Urls, late : BOOLEAN]) /\ DOMAIN fetching = {}
  BY <1>1, EmptySeq, LenProperties
<1>4. Pane!TypeOK
  BY <1>1, <1>2, <1>3, Zenon DEF Pane!TypeOK
<1> QED
  BY <1>1, <1>3, <1>4 DEF PaneInv, Pane!ContextFollows

LEMMA PickerStarts == Picker!Init => PickerInv
<1> SUFFICES ASSUME Picker!Init PROVE PickerInv
  OBVIOUS
<1>1. /\ open = FALSE /\ tab = FirstTab /\ query = Picker!Blank /\ highlight = 0
      /\ results = <<>> /\ loading = FALSE /\ timer = None /\ inflight = <<>>
      /\ DOMAIN cache = {} /\ chips = {} /\ captured = {} /\ isLoading = FALSE
      /\ known = FALSE /\ moves = 0 /\ picked = {} /\ overtaken = FALSE
      /\ last = [chips |-> {}, carried |-> {}, picked |-> {}]
  BY DEF Picker!Init
<1>2. FirstTab \in Picker!EntityTabs /\ Picker!Blank \in Picker!Queries
  BY KeyProperties
<1>3. 0 \in 0..MaxMoves /\ 0 \in Int
  BY PageAssumption
<1>4. results \in Picker!Lists /\ inflight \in Seq(Picker!Keys)
  BY <1>1 DEF Picker!Lists
<1>5. Picker!TypeOK
  BY <1>1, <1>2, <1>3, <1>4, Zenon DEF Picker!TypeOK
<1>6. Picker!ShowsItsSearch
  BY <1>1 DEF Picker!ShowsItsSearch, Picker!TimerIsAsked, Picker!ListIsAsked,
              Picker!SpinnerHidesKnown
<1> QED
  BY <1>1, <1>5, <1>6 DEF PickerInv, Picker!CarriesItsOwn

LEMMA RatingStarts == Rating!Init => RatingInv
<1> SUFFICES ASSUME Rating!Init PROVE RatingInv
  OBVIOUS
<1>1. /\ storage = Rating!Nothing /\ acts = 0 /\ edited = {} /\ exposed = FALSE
      /\ loaded = [t \in Tabs |-> None] /\ state = [t \in Tabs |-> None]
      /\ modal = [t \in Tabs |-> None] /\ submitting = [t \in Tabs |-> None]
      /\ rows = [m \in Messages |-> <<>>] /\ lost = [m \in Messages |-> 0]
  BY DEF Rating!Init
<1>2. /\ Rating!Nothing \in Rating!Entries
      /\ \A m \in Messages : ~Rating!Nothing[m].submitted
  BY NothingIsAnEntry DEF Rating!Nothing, Rating!Fresh
<1>3. MaxActs \in Nat /\ <<>> \in Seq(1..MaxRating) /\ Len(<<>>) = 0
  BY PageAssumption
<1>4. Rating!TypeOK
  <2>1. rows \in [Messages -> Seq(1..MaxRating)] /\ acts \in 0..MaxActs
    BY <1>1, <1>3
  <2> QED
    BY <2>1, <1>1, <1>2 DEF Rating!TypeOK
<1>5. Recorded(storage)
  BY <1>1, <1>2 DEF Recorded
<1>6. \A t \in Tabs : TabInv(t)
  BY <1>1 DEF TabInv, TabOK, SubmissionOK
<1>7. Alone
  BY <1>1 DEF Alone
<1>8. Rating!RecordedOnce
  <2>1. Rating!Panels = {storage}
    BY <1>1 DEF Rating!Panels
  <2>2. \A m \in Messages : Len(rows[m]) = lost[m] + 0
    BY <1>1, <1>3
  <2> QED
    BY <2>1, <2>2, <1>1, <1>2 DEF Rating!RecordedOnce
<1> QED
  BY <1>4, <1>5, <1>6, <1>7, <1>8 DEF RatingInv

LEMMA HistoryStarts == History!Init => HistoryInv
<1> SUFFICES ASSUME History!Init PROVE HistoryInv
  OBVIOUS
<1>1. /\ stored = Chats /\ showHistory = FALSE /\ historyItems = {}
      /\ historyLoading = FALSE /\ historyError = FALSE /\ lists = <<>> /\ removals = <<>>
      /\ returned = {} /\ clicks = 0 /\ bundleStatus = [m \in Answers |-> None]
      /\ timers = <<>> /\ copying = {}
  BY DEF History!Init
<1>2. 0 \in 0..MaxClicks
  BY PageAssumption
<1>3. /\ lists \in Seq((SUBSET Chats) \cup {None})
      /\ removals \in Seq([chat : Chats, at : {"sent", "removed", "failed"}])
      /\ timers \in Seq([answer : Answers, status : {"copied", "exported", "error"}])
      /\ bundleStatus \in [Answers -> {None, "copied", "exported", "error"}]
  BY <1>1
<1>4. History!TypeOK
  BY <1>1, <1>2, <1>3, Zenon DEF History!TypeOK
<1> QED
  BY <1>1, <1>4 DEF HistoryInv, History!ListsWhatIsStored

LEMMA GateStarts == Gate!Init => Gate!TypeOK
<1>1. 0 \in 0..MaxUpsets
  BY PageAssumption
<1> QED
  BY <1>1, Zenon DEF Gate!Init, Gate!TypeOK

LEMMA InitIInv == Init => IInv
BY PaneStarts, GateStarts, PickerStarts, BubbleStarts, RatingStarts, HistoryStarts
   DEF Init, IInv

\* A part that does not take a step keeps its invariant.
LEMMA PartsStay ==
  ASSUME IInv
  PROVE  /\ UNCHANGED paneVars => PaneInv'
         /\ UNCHANGED gateVars => Gate!TypeOK'
         /\ UNCHANGED pickerVars => PickerInv'
         /\ UNCHANGED bubbleVars => BubbleInv'
         /\ UNCHANGED feedbackVars => RatingInv'
         /\ UNCHANGED historyVars => HistoryInv'
BY PaneKept, GateKept, PickerKept, BubbleKept, RatingKept, HistoryKept DEF IInv

LEMMA NextIInv == IInv /\ [Next]_vars => IInv'
<1> SUFFICES ASSUME IInv, [Next]_vars PROVE IInv'
  OBVIOUS
<1>1. CASE OnPane /\ Pane!Next
  BY <1>1, PaneKept, PartsStay DEF OnPane, IInv
<1>2. CASE OnGate /\ Gate!Next
  BY <1>2, GateKept, PartsStay DEF OnGate, IInv
<1>3. CASE OnPicker /\ Picker!Next
  BY <1>3, PickerKept, PartsStay DEF OnPicker, IInv
<1>4. CASE OnBubble /\ Answer!Next
  BY <1>4, BubbleKept, PartsStay DEF OnBubble, IInv
<1>5. CASE OnFeedback /\ Rating!Next
  BY <1>5, RatingKept, PartsStay DEF OnFeedback, IInv
<1>6. CASE OnHistory /\ History!Next
  BY <1>6, HistoryKept, PartsStay DEF OnHistory, IInv
<1>7. CASE UNCHANGED vars
  BY <1>7, PartsStay DEF vars, IInv
<1> QED
  BY <1>1, <1>2, <1>3, <1>4, <1>5, <1>6, <1>7 DEF Next

\* Whatever the user, the browser and the server do on the page, each of its
\* parts keeps its invariant (App.tsx, ChatPanel.tsx, hooks/useContextSearch.ts,
\* hooks/useFeedback.ts).
THEOREM Invariant == Spec => []IInv
BY InitIInv, NextIInv, PTL DEF Spec

\* Every variable of the page stays in its range: src of the iframe is always
\* the URL of a page of Grafana below the base path, whichever of its forms the
\* link of a tool result had (App.tsx, handleToolNavigate).
THEOREM TypeCorrect == Spec => []TypeOK
<1>1. IInv => TypeOK
  BY DEF IInv, TypeOK, PaneInv, PickerInv, BubbleInv, RatingInv, HistoryInv
<1> QED
  BY <1>1, Invariant, PTL

\* The debounce timer is never one of an earlier query, a list on screen is the
\* answer to the query in the field unless an earlier answer came late, and a
\* spinner that waits for nothing hides the cached answer
\* (hooks/useContextSearch.ts).
THEOREM SearchIsShown == Spec => []ShowsItsSearch
<1>1. IInv => ShowsItsSearch
  BY DEF IInv, ShowsItsSearch, PickerInv
<1> QED
  BY <1>1, Invariant, PTL

\* The context of a message is that of the page polled last, unless an answer
\* came after that of a later page, and what it carries beside it was picked
\* for it (App.tsx, updateContextFromUrl; ChatPanel.tsx, sendMessage).
THEOREM ContextIsCarried == Spec => []CarriesContext
<1>1. IInv => CarriesContext
  BY DEF IInv, CarriesContext, PaneInv, PickerInv
<1> QED
  BY <1>1, Invariant, PTL

\* A rating shown as submitted is in the table unless it was rated again in
\* time, an answer has one row and one more for each answer to a submission
\* that was lost while there is one tab, and a chat in the list is on the
\* server, is being deleted, or was put back (hooks/useFeedback.ts,
\* ChatPanel.tsx).
THEOREM StoredIsShown == Spec => []ShowsWhatIsStored
<1>1. IInv => Rating!SubmittedIsRecorded
  <2> SUFFICES ASSUME IInv, NEW s \in Rating!Panels, NEW m \in Messages, s[m].submitted
               PROVE  \E i \in DOMAIN rows[m] : m \in edited \/ rows[m][i] = s[m].rating
    BY DEF Rating!SubmittedIsRecorded
  <2>1. Recorded(s)
    BY DEF IInv, RatingInv, TabInv, Rating!Panels
  <2> QED
    BY <2>1 DEF Recorded, Has
<1>2. IInv => ShowsWhatIsStored
  BY <1>1 DEF IInv, ShowsWhatIsStored, RatingInv, HistoryInv
<1> QED
  BY <1>2, Invariant, PTL

\* Whatever lines an answer is made of and however many: only an unfinished
\* item or an indented number stops the renderer, a block that another one
\* follows stays while more lines come, and when the stream is over each
\* artifact that is as the schema says is shown and no other line is lost
\* (MarkdownContent.tsx, lib/utils.ts, Artifact.tsx).
THEOREM AnswersShown == Spec => []AnswersAreShown
<1>1. IInv => AnswersAreShown
  BY OnlyUnfinished, BlocksSettled, EverythingShown DEF IInv, BubbleInv, AnswersAreShown
<1> QED
  BY <1>1, Invariant, PTL
=============================================================================
