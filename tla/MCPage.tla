------------------------------- MODULE MCPage -------------------------------
(***************************************************************************)
(* Small instance of Page: two dashboards, one of them with a variable,    *)
(* Explore with two panes and with none that can be read, and a page       *)
(* without a context; two tabs of the picker; every kind of line.          *)
(***************************************************************************)
EXTENDS Page, TLC

Url(path, time, variables, panes) ==
  [path |-> <<"grafana">> \o path, time |-> time, variables |-> variables, panes |-> panes]
Explored(source, time, queries) == [datasource |-> source, time |-> time, queries |-> queries]

MCBase == <<"assistant">>
MCPages ==
  {Url(<<"d", "cpu", "d">>, "hour", "host", None),
   Url(<<"d", "disk">>, "day", None, None),
   Url(<<"explore">>, None, None,
       <<Explored(None, "hour", <<"up">>), Explored("prom", "day", <<"rate", "sum">>)>>),
   Url(<<"explore">>, None, None, None),
   Url(<<"x", "d">>, None, None, None)}

MCHits ==
  <<"datasource", "">> :> <<"prom", "loki">> @@ <<"datasource", "l">> :> <<"loki">>
  @@ <<"metric", "">> :> <<"up">> @@ <<"metric", "l">> :> <<>>

Line(kind, indented) == [k |-> kind, indent |-> indented]
MCLines ==
  {Line(kind, FALSE) : kind \in {"text", "blank", "head", "mid", "num", "num0", "bullet",
                                 "bullet0", "fence", "art", "json"}}
  \cup {Line(kind, TRUE) : kind \in {"num", "bullet", "fence"}}
=============================================================================
