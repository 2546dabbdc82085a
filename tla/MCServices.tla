----------------------------- MODULE MCServices -----------------------------
(***************************************************************************)
(* Small instance of Services: two sessions of one user, whose scratchpads *)
(* have one title; three tools, and lists that name them in both ways.     *)
(***************************************************************************)
EXTENDS Services

CONSTANTS s1, s2

MCSessions == {s1, s2}
MCUser == [s \in MCSessions |-> "ada"]

Named(short) == [server |-> "", short |-> short]
Tool(short) == [server |-> "grafana", short |-> short]
MCOffers == {{}, {Tool("query")}, {Tool("query"), Tool("delete"), Tool("list")}}
MCLists ==
  {[allow |-> {}, deny |-> {Named("delete")}],
   [allow |-> {Named("query"), Tool("delete")}, deny |-> {}],
   [allow |-> {Named("query"), Named("delete")}, deny |-> {Tool("delete")}],
   [allow |-> {Tool("list")}, deny |-> {Named("list")}]}
=============================================================================
