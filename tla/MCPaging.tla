------------------------------ MODULE MCPaging ------------------------------
(* Instances of Paging: a site of a few rows, read one row a page.  Days     *)
(* are counted only for the collectors whose queries have dates.             *)
EXTENDS Paging

FewPosts == [k \in Kinds |-> IF k \in {"html", "feed"} THEN 4 ELSE 3]

FewShelves == [k \in Kinds |-> IF k = "volumes" THEN 3 ELSE 2]

FewDays == [k \in Kinds |->
              CASE k \in {"oai", "volumes"} -> 1
                [] k \in {"arxiv", "sec", "sse", "cninfo"} -> 2
                [] OTHER -> 0]
=============================================================================
