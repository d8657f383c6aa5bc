---------------------------- MODULE MCWebServer ----------------------------
EXTENDS WebServer

(* Requests that give at most two parameters besides the module.           *)
FewParams ==
    {r \in Select :
        Cardinality({x \in {"metric", "start", "end", "ip"} : r[x] # None}
                    \cup (IF r.watch = 10 THEN {} ELSE {"watch"})) <= 2}
=============================================================================
