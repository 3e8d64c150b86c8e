----------------------------- MODULE MCGraphWalks -----------------------------
(***************************************************************************)
(* The stored dependency graph and the two walks over such graphs.  A      *)
(* behaviour runs one of three machines, the others stay where they began: *)
(* the edge requests on four components of two products, or one walk on    *)
(* any graph of three components without self-edges, cyclic ones included, *)
(* with any start, target and assignment of own levels.                    *)
(***************************************************************************)
EXTENDS ReachabilitySearch, LevelWalk, DependencyGraph

AllGraphs == SUBSET {e \in Nodes \X Nodes : e[1] # e[2]}

\* Own levels of the active components: any subset of them, any levels.
AllOwnLevels == UNION {[S -> Levels] : S \in SUBSET Components}

NoSearch ==
    /\ graph = {}
    /\ target = (CHOOSE n \in Nodes : TRUE) /\ start = target
    /\ stack = <<>> /\ seen = {} /\ answer = "reachable"

NoWalk ==
    /\ edges = {}
    /\ own = [n \in {} |-> NONE]
    /\ calls = <<>> /\ visiting = {} /\ memo = [n \in {} |-> NONE]

NoRequests ==
    /\ product = [p \in {} |-> {}] /\ component = [c \in {} |-> {}]
    /\ dependency = {} /\ reply = Ok

Init ==
    \/ SearchInit(AllGraphs) /\ NoWalk /\ NoRequests
    \/ WalkInit(AllGraphs, AllOwnLevels) /\ NoSearch /\ NoRequests
    \/ GraphInit /\ NoSearch /\ NoWalk

Serving == DOMAIN product # {}

Next ==
    \/ SearchNext /\ UNCHANGED <<walkVars, graphVars>>
    \/ ~Serving /\ WalkNext /\ UNCHANGED <<searchVars, graphVars>>
    \/ Serving /\ GraphNext /\ UNCHANGED <<searchVars, walkVars>>

Spec ==
    /\ Init /\ [][Next]_<<searchVars, walkVars, graphVars>>
    /\ WF_searchVars(SearchNext /\ UNCHANGED <<walkVars, graphVars>>)
    /\ WF_walkVars(~Serving /\ WalkNext /\ UNCHANGED <<searchVars, graphVars>>)
=============================================================================
