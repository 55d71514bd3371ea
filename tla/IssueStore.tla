----------------------------- MODULE IssueStore -----------------------------
(***************************************************************************)
(* What the issue repository promises its callers, written from spec.md   *)
(* sections 3, 4.2, 4.3 and 7: the store holds each issue together with   *)
(* its one scope, the links it owns and the relationship edges, and every *)
(* repository call changes it in one atomic step or not at all ("no        *)
(* operation partially commits").                                          *)
(*                                                                         *)
(* The promises the implementation does not keep under concurrency are    *)
(* deliberately absent, so that this specification states what the code   *)
(* does guarantee: one issue per dedup key, ResolveByScope leaving         *)
(* RESOLVED issues untouched, and one edge per pair are each checked (and  *)
(* found violated) on IssueRepository directly.                            *)
(***************************************************************************)
EXTENDS Naturals, Bags, BagsExt

CONSTANTS Ids, LinkVals, NoRow, NullStamp, Active, Resolved

VARIABLES
    issues,  \* id -> [row |-> issue record, scope |-> scope record], or NoRow
    links,   \* set of <<issue id, link>>
    edges    \* bag of <<source, target>>

avars == <<issues, links, edges>>

Stored(i) == issues[i] # NoRow
Owned(i) == {x \in links : x[1] = i}
Incident(i) == {e \in BagToSet(edges) : i \in {e[1], e[2]}}
KeepOthers(S) == \A j \in Ids \ S : issues'[j] = issues[j]

AInit ==
    /\ issues = [i \in Ids |-> NoRow]
    /\ links = {}
    /\ edges = EmptyBag

\* CreateOrUpdate or Create inserting: the issue and its scope appear
\* together, ACTIVE unless the report says otherwise, resolved-at null, with
\* the report's links.
Insert(i) ==
    /\ ~Stored(i)
    /\ issues'[i] # NoRow
    /\ issues'[i].row # NoRow /\ issues'[i].scope # NoRow
    /\ issues'[i].row.resolved = NullStamp
    /\ KeepOthers({i})
    /\ \E L \in SUBSET LinkVals : links' = links \cup ({i} \X L)
    /\ UNCHANGED edges

\* Update semantics: the issue and its scope change in place; the link set
\* is kept or replaced as a whole; edges are untouched.
Modify(i) ==
    /\ Stored(i)
    /\ issues'[i] # NoRow
    /\ issues'[i].row # NoRow /\ issues'[i].scope # NoRow
    /\ KeepOthers({i})
    /\ \/ links' = links
       \/ \E L \in SUBSET LinkVals : links' = (links \ Owned(i)) \cup ({i} \X L)
    /\ UNCHANGED edges

\* ResolveByScope: a set of issues becomes RESOLVED with one resolved-at
\* timestamp; nothing else changes.
Resolve(R) ==
    /\ R # {} /\ \A i \in R : Stored(i)
    /\ \A i \in R :
        /\ issues'[i] = [issues[i] EXCEPT !.row.state = Resolved,
                                          !.row.resolved = issues'[i].row.resolved]
        /\ issues'[i].row.resolved # NullStamp
    /\ \A i, j \in R : issues'[i].row.resolved = issues'[j].row.resolved
    /\ KeepOthers(R)
    /\ UNCHANGED <<links, edges>>

\* Delete: the issue, its scope, its links and every incident edge go
\* together.
Remove(i) ==
    /\ Stored(i)
    /\ issues' = [issues EXCEPT ![i] = NoRow]
    /\ links' = links \ Owned(i)
    /\ edges' = [e \in BagToSet(edges) \ Incident(i) |-> edges[e]]

\* AddRelatedIssue between two stored issues.
Relate(a, b) ==
    /\ Stored(a) /\ Stored(b)
    /\ edges' = BagAdd(edges, <<a, b>>)
    /\ UNCHANGED <<issues, links>>

\* RemoveRelatedIssue: the pair goes in both directions.
Unrelate(a, b) ==
    /\ {<<a, b>>, <<b, a>>} \cap BagToSet(edges) # {}
    /\ edges' = BagRemoveAll(BagRemoveAll(edges, <<a, b>>), <<b, a>>)
    /\ UNCHANGED <<issues, links>>

ANext ==
    \/ \E i \in Ids : Insert(i) \/ Modify(i) \/ Remove(i)
    \/ \E R \in SUBSET Ids : Resolve(R)
    \/ \E a, b \in Ids : Relate(a, b) \/ Unrelate(a, b)

ASpec == AInit /\ [][ANext]_avars
====
