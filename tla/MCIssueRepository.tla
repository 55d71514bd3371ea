------------------------- MODULE MCIssueRepository -------------------------
(***************************************************************************)
(* Instantiates IssueRepository for TLC.  Reports are shaped like the ones *)
(* the webhook handlers build (webhook_handlers.go): no state, the         *)
(* resource namespace equal to the namespace, one or no link.              *)
(***************************************************************************)
EXTENDS IssueRepository, TLC

CONSTANTS p1, p2, i1, i2, i3, i4, l1, l2

MCProcs == {p1, p2}
MCIds == {i1, i2, i3, i4}
MCLinkVals == {l1, l2}

Report(name, ls) ==
    [ns |-> "team", itype |-> "build", rtype |-> "pipelinerun", rname |-> name,
     rns |-> "team", desc |-> "failed", state |-> "", resolvedAt |-> FALSE,
     links |-> ls]

\* one pipeline run reported, with and without its log link
MCReports == {Report("run1", {l1})}

\* two pipeline runs, so that two distinct issues exist
MCTwoRuns == {Report("run1", {l1}), Report("run2", {})}


\* PUT /issues/:id payloads: resolve it by hand, or relink it
MCUpdateReqs ==
    {[ns |-> "", itype |-> "", rtype |-> "", rname |-> "", rns |-> "",
      desc |-> "", state |-> "RESOLVED", resolvedAt |-> FALSE, links |-> {}],
     [ns |-> "", itype |-> "", rtype |-> "", rname |-> "", rns |-> "",
      desc |-> "edited", state |-> "", resolvedAt |-> FALSE, links |-> {l2}]}

\* the relink alone: Update then locks the issue row before its links
MCRelink == {u \in MCUpdateReqs : u.links # {}}

\* the pipeline-success webhook for the reported run
MCResolveScopes == {[rtype |-> "pipelinerun", rname |-> "run1", ns |-> "team"]}

\* FindAll filters: none, then one field at a time (a namespace matching
\* nothing, each state, each scope filter with its JOIN, the edited
\* description as search term), then pages of one row
NoFilter == [ns |-> "", itype |-> "", state |-> "", rtype |-> "", rname |-> "",
             search |-> "", limit |-> 0, offset |-> 0]
MCQueryFilters ==
    {NoFilter,
     [NoFilter EXCEPT !.ns = "other"],
     [NoFilter EXCEPT !.state = "ACTIVE"],
     [NoFilter EXCEPT !.state = "RESOLVED"],
     [NoFilter EXCEPT !.rtype = "pipelinerun"],
     [NoFilter EXCEPT !.rname = "run2"],
     [NoFilter EXCEPT !.search = "edited"],
     [NoFilter EXCEPT !.offset = 1],
     [NoFilter EXCEPT !.limit = 1],
     [NoFilter EXCEPT !.limit = 1, !.offset = 1],
     [NoFilter EXCEPT !.state = "ACTIVE", !.limit = 1, !.offset = 1]}

MCSymmetry == Permutations(MCIds)
=============================================================================
