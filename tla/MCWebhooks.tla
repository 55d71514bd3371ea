---------------------------- MODULE MCWebhooks ----------------------------
(***************************************************************************)
(* Instantiates Webhooks for TLC: one pipeline run, one MintMaker          *)
(* component and one application, each failing and succeeding, plus a     *)
(* request with a missing field and a MintMaker request with no logs.      *)
(***************************************************************************)
EXTENDS Webhooks, TLC

CONSTANTS p1, p2, i1, i2, i3, i4

MCProcs == {p1, p2}
MCIds == {i1, i2, i3, i4}

Hook(k, name, reason, logs) ==
    [kind |-> k, name |-> name, ns |-> "team", reason |-> reason,
     release |-> IF k = RF THEN "rel-1" ELSE "", logs |-> logs,
     logsUrl |-> "", runId |-> IF k = PF THEN "r1" ELSE "", query |-> "team"]

\* checked against one namespace, written to another
Elsewhere(w) == [w EXCEPT !.ns = "victim"]

PipelineHooks ==
    {Hook(PF, "build-1", "oom", <<>>), Hook(PS, "build-1", "", <<>>),
     Hook(PF, "build-1", "", <<>>)}
MintmakerHooks ==
    {Hook(MM, "repo/main", "warning", <<"bump", "pin">>),
     Hook(MM, "repo/main", "warning", <<>>)}
ReleaseHooks ==
    {Hook(RF, "app1", "managed", <<>>), Hook(RS, "app1", "", <<>>)}

MCLinkVals == {"https://konflux.dev/logs/pipelineruns/r1", "Mintmaker docs",
               "Renovate docs"}

\* pipeline (with a request missing its reason) and release traffic, and a
\* MintMaker request without logs
MCGateHooks ==
    PipelineHooks \cup ReleaseHooks \cup {Hook(MM, "repo/main", "warning", <<>>)}

CrossHooks == PipelineHooks \cup {Elsewhere(w) : w \in PipelineHooks}

MCSymmetry == Permutations(MCIds)
=============================================================================
