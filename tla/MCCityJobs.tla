----------------------------- MODULE MCCityJobs -----------------------------
(* Instances of CityJobs: pairs of requests that meet on a job.            *)
EXTENDS CityJobs

CONSTANTS c1, c2

Pair(a, b) == c1 :> a @@ c2 :> b

MCMixes == {Pair("pulse", "veto"), Pair("conduct", "none"), Pair("demo", "veto"),
            Pair("demo", "execute"), Pair("probe", "veto"), Pair("start", "execute"),
            Pair("merge", "veto"), Pair("merge", "merge")}
           \cup {Pair("invoke", b) : b \in JobKinds}

MCBatches == {<<"write">>, <<"run">>, <<"denied", "tell">>}
MCTeamCalls == {<<"tell">>}
=============================================================================
