--------------------------- MODULE MCTenantRotation ---------------------------
(* Two migrators, an API server and a worker; the next release, an edited file, the *)
(* space of the incident scenario.                                                 *)
EXTENDS TenantRotation, TLC

CONSTANTS m1, m2, create, api, worker, main, demo

MCMigrator   == {m1, m2, create}
MCCreateKey  == {create}
MCServer     == {api, worker}
MCSpace      == {main, demo}
MCDimensions == [s \in MCSpace |-> IF s = main THEN 1536 ELSE 384]
MCTenant     == 1..3

Release(n, space) == [files |-> [v \in 1..n |-> "released"], space |-> space]
Edited            == [files |-> <<"edited", "released", "released">>, space |-> main]

\* Two migrators and an API server.
Migrating(other) == (m1 :> Release(3, main)) @@ (m2 :> other) @@ (api :> Release(3, main))

\* create-key and a worker.
Working == (create :> Release(3, main)) @@ (worker :> Release(3, main))

Database(a, s, r) == [applied |-> a, stored |-> s, role |-> r]

\* A new database.
New == Database(<<>>, {}, "none")

\* One from before the embedding space, with assertions of one space, or of two.
Old      == Database(<<"released">>, {main}, "loose")
Confused == Database(<<"released">>, {main, demo}, "bound")

MCSituations ==
    {d @@ [build |-> Migrating(o)] :
        d \in {New, Old, Confused}, o \in {Release(3, main), Release(3, demo), Release(4, main), Edited}}
    \cup {New @@ [build |-> Working]}
=============================================================================
