----------------------------- MODULE MCLauncher ------------------------------
(* One or two worker hosts with two processes each, a scheduler, a server.  *)
EXTENDS Launcher

CONSTANTS s, h1, h2, p

SmallClusters == {[workers |-> <<h1>>, servers |-> <<p>>], [workers |-> <<h1, h2>>, servers |-> <<p>>]}
M(nodes, cpu_mt, cpu_blacklist, numactl) ==
    [nodes |-> nodes, cpu_mt |-> cpu_mt, cpu_blacklist |-> cpu_blacklist, numactl |-> numactl,
     default_quota |-> 0, root_quota |-> 0, force_distributed |-> FALSE]
Six == M(<<<<0, 1, 2>>, <<3, 4, 5>>>>, FALSE, {}, TRUE)
\* Two nodes; node ids interleaved; nodes of unequal size; no hyperthreading; a core
\* excluded; as many cores as processes; numactl missing; quotas set; servers forced.
SmallMachines ==
    {M(<<<<0, 1, 4, 5>>, <<2, 3, 6, 7>>>>, TRUE, {}, TRUE),
     M(<<<<0, 2, 4, 6>>, <<1, 3, 5, 7>>>>, TRUE, {}, TRUE),
     M(<<<<0, 1, 2>>, <<3>>>>, FALSE, {}, TRUE),
     M(<<<<3>>, <<0, 1, 2>>>>, FALSE, {}, TRUE),
     M(<<<<0, 1, 2, 3, 4, 5, 6, 7>>>>, TRUE, {3}, TRUE),
     M(<<<<0, 1>>>>, FALSE, {}, TRUE),
     M(<<<<0, 1>>>>, FALSE, {}, FALSE),
     [Six EXCEPT !.default_quota = 2, !.root_quota = 2],
     [Six EXCEPT !.default_quota = 5, !.force_distributed = TRUE]}
\* 0,2-3:4-5
TwoSections == <<<<<<0, 0>>, <<2, 3>>>>, <<<<4, 5>>>>>>
=============================================================================
