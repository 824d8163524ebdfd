---------------------------- MODULE CpuAllocation ----------------------------
(* launcher/launch.py: the cores numactl binds the processes of a machine to. *)
(* A machine has NUMA nodes, each a sequence of logical core ids in order;   *)
(* with hyperthreading the second thread of core i is core i + n.  A quota   *)
(* of 0 is one that BYTEPS_NUMA_DEFAULT_QUOTA or ..._ROOT_QUOTA leaves open. *)
EXTENDS Integers, Sequences, SequencesExt, FiniteSets, FiniteSetsExt

\* get_numa_info: the physical cores of each node.
get_numa_info(machine) ==
    [n \in DOMAIN machine.nodes |->
        LET cpu_ids == machine.nodes[n]
        IN  IF machine.cpu_mt THEN SubSeq(cpu_ids, 1, Len(cpu_ids) \div 2) ELSE cpu_ids]
CpuNum(nodes) == FoldLeft(LAMBDA sum, node : sum + Len(node), 0, nodes)

\* Faulty variant: the root, which is the last, is forgotten.
QuotaWithoutRoot(machine, nodes, local_size) ==
    [i \in 1..(local_size - 1) |-> CpuNum(nodes) \div local_size]

\* _get_quota: "root does more work, thus using more cpus"; the root is the last.
_get_quota(machine, nodes, local_size) ==
    LET cpu_num == CpuNum(nodes)
        even == cpu_num \div local_size
        default_quota == IF machine.default_quota = 0 THEN even
                         ELSE Min({machine.default_quota, even})
        node_size == IF machine.cpu_mt THEN Len(nodes[1]) \div 2 ELSE Len(nodes[1])
        remaining == IF machine.root_quota = 0 THEN cpu_num - default_quota * (local_size - 1)
                     ELSE machine.root_quota
        root_quota == Min({remaining, node_size})
    IN  [i \in 1..(local_size - 1) |-> default_quota] \o <<root_quota>>

\* The first quota cores of a node, cut where the ids have a gap.
Cuts(node, quota) == {0} \cup {i \in 1..(quota - 1) : node[i + 1] # node[i] + 1}
Pieces(node, quota) ==
    LET starts == SetToSortSeq(Cuts(node, quota), <)
        EndOf(j) == IF j < Len(starts) THEN starts[j + 1] ELSE quota
    IN  [j \in DOMAIN starts |-> SubSeq(node, starts[j] + 1, EndOf(j))]

\* _get_allocation from one node: only the last piece is filtered, and only it
\* gets its second threads.
_get_allocation(machine, node, quota, cpu_num) ==
    LET pieces == Pieces(node, quota)
        Allowed(cpus) == SelectSeq(cpus, LAMBDA c : c \notin machine.cpu_blacklist)
        curr_alloc == Allowed(Last(pieces))
        siblings == Allowed([i \in DOMAIN curr_alloc |-> curr_alloc[i] + cpu_num])
    IN  Front(pieces) \o <<curr_alloc>> \o (IF machine.cpu_mt THEN <<siblings>> ELSE <<>>)

\* The loop of allocate_cpu: a quota no node can meet is lowered until one can,
\* and the cores are taken from the first such node.
Fits(nodes, q) == {n \in DOMAIN nodes : Len(nodes[n]) >= q}
CoresNotTaken(nodes, n, q) == nodes
CoresTaken(nodes, n, q) == [nodes EXCEPT ![n] = SubSeq(@, q + 1, Len(@))]
Allocate(machine, cpu_num, acc, quota) ==
    LET feasible == {q \in 1..quota : Fits(acc.nodes, q) # {}}
        q == Max(feasible)
        n == Min(Fits(acc.nodes, q))
    IN  IF feasible = {} THEN acc
        ELSE [nodes |-> CoresTaken(acc.nodes, n, q),
              ret |-> Append(acc.ret, _get_allocation(machine, acc.nodes[n], q, cpu_num))]

allocate_cpu(machine, local_size) ==
    LET nodes == get_numa_info(machine)
    IN  IF nodes = <<>> THEN <<>> ELSE
        FoldLeft(LAMBDA acc, quota : Allocate(machine, CpuNum(nodes), acc, quota),
                 [nodes |-> nodes, ret |-> <<>>],
                 _get_quota(machine, nodes, local_size)).ret

\* parse_num_range: sections of ranges <<first, last>>, one section per process.
parse_num_range(core_list) ==
    [s \in DOMAIN core_list |->
        [r \in DOMAIN core_list[s] |->
            LET range == core_list[s][r]
            IN  [i \in 1..(range[2] - range[1] + 1) |-> range[1] + i - 1]]]

\* worker: numactl is given the first and the last core of every piece.
physcpubind(allocation) ==
    UNION {LET cpu_set == allocation[j] IN cpu_set[1]..Last(cpu_set) : j \in DOMAIN allocation}
=============================================================================
