------------------------------ MODULE Launcher -------------------------------
(* How a job comes to life: launcher/dist_launcher.py reaches every host by *)
(* ssh, launcher/launch.py starts there, in threads of its own, a process   *)
(* for each GPU (or a server), and the processes meet in bps.init().  The   *)
(* environment of a host is part of the command that ssh is given: it holds *)
(* the host's role and whatever the operator set for the whole job.         *)
EXTENDS CpuAllocation

CONSTANTS
    Scheduler,      \* the host of the scheduler
    Clusters,       \* worker and server hosts: [workers, servers : Seq(Host)]
    Machines,       \* what a host may be like (see CpuAllocation)
    local_size,     \* GPUs of a worker host
    Bindings,       \* subset of {"off", "auto", "user"}
    UserCores,      \* BYTEPS_VISIBLE_CPU_CORES
    MaxFailures

\* A host stands for an entry of the hostfiles, with an ssh session of its own:
\* a machine that is listed twice is two hosts.
ASSUME ClusterAssumption ==
    \A c \in Clusters :
        /\ c.workers \in Seq(Range(c.workers)) /\ c.servers \in Seq(Range(c.servers))
        /\ IsInjective(<<Scheduler>> \o c.workers \o c.servers)

\* The parts of NVIDIA_VISIBLE_DEVICES, or 1 where it is not set.
ASSUME LocalSizeAssumption == local_size \in Nat \ {0}

VARIABLES
    cluster, machine, binding,
    allocations,    \* the cores of the processes, in the order of their local ranks
    next,           \* position of dist_launcher in the list of hosts
    launcher,       \* launcher[h]: where its main thread is
    i,              \* i[h]: the thread it starts or joins next
    child,          \* child[h]: its processes
    bound,          \* bound[h]: the cores they are bound to
    failures

setting == <<cluster, machine, binding, allocations>>
vars == <<setting, next, launcher, i, child, bound, failures>>

\* submit: the scheduler, the workers, the servers.
Hosts == <<Scheduler>> \o cluster.workers \o cluster.servers
Host == Range(Hosts)
IsWorker(h) == h \in Range(cluster.workers)
num_worker == Len(cluster.workers)
\* One worker needs no servers unless BYTEPS_FORCE_DISTRIBUTED says so.
Distributed == num_worker > 1 \/ machine.force_distributed
\* A worker host has a thread per GPU, another at most one.
Threads(h) == IF IsWorker(h) THEN local_size ELSE 1

\* What launch_bps computes before it starts the first thread.
Allocations ==
    CASE binding = "auto" -> allocate_cpu(machine, local_size)
      [] binding = "user" -> parse_num_range(UserCores)
      [] OTHER -> <<>>

Init ==
    /\ cluster \in Clusters /\ machine \in Machines /\ binding \in Bindings
    /\ allocations = Allocations
    /\ next = 1
    /\ launcher = [h \in Host |-> "absent"]
    /\ i = [h \in Host |-> 1]
    /\ child = [h \in Host |-> [t \in 1..Threads(h) |-> "none"]]
    /\ bound = [h \in Host |-> [t \in 1..Threads(h) |-> {}]]
    /\ failures = 0

-----------------------------------------------------------------------------
start_ssh ==
    /\ next <= Len(Hosts)
    /\ launcher' = [launcher EXCEPT ![Hosts[next]] = "check_env"]
    /\ next' = next + 1
    /\ UNCHANGED <<setting, i, child, bound, failures>>

\* check_env, which finds all that dist_launcher has set, and what launch_bps goes
\* on to do: start processes, or nothing, on a host that is not needed.
check_env(h) ==
    /\ launcher[h] = "check_env"
    /\ launcher' = [launcher EXCEPT ![h] =
            IF IsWorker(h) \/ Distributed THEN "start" ELSE "returned"]
    /\ UNCHANGED <<setting, next, i, child, bound, failures>>

Bound(t) == IF machine.numactl THEN physcpubind(allocations[t]) ELSE {}

\* One round of the loop in launch_bps: thread and process start.  allocations[i]
\* raises in the main thread if there are too few; an empty piece of an allocation
\* raises in the thread that prepares numactl, which join finds out.
StartChild(h, state, cores) ==
    /\ child' = [child EXCEPT ![h][i[h]] = state]
    /\ bound' = [bound EXCEPT ![h][i[h]] = cores]
    /\ IF i[h] < Threads(h)
       THEN i' = [i EXCEPT ![h] = @ + 1] /\ UNCHANGED launcher
       ELSE i' = [i EXCEPT ![h] = 1] /\ launcher' = [launcher EXCEPT ![h] = "join"]
launch_bps(h) ==
    /\ launcher[h] = "start"
    /\ IF ~IsWorker(h) \/ binding = "off" THEN StartChild(h, "init", {})
       ELSE IF i[h] \notin DOMAIN allocations
       THEN launcher' = [launcher EXCEPT ![h] = "raised"] /\ UNCHANGED <<i, child, bound>>
       ELSE IF machine.numactl /\ \E j \in DOMAIN allocations[i[h]] : allocations[i[h]][j] = <<>>
       THEN StartChild(h, "failed", {})
       ELSE StartChild(h, "init", Bound(i[h]))
    /\ UNCHANGED <<setting, next, failures>>

-----------------------------------------------------------------------------
\* bps.init: a process waits for the others of its host and, in a distributed job,
\* for all hosts (ps-lite's rendezvous at the scheduler).
Present(h) == \A t \in DOMAIN child[h] : child[h][t] \in {"init", "running", "ended"}
init(h, t) ==
    /\ child[h][t] = "init"
    /\ Present(h) /\ (Distributed => \A g \in Host : Present(g))
    /\ child' = [child EXCEPT ![h][t] = "running"]
    /\ UNCHANGED <<setting, next, launcher, i, bound, failures>>

\* The script ends when its collectives are over, the servers when all workers have.
shutdown(h, t) ==
    /\ child[h][t] = "running"
    /\ IF IsWorker(h)
       THEN \A g \in Range(cluster.workers), u \in 1..local_size :
                child[g][u] \in {"running", "ended"}
       ELSE \A g \in Range(cluster.workers), u \in 1..local_size : child[g][u] = "ended"
    /\ child' = [child EXCEPT ![h][t] = "ended"]
    /\ UNCHANGED <<setting, next, launcher, i, bound, failures>>

\* A process of a worker dies; check_call raises in its thread.
Fail(h, t) ==
    /\ failures < MaxFailures /\ IsWorker(h) /\ child[h][t] \in {"init", "running"}
    /\ failures' = failures + 1
    /\ child' = [child EXCEPT ![h][t] = "failed"]
    /\ UNCHANGED <<setting, next, launcher, i, bound>>

\* PropagatingThread.join, one thread after the other.
SwallowedByThread(h) == FALSE
Propagates(h) == child[h][i[h]] = "failed"
join(h) ==
    /\ launcher[h] = "join" /\ child[h][i[h]] \in {"ended", "failed"}
    /\ IF Propagates(h)
       THEN launcher' = [launcher EXCEPT ![h] = "raised"] /\ UNCHANGED i
       ELSE IF i[h] < Threads(h)
       THEN i' = [i EXCEPT ![h] = @ + 1] /\ UNCHANGED launcher
       ELSE launcher' = [launcher EXCEPT ![h] = "returned"] /\ UNCHANGED i
    /\ UNCHANGED <<setting, next, child, bound, failures>>

-----------------------------------------------------------------------------
Process(h, t) == init(h, t) \/ shutdown(h, t)
MainThread(h) == check_env(h) \/ launch_bps(h) \/ join(h)
Next ==
    \/ start_ssh
    \/ \E h \in Host : MainThread(h) \/ \E t \in DOMAIN child[h] : Process(h, t) \/ Fail(h, t)

\* ssh, the launchers and the processes run; that a process fails is not required.
Fairness ==
    /\ WF_vars(start_ssh)
    /\ \A c \in Clusters : \A h \in {Scheduler} \cup Range(c.workers) \cup Range(c.servers) :
        /\ WF_vars(h \in Host /\ MainThread(h))
        /\ \A t \in 1..local_size : WF_vars(h \in Host /\ t \in DOMAIN child[h] /\ Process(h, t))
Spec == Init /\ [][Next]_vars /\ Fairness

-----------------------------------------------------------------------------
\* The automatic assignment gives the processes of a host different cores, all of
\* which the machine has, and none without a core, on a machine with a free core for
\* each of them (two in a node that has hyper-threading, whose cores are halved twice).
CoresAreOwn ==
    \A h \in Host : IsWorker(h) /\ binding = "auto" /\ machine.numactl =>
        \A t, u \in 1..local_size : child[h][t] # "none" =>
            /\ bound[h][t] # {}
            /\ bound[h][t] \subseteq UNION {Range(machine.nodes[n]) : n \in DOMAIN machine.nodes}
            /\ u # t => bound[h][t] \cap bound[h][u] = {}

\* PropagatingThread ("propagate exceptions to the parent's thread"): bpslaunch
\* returns normally only when all its processes have ended normally.
NoFailureIsSwallowed ==
    \A h \in Host : launcher[h] = "returned" =>
        \A t \in DOMAIN child[h] : child[h][t] = "ended" \/ (~IsWorker(h) /\ child[h][t] = "none")

\* If no process fails, every bpslaunch returns: processes are not left waiting in
\* bps.init() for one that was never started.
LaunchersReturn ==
    [](failures = 0) => <>(\A h \in Host : launcher[h] = "returned")
=============================================================================
