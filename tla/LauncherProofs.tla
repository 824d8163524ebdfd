--------------------------- MODULE LauncherProofs ----------------------------
(***************************************************************************)
(* Every launcher returns normally only when its processes have, for every *)
(* list of hosts and every number of GPUs and failures.                    *)
(***************************************************************************)
EXTENDS Launcher, TLAPS

MainState == {"absent", "check_env", "start", "join", "returned", "raised"}
ChildState == {"none", "init", "running", "ended", "failed"}

LaunchTypes ==
    /\ cluster \in Clusters
    /\ next \in 1 .. Len(Hosts) + 1
    /\ launcher \in [Host -> MainState]
    /\ i \in [Host -> Nat]
    /\ DOMAIN child = Host

\* Hosts further down the list have no launcher yet.
NotYetReached == \A n \in next .. Len(Hosts) : launcher[Hosts[n]] = "absent"

\* What the main thread of launch.py on h has left behind: it has started the
\* threads before i[h], later it has joined them.
ThreadInv(h) ==
    /\ i[h] \in 1 .. Threads(h)
    /\ child[h] \in [1 .. Threads(h) -> ChildState]
    /\ launcher[h] \in {"absent", "check_env", "start"} =>
         \A t \in i[h] .. Threads(h) : child[h][t] = "none"
    /\ launcher[h] \in {"absent", "check_env"} => i[h] = 1
    /\ launcher[h] = "join" => \A t \in 1 .. i[h] - 1 : child[h][t] = "ended"
    /\ launcher[h] = "returned" => \A t \in 1 .. Threads(h) :
         child[h][t] = "ended" \/ (~IsWorker(h) /\ child[h][t] = "none")

LaunchInv == LaunchTypes /\ NotYetReached /\ \A h \in Host : ThreadInv(h)

-----------------------------------------------------------------------------
(* The list of hosts.                                                      *)

LEMMA HostList ==
  ASSUME cluster \in Clusters
  PROVE  /\ Len(Hosts) \in Nat /\ DOMAIN Hosts = 1 .. Len(Hosts)
         /\ \A n \in 1 .. Len(Hosts) : Hosts[n] \in Host
         /\ \A m, n \in 1 .. Len(Hosts) : Hosts[m] = Hosts[n] => m = n
         /\ \A h \in Host : Threads(h) \in Nat \ {0}
  <1>1. PICK ws, vs, A, B :
          /\ ws = cluster.workers /\ vs = cluster.servers
          /\ A = Range(ws) /\ B = Range(vs)
    OBVIOUS
  <1>2. ws \in Seq(A) /\ vs \in Seq(B) /\ IsInjective(<<Scheduler>> \o ws \o vs)
    BY <1>1, ClusterAssumption
  <1>3. Hosts = <<Scheduler>> \o ws \o vs
    BY <1>1 DEF Hosts
  <1>4. PICK S : S = {Scheduler} \cup A \cup B
    OBVIOUS
  <1>5. ws \in Seq(S) /\ vs \in Seq(S) /\ <<Scheduler>> \in Seq(S)
    BY <1>2, <1>4
  <1>6. Hosts \in Seq(S)
    BY <1>3, <1>5
  <1>8. Len(Hosts) \in Nat /\ DOMAIN Hosts = 1 .. Len(Hosts)
    BY <1>6
  <1>9. \A m, n \in 1 .. Len(Hosts) : Hosts[m] = Hosts[n] => m = n
    BY <1>2, <1>3, <1>8 DEF IsInjective
  <1>10. \A n \in 1 .. Len(Hosts) : Hosts[n] \in Host
    BY <1>8 DEF Host, Range
  <1>11. \A h \in Host : Threads(h) \in Nat \ {0}
    BY LocalSizeAssumption DEF Threads
  <1> QED BY <1>8, <1>9, <1>10, <1>11

\* The hosts stay what they are.
LEMMA SameCluster ==
  ASSUME UNCHANGED setting
  PROVE  /\ Hosts' = Hosts /\ Host' = Host /\ num_worker' = num_worker /\ cluster' = cluster
         /\ \A h : IsWorker(h)' = IsWorker(h) /\ Threads(h)' = Threads(h)
  BY DEF setting, Hosts, Host, num_worker, IsWorker, Threads, Range

-----------------------------------------------------------------------------
(* A step changes the state of one host.                                   *)

LEMMA HostSame ==
  ASSUME UNCHANGED setting, NEW h, ThreadInv(h),
         i'[h] = i[h], child'[h] = child[h], launcher'[h] = launcher[h]
  PROVE  ThreadInv(h)'
  <1>1. cluster' = cluster /\ IsWorker(h)' = IsWorker(h) /\ Threads(h)' = Threads(h)
    BY SameCluster
  <1> QED BY <1>1 DEF ThreadInv

LEMMA OneHostChanges ==
  ASSUME LaunchInv, UNCHANGED <<setting, next>>, NEW h \in Host,
         launcher' \in [Host -> MainState], i' \in [Host -> Nat], DOMAIN child' = Host,
         \A g \in Host : g # h => /\ i'[g] = i[g] /\ child'[g] = child[g]
                                  /\ launcher'[g] = launcher[g],
         launcher[h] = "absent" => launcher'[h] = "absent",
         ThreadInv(h)'
  PROVE  LaunchInv'
  <1>1. /\ Hosts' = Hosts /\ Host' = Host /\ cluster' = cluster
    BY SameCluster
  <1>2. LaunchTypes'
    BY <1>1 DEF LaunchInv, LaunchTypes
  <1>3. NotYetReached'
    <2>1. ASSUME NEW n \in next .. Len(Hosts) PROVE launcher'[Hosts[n]] = "absent"
      <3>1. launcher[Hosts[n]] = "absent" /\ cluster \in Clusters /\ n \in 1 .. Len(Hosts)
        BY HostList DEF LaunchInv, LaunchTypes, NotYetReached
      <3>2. Hosts[n] \in Host
        BY <3>1, HostList
      <3> QED BY <3>1, <3>2
    <2> QED BY <1>1, <2>1 DEF NotYetReached
  <1>4. ASSUME NEW g \in Host PROVE ThreadInv(g)'
    <2>1. CASE g = h
      BY <2>1
    <2>2. CASE g # h
      BY <2>2, HostSame DEF LaunchInv
    <2> QED BY <2>1, <2>2
  <1> QED BY <1>1, <1>2, <1>3, <1>4 DEF LaunchInv

LEMMA StartSsh == LaunchInv /\ start_ssh => LaunchInv'
  <1> SUFFICES ASSUME LaunchInv, start_ssh PROVE LaunchInv'
    OBVIOUS
  <1>0. UNCHANGED <<setting, i, child>> /\ next' = next + 1 /\ next <= Len(Hosts)
    BY DEF start_ssh
  <1>1. /\ Hosts' = Hosts /\ Host' = Host /\ cluster' = cluster
        /\ \A h : IsWorker(h)' = IsWorker(h) /\ Threads(h)' = Threads(h)
    BY <1>0, SameCluster
  <1>2. cluster \in Clusters /\ next \in 1 .. Len(Hosts) + 1 /\ Len(Hosts) \in Nat
        /\ launcher \in [Host -> MainState]
    BY HostList DEF LaunchInv, LaunchTypes
  <1>3. PICK h \in Host : h = Hosts[next]
    BY <1>0, <1>2, HostList
  <1>4. launcher' = [launcher EXCEPT ![h] = "check_env"]
    BY <1>3 DEF start_ssh
  <1>7. LaunchTypes'
    <2>1. launcher' \in [Host -> MainState]
      BY <1>2, <1>4 DEF MainState
    <2>2. next' \in 1 .. Len(Hosts) + 1
      BY <1>0, <1>2
    <2> QED BY <1>0, <1>1, <2>1, <2>2 DEF LaunchInv, LaunchTypes, MainState
  <1>8. NotYetReached'
    <2>1. ASSUME NEW n \in next + 1 .. Len(Hosts) PROVE launcher'[Hosts[n]] = "absent"
      <3>1. n \in next .. Len(Hosts) /\ n \in 1 .. Len(Hosts) /\ n # next /\ next \in 1 .. Len(Hosts)
        BY <1>0, <1>2
      <3>2. Hosts[n] # h /\ Hosts[n] \in Host
        BY <1>2, <1>3, <3>1, HostList
      <3>3. launcher[Hosts[n]] = "absent"
        BY <3>1 DEF LaunchInv, NotYetReached
      <3> QED BY <1>2, <1>4, <3>2, <3>3
    <2> QED BY <1>0, <1>1, <2>1 DEF NotYetReached
  <1>9. ASSUME NEW g \in Host PROVE ThreadInv(g)'
    <2>0. ThreadInv(g)
      BY DEF LaunchInv
    <2>1. CASE g # h
      <3>1. launcher'[g] = launcher[g]
        BY <1>2, <1>4, <2>1
      <3> QED BY <1>0, <2>0, <3>1, HostSame
    <2>2. CASE g = h
      <3>1. launcher[g] = "absent"
        <4>1. next \in next .. Len(Hosts)
          BY <1>0, <1>2
        <4> QED BY <1>3, <2>2, <4>1 DEF LaunchInv, NotYetReached
      <3>2. launcher'[g] = "check_env"
        BY <1>2, <1>4, <2>2
      <3> QED BY <1>0, <1>1, <2>0, <3>1, <3>2 DEF ThreadInv
    <2> QED BY <2>1, <2>2
  <1> QED BY <1>1, <1>7, <1>8, <1>9 DEF LaunchInv

LEMMA HostState ==
  ASSUME LaunchInv, NEW h \in Host
  PROVE  /\ Threads(h) \in Nat \ {0} /\ i[h] \in 1 .. Threads(h)
         /\ child[h] \in [1 .. Threads(h) -> ChildState] /\ DOMAIN child[h] = 1 .. Threads(h)
         /\ i \in [Host -> Nat] /\ launcher \in [Host -> MainState] /\ DOMAIN child = Host
         /\ ThreadInv(h)
  BY HostList DEF LaunchInv, LaunchTypes, ThreadInv

LEMMA CheckEnv ==
  ASSUME LaunchInv, NEW h \in Host, check_env(h)
  PROVE  LaunchInv'
  <1>1. /\ UNCHANGED <<setting, next, i, child>>
        /\ launcher[h] = "check_env"
    BY DEF check_env
  <1>2. /\ IsWorker(h)' = IsWorker(h) /\ Threads(h)' = Threads(h)
        /\ cluster' = cluster
    BY <1>1, SameCluster
  <1>3. PICK x \in {"start", "returned"} :
          /\ launcher' = [launcher EXCEPT ![h] = x]
          /\ x = "returned" => ~IsWorker(h)
    BY DEF check_env
  <1>4. launcher' \in [Host -> MainState] /\ launcher'[h] = x
        /\ \A g \in Host : g # h => launcher'[g] = launcher[g]
    BY <1>3, HostState DEF MainState
  <1>6. ThreadInv(h)'
    BY <1>1, <1>2, <1>3, <1>4, HostState DEF ThreadInv
  <1> QED BY <1>1, <1>4, <1>6, HostState, OneHostChanges

\* The thread i[h] is started, and there the process.
LEMMA StartChildInv ==
  ASSUME LaunchInv, NEW h \in Host, launcher[h] = "start", NEW x \in {"init", "failed"}, NEW cores,
         StartChild(h, x, cores), UNCHANGED <<setting, next>>
  PROVE  LaunchInv'
  <1>1. /\ IsWorker(h)' = IsWorker(h) /\ Threads(h)' = Threads(h)
        /\ cluster' = cluster
    BY SameCluster
  <1>2. PICK n \in Nat, m \in 1 .. Threads(h) : n = Threads(h) /\ m = i[h] /\ n # 0
    BY HostState
  <1>3. child' = [child EXCEPT ![h][m] = x]
    BY <1>2 DEF StartChild
  <1>4. /\ DOMAIN child' = Host /\ \A g \in Host : g # h => child'[g] = child[g]
        /\ child'[h] = [child[h] EXCEPT ![m] = x]
    BY <1>3, HostState
  <1>5. child'[h] \in [1 .. n -> ChildState] /\ \A t \in 1 .. n : t # m => child'[h][t] = child[h][t]
    BY <1>2, <1>4, HostState DEF ChildState
  <1>6. \A t \in m .. n : child[h][t] = "none"
    BY <1>2, HostState DEF ThreadInv
  <1>7. CASE m < n
    <2>1. i' = [i EXCEPT ![h] = m + 1] /\ launcher' = launcher
      BY <1>2, <1>7 DEF StartChild
    <2>2. i' \in [Host -> Nat] /\ i'[h] = m + 1 /\ \A g \in Host : g # h => i'[g] = i[g]
      BY <1>2, <2>1, HostState
    <2>3. ThreadInv(h)'
      <3>1. m + 1 \in 1 .. n /\ \A t \in m + 1 .. n : child'[h][t] = "none"
        BY <1>2, <1>5, <1>6, <1>7
      <3> QED BY <1>1, <1>2, <1>5, <2>1, <2>2, <3>1 DEF ThreadInv
    <2> QED BY <1>4, <2>1, <2>2, <2>3, HostState, OneHostChanges
  <1>8. CASE ~(m < n)
    <2>1. i' = [i EXCEPT ![h] = 1] /\ launcher' = [launcher EXCEPT ![h] = "join"]
      BY <1>2, <1>8 DEF StartChild
    <2>2. /\ i' \in [Host -> Nat] /\ i'[h] = 1 /\ launcher' \in [Host -> MainState]
          /\ launcher'[h] = "join"
          /\ \A g \in Host : g # h => i'[g] = i[g] /\ launcher'[g] = launcher[g]
      BY <2>1, HostState DEF MainState
    <2>3. ThreadInv(h)'
      BY <1>1, <1>2, <1>5, <2>2 DEF ThreadInv
    <2> QED BY <1>4, <2>2, <2>3, OneHostChanges
  <1> QED BY <1>7, <1>8

LEMMA LaunchBps ==
  ASSUME LaunchInv, NEW h \in Host, launch_bps(h)
  PROVE  LaunchInv'
  <1>1. /\ UNCHANGED <<setting, next>> /\ launcher[h] = "start"
    BY DEF launch_bps
  <1>2. \/ \E x \in {"init", "failed"}, cores \in {{}, Bound(i[h])} : StartChild(h, x, cores)
        \/ launcher' = [launcher EXCEPT ![h] = "raised"] /\ UNCHANGED <<i, child>>
    BY DEF launch_bps
  <1>3. CASE \E x \in {"init", "failed"}, cores \in {{}, Bound(i[h])} : StartChild(h, x, cores)
    BY <1>1, <1>3, StartChildInv
  <1>4. CASE launcher' = [launcher EXCEPT ![h] = "raised"] /\ UNCHANGED <<i, child>>
    <2>1. /\ IsWorker(h)' = IsWorker(h) /\ Threads(h)' = Threads(h)
          /\ cluster' = cluster
      BY <1>1, SameCluster
    <2>2. launcher' \in [Host -> MainState] /\ launcher'[h] = "raised"
          /\ \A g \in Host : g # h => launcher'[g] = launcher[g]
      BY <1>4, HostState DEF MainState
    <2>3. ThreadInv(h)'
      BY <1>4, <2>1, <2>2, HostState DEF ThreadInv
    <2> QED BY <1>1, <1>4, <2>2, <2>3, HostState, OneHostChanges
  <1> QED BY <1>2, <1>3, <1>4

\* join goes past a thread only when its process has ended normally.
LEMMA Join ==
  ASSUME LaunchInv, NEW h \in Host, join(h)
  PROVE  LaunchInv'
  <1>1. /\ UNCHANGED <<setting, next, child>> /\ launcher[h] = "join"
        /\ child[h][i[h]] \in {"ended", "failed"}
    BY DEF join
  <1>2. /\ IsWorker(h)' = IsWorker(h) /\ Threads(h)' = Threads(h)
        /\ cluster' = cluster
    BY <1>1, SameCluster
  <1>3. PICK n \in Nat, m \in 1 .. Threads(h) : n = Threads(h) /\ m = i[h] /\ n # 0
    BY HostState
  <1>4. child[h] \in [1 .. n -> ChildState] /\ \A t \in 1 .. m - 1 : child[h][t] = "ended"
    BY <1>1, <1>3, HostState DEF ThreadInv
  <1>5. CASE Propagates(h)
    <2>1. launcher' = [launcher EXCEPT ![h] = "raised"] /\ i' = i
      BY <1>5 DEF join
    <2>2. launcher' \in [Host -> MainState] /\ launcher'[h] = "raised"
          /\ \A g \in Host : g # h => launcher'[g] = launcher[g]
      BY <2>1, HostState DEF MainState
    <2>3. ThreadInv(h)'
      BY <1>1, <1>2, <2>1, <2>2, HostState DEF ThreadInv
    <2> QED BY <1>1, <2>1, <2>2, <2>3, HostState, OneHostChanges
  <1>6. CASE ~Propagates(h) /\ m < n
    <2>1. launcher' = launcher /\ i' = [i EXCEPT ![h] = m + 1]
      BY <1>3, <1>6 DEF join
    <2>2. i' \in [Host -> Nat] /\ i'[h] = m + 1 /\ \A g \in Host : g # h => i'[g] = i[g]
      BY <1>3, <2>1, HostState
    <2>3. child[h][m] = "ended"
      BY <1>1, <1>3, <1>6 DEF Propagates
    <2>4. ThreadInv(h)'
      <3>1. m + 1 \in 1 .. n /\ \A t \in 1 .. (m + 1) - 1 : child[h][t] = "ended"
        BY <1>3, <1>4, <1>6, <2>3
      <3> QED BY <1>1, <1>2, <1>3, <1>4, <2>1, <2>2, <3>1 DEF ThreadInv
    <2> QED BY <1>1, <2>1, <2>2, <2>4, HostState, OneHostChanges
  <1>7. CASE ~Propagates(h) /\ ~(m < n)
    <2>1. launcher' = [launcher EXCEPT ![h] = "returned"] /\ i' = i
      BY <1>3, <1>7 DEF join
    <2>2. launcher' \in [Host -> MainState] /\ launcher'[h] = "returned"
          /\ \A g \in Host : g # h => launcher'[g] = launcher[g]
      BY <2>1, HostState DEF MainState
    <2>3. child[h][m] = "ended"
      BY <1>1, <1>3, <1>7 DEF Propagates
    <2>4. \A t \in 1 .. n : child[h][t] = "ended"
      BY <1>3, <1>4, <1>7, <2>3
    <2>5. ThreadInv(h)'
      BY <1>1, <1>2, <1>3, <1>4, <2>1, <2>2, <2>4 DEF ThreadInv
    <2> QED BY <1>1, <2>1, <2>2, <2>5, HostState, OneHostChanges
  <1> QED BY <1>5, <1>6, <1>7

\* A process moves on from "init" or "running": it exists and has not ended.
LEMMA ChildStep ==
  ASSUME LaunchInv, NEW h \in Host, NEW t \in DOMAIN child[h], NEW x \in {"running", "ended", "failed"},
         child[h][t] \in {"init", "running"}, child' = [child EXCEPT ![h][t] = x],
         UNCHANGED <<setting, next, launcher, i>>
  PROVE  LaunchInv'
  <1>1. /\ IsWorker(h)' = IsWorker(h) /\ Threads(h)' = Threads(h)
        /\ cluster' = cluster
    BY SameCluster
  <1>2. PICK n \in Nat, m \in 1 .. Threads(h) : n = Threads(h) /\ m = i[h] /\ n # 0
    BY HostState
  <1>3. /\ DOMAIN child' = Host /\ \A g \in Host : g # h => child'[g] = child[g]
        /\ child'[h] = [child[h] EXCEPT ![t] = x]
    BY HostState
  <1>4. /\ child'[h] \in [1 .. n -> ChildState] /\ child[h] \in [1 .. n -> ChildState]
        /\ \A u \in 1 .. n : u # t => child'[h][u] = child[h][u]
    BY <1>2, <1>3, HostState DEF ChildState
  <1>5. ThreadInv(h)'
    <2>1. ThreadInv(h)
      BY HostState
    <2>2. \A u \in 1 .. n : child[h][u] \in {"none", "ended"} => child'[h][u] = child[h][u]
      BY <1>4
    <2>3. /\ launcher[h] \in {"absent", "check_env", "start"} =>
               \A u \in m .. n : child'[h][u] = "none"
          /\ launcher[h] = "join" => \A u \in 1 .. m - 1 : child'[h][u] = "ended"
          /\ launcher[h] = "returned" => \A u \in 1 .. n :
               child'[h][u] = "ended" \/ (~IsWorker(h) /\ child'[h][u] = "none")
      BY <1>2, <2>1, <2>2 DEF ThreadInv
    <2> QED BY <1>1, <1>2, <1>4, <2>1, <2>3 DEF ThreadInv
  <1> QED BY <1>3, <1>5, HostState, OneHostChanges

LEMMA InitLaunch == Init => LaunchInv
  <1> SUFFICES ASSUME Init PROVE LaunchInv
    OBVIOUS
  <1>1. cluster \in Clusters
    BY DEF Init
  <1>2. Len(Hosts) \in Nat /\ \A n \in 1 .. Len(Hosts) : Hosts[n] \in Host
    BY <1>1, HostList
  <1>3. LaunchTypes
    BY <1>1, <1>2 DEF Init, LaunchTypes, MainState
  <1>4. NotYetReached
    BY <1>2 DEF Init, NotYetReached
  <1>5. ASSUME NEW h \in Host PROVE ThreadInv(h)
    <2>1. PICK n \in Nat \ {0} : n = Threads(h)
      BY <1>1, HostList
    <2>2. i[h] = 1 /\ launcher[h] = "absent" /\ child[h] = [t \in 1 .. n |-> "none"]
      BY <2>1 DEF Init
    <2>3. child[h] \in [1 .. n -> ChildState] /\ \A t \in 1 .. n : child[h][t] = "none"
      BY <2>2 DEF ChildState
    <2> QED BY <2>1, <2>2, <2>3 DEF ThreadInv
  <1> QED BY <1>3, <1>4, <1>5 DEF LaunchInv

LEMMA NextLaunch == LaunchInv /\ [Next]_vars => LaunchInv'
  <1> SUFFICES ASSUME LaunchInv, [Next]_vars PROVE LaunchInv'
    OBVIOUS
  <1>1. CASE start_ssh
    BY <1>1, StartSsh
  <1>2. ASSUME NEW h \in Host, MainThread(h) PROVE LaunchInv'
    BY <1>2, CheckEnv, LaunchBps, Join DEF MainThread
  <1>3. ASSUME NEW h \in Host, NEW t \in DOMAIN child[h], init(h, t) PROVE LaunchInv'
    BY <1>3, ChildStep DEF init
  <1>4. ASSUME NEW h \in Host, NEW t \in DOMAIN child[h], shutdown(h, t) PROVE LaunchInv'
    BY <1>4, ChildStep DEF shutdown
  <1>5. ASSUME NEW h \in Host, NEW t \in DOMAIN child[h], Fail(h, t) PROVE LaunchInv'
    BY <1>5, ChildStep DEF Fail
  <1>6. CASE UNCHANGED vars
    <2>1. UNCHANGED <<setting, next, launcher, i, child>>
      BY <1>6 DEF vars
    <2>2. Hosts' = Hosts /\ Host' = Host /\ cluster' = cluster
      BY <2>1, SameCluster
    <2>3. \A h \in Host : ThreadInv(h)'
      BY <2>1, HostSame DEF LaunchInv
    <2>4. LaunchTypes' /\ NotYetReached'
      BY <2>1, <2>2 DEF LaunchInv, LaunchTypes, NotYetReached, MainState
    <2> QED BY <2>2, <2>3, <2>4 DEF LaunchInv
  <1> QED BY <1>1, <1>2, <1>3, <1>4, <1>5, <1>6 DEF Next, Process

LEMMA LaunchInvariance == Spec => []LaunchInv
  BY InitLaunch, NextLaunch, PTL DEF Spec

\* bpslaunch returns normally only when all its processes have ended normally,
\* wherever among the threads and whenever a process fails.
THEOREM FailuresPropagate == Spec => []NoFailureIsSwallowed
  <1>1. LaunchInv => NoFailureIsSwallowed
    BY HostState DEF LaunchInv, ThreadInv, NoFailureIsSwallowed
  <1> QED BY LaunchInvariance, <1>1, PTL
=============================================================================
