------------------------------ MODULE MCScheduler ------------------------------
(* Scheduler for TLC: the CPUs are interchangeable, and the programs.        *)
EXTENDS Scheduler

Symmetry == Permutations(Cpu)

\* Processes with one thread, and processes with several.
LifePrograms ==
    {[main |-> {"fork", "exit", "wait", "kill"}, thread |-> {}],
     [main |-> {"fork", "thread_create", "exit", "wait", "exec"},
      thread |-> {"exit", "thread_exit", "yield", "sleep", "storage", "crash"}]}

BlockingPrograms ==
    {[main |-> {"spawn", "sleep", "ipc_call", "ipc_reply", "storage", "setaffinity",
                "crash"}, thread |-> {}]}

ResurrectionPrograms ==
    {[main |-> {"thread_create", "fork", "exit", "wait", "kill"},
      thread |-> {"thread_exit"}]}

ThreadChildPrograms ==
    {[main |-> {"fork", "thread_create", "exit", "wait"},
      thread |-> {"spawn", "thread_exit"}]}

(* Death is complete: a zombie is collectable by somebody, holds no files, *)
(* no parent sleeps in wait() for a child that can be reported, and no     *)
(* thread survives the main thread of its group.                           *)
DeathIsComplete == NoLeakedZombie /\ ZombieHoldsNoFiles /\ NoLostWait /\ GroupDiesWithMain


(* A process is in one place only (one CPU, one queue or blocked), in a    *)
(* state of its type, and its saved user state is stale while it runs.     *)
OnePlaceOneState == TypeOK /\ InOnePlace /\ ValidOnlyOnCpu

(* What no step may do: bring a dead process back, or run one on a CPU     *)
(* outside its affinity.                                                   *)
NoForbiddenSwitch == TerminatedIsFinal /\ AffinityRespected

===============================================================================
