-------------------------------- MODULE MCIpc --------------------------------
(* Ipc for TLC: the programs.                                                *)
EXTENDS Ipc

\* Pools: so many of each kind named, one of every other.
Pool(kinds, n) == [kind \in Kind |-> IF kind \in kinds THEN n ELSE 1]

\* Process 1 starts alone; it may have one child.
Family(calls, slots, pool) ==
    [start |-> {1}, children |-> {2}, slots |-> slots, pool |-> pool,
     calls |-> [p \in Pid |-> calls \cup {"die"}]]

\* Process 1 is the compositor or server, the others are its clients.
Served(clients, server, client, slots, pool) ==
    [start |-> {1} \cup clients, children |-> {}, slots |-> slots, pool |-> pool,
     calls |-> [p \in Pid |-> (IF p = 1 THEN server ELSE client) \cup {"die"}]]

Memory == Family({"shared_alloc", "shared_map", "shared_free", "dup2", "fork"},
                 2, Pool({"shm"}, 2))
Files == Family({"open", "queue_create", "cloexec", "dup", "fork", "spawn", "exec"},
                3, Pool({}, 1))
Queues == Served({2, 3}, {"queue_create", "register", "receive", "reply"},
                 {"connect", "send", "request", "close"}, 2, Pool({}, 1))
Frames == Served({2}, {"queue_create", "register", "window_list"},
                 {"connect", "open", "surface_from_buffer", "create_window", "attach",
                  "wait_idle", "close"},
                 3, Pool({"surface", "queue"}, 2))
Buffers == Served({2}, {"window_list", "surface_poll"},
                  {"open", "surface_from_buffer", "surface_commit", "shared_map", "close"},
                  3, Pool({"surface"}, 2))
Pixels == Served({2}, {"queue_create", "register", "window_list", "surface_poll"},
                 {"connect", "surface_create", "shared_free", "surface_commit",
                  "create_window", "attach"},
                 3, Pool({"surface", "shm", "queue"}, 2))
Focus == Served({2}, {"queue_create", "register", "window_focus", "window_control",
                      "window_move", "window_resize", "post_event", "keyboard"},
                {"connect", "create_window", "event_queue", "receive", "close"},
                3, Pool({"queue", "window"}, 3))

IpcPrograms == {Memory, Files, Queues, Frames, Buffers, Pixels, Focus}
ForkFreePrograms == {Memory}

(* Nothing is freed while it is mapped: neither shared memory a process    *)
(* maps nor the pixels the compositor knows.                               *)
NothingFreedMapped == NoDanglingMapping /\ KnownMapped

(* Nobody sleeps in a queue for what has happened already, or for an       *)
(* object that is gone.                                                    *)
NoSleepForNothing == NoLostWake /\ BlockedOnLiving

===============================================================================
