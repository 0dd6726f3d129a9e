------------------------------- MODULE Fault -------------------------------
(***************************************************************************)
(* The watchdog and the fault reports of src/kernel/src/fault/mod.rs.  The *)
(* file is in no module tree of the kernel, so who calls it is taken from  *)
(* its comments: daemons register and ping, any thread reports, and the    *)
(* timer interrupt runs watchdog_tick, which nothing can interrupt and     *)
(* which spins for the locks that a thread may hold.                       *)
(***************************************************************************)
EXTENDS Integers, Sequences

CONSTANTS
    Daemons,
    Timeout,        \* of a daemon, in ticks of the watchdog
    MaxRestarts,    \* max_restarts: 3 in the code
    EventCap,       \* events events: 256 in the code
    Reports,        \* what threads report: [code, severity]
    MaxEntries      \* a bound: calls of watchdog_register

VARIABLES
    uptime,         \* ticks since boot, up to the longest that is told apart
    entries,        \* WATCHDOG_ENTRIES
    events,         \* EVENT_LOG: of each event, whether it counts as fixed
    thread,         \* the thread that is inside report or watchdog_register
    dead,           \* daemons that will never ping again
    stopped         \* "no", "reboot", or "spins": the interrupt waits for ever

vars == <<uptime, entries, events, thread, dead, stopped>>

Long    == Timeout + 1
Outside == [at |-> "out"]

Init ==
    /\ uptime = 0 /\ entries = << >> /\ events = << >>
    /\ thread = Outside /\ dead = {} /\ stopped = "no"

(* KNOWN_PROBLEMS: a fix succeeds but for a lock's timeout.  Starting a    *)
(* daemon again is all that most of them do, and ipc::spawn_userspace is a *)
(* stub that starts nothing, so a dead daemon stays dead.                  *)
Known == {"DaemonCrash", "DaemonUnresponsive", "NetworkDown", "DnsFailure",
          "AiTimeout", "DiskFull", "LockTimeout"}
Severe == {"Error", "Critical", "Fatal"}
Fixed(r) == r.severity \in Severe /\ r.code \in Known \ {"LockTimeout"}

(* The log keeps the latest events.                                        *)
Stored(fixed) == Append(IF Len(events) >= EventCap THEN Tail(events) ELSE events, fixed)

-----------------------------------------------------------------------------
(* Threads.                                                                *)

Calls == stopped = "no" /\ thread = Outside

(* report: the fix is tried first, then the event is stored under the      *)
(* log's lock, with interrupts on; a fatal one reboots afterwards.         *)
Report(r) ==
    /\ Calls
    /\ thread' = [at |-> "store", fatal |-> r.severity = "Fatal", fixed |-> Fixed(r)]
    /\ UNCHANGED <<uptime, entries, events, dead, stopped>>

StoreLock ==
    /\ stopped = "no" /\ thread.at = "store"
    /\ thread' = [thread EXCEPT !.at = "storing"]
    /\ UNCHANGED <<uptime, entries, events, dead, stopped>>

Store ==
    /\ stopped = "no" /\ thread.at = "storing"
    /\ events' = Stored(thread.fixed)
    /\ thread' = Outside
    /\ stopped' = IF thread.fatal THEN "reboot" ELSE "no"
    /\ UNCHANGED <<uptime, entries, dead>>

(* watchdog_register, under the table's write lock.  The last ping is 0,   *)
(* the time of boot, so silence counts from there.                         *)
RegisterLock(d) ==
    /\ Calls /\ Len(entries) < MaxEntries
    /\ thread' = [at |-> "register", name |-> d]
    /\ UNCHANGED <<uptime, entries, events, dead, stopped>>

Register ==
    /\ stopped = "no" /\ thread.at = "register"
    /\ entries' = Append(entries, [name |-> thread.name, silent |-> uptime,
                                   restarts |-> 0, enabled |-> TRUE])
    /\ thread' = Outside
    /\ UNCHANGED <<uptime, events, dead, stopped>>

(* watchdog_ping: the first entry of that name.                            *)
Ping(d) ==
    /\ Calls /\ d \notin dead
    /\ \E i \in DOMAIN entries :
          /\ entries[i].name = d /\ \A j \in 1 .. i - 1 : entries[j].name # d
          /\ entries' = [entries EXCEPT ![i].silent = 0]
    /\ UNCHANGED <<uptime, events, thread, dead, stopped>>

Die(d) ==
    /\ stopped = "no" /\ d \notin dead
    /\ dead' = dead \cup {d}
    /\ UNCHANGED <<uptime, entries, events, thread, stopped>>

-----------------------------------------------------------------------------
(* The timer.                                                              *)

Older(n) == IF n < Long THEN n + 1 ELSE n
Aged     == [i \in DOMAIN entries |-> [entries[i] EXCEPT !.silent = Older(@)]]
Late(e)  == e.enabled /\ e.silent > Timeout

\* mutant: a restart is not counted
Charged_Free(e) == IF e.restarts < MaxRestarts THEN e ELSE [e EXCEPT !.enabled = FALSE]

(* A late daemon has a restart left, or is isolated.                       *)
Charged(e) ==
    IF e.restarts < MaxRestarts THEN [e EXCEPT !.restarts = @ + 1]
    ELSE [e EXCEPT !.restarts = @ + 1, !.enabled = FALSE]

(* watchdog_tick: the first late entry is dealt with and reported, and the *)
(* rest wait for another tick.                                             *)
Tick ==
    /\ stopped = "no" /\ thread.at # "register"
    /\ uptime' = Older(uptime)
    /\ IF \A i \in DOMAIN Aged : ~Late(Aged[i])
       THEN entries' = Aged /\ UNCHANGED <<events, stopped>>
       ELSE \E i \in DOMAIN Aged :
              /\ Late(Aged[i]) /\ \A j \in 1 .. i - 1 : ~Late(Aged[j])
              /\ entries' = [Aged EXCEPT ![i] = Charged(@)]
              /\ IF thread.at = "storing"
                 THEN stopped' = "spins" /\ UNCHANGED events
                 ELSE events' = Stored(TRUE) /\ UNCHANGED stopped
    /\ UNCHANGED <<thread, dead>>

(* The table's write lock is held by the thread that was interrupted.      *)
TickSpins ==
    /\ stopped = "no" /\ thread.at = "register"
    /\ stopped' = "spins"
    /\ UNCHANGED <<uptime, entries, events, thread, dead>>

Next ==
    \/ \E r \in Reports : Report(r)
    \/ \E d \in Daemons : RegisterLock(d) \/ Ping(d) \/ Die(d)
    \/ StoreLock \/ Store \/ Register
    \/ Tick \/ TickSpins

-----------------------------------------------------------------------------
(* Properties.                                                             *)

(* "3 failures in 60s -> isolate" (fault/mod.rs:16), of every daemon that  *)
(* is dead, although a tick looks no further than the first late one: the  *)
(* others get their turn because each is only restarted so many times.     *)
Watched(i) == i \in DOMAIN entries /\ entries[i].enabled
DeadIsIsolated ==
    \A i \in 1 .. MaxEntries :
        (Watched(i) /\ entries[i].name \in dead) ~> (~Watched(i) \/ stopped # "no")
=============================================================================
