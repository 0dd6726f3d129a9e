------------------------------ MODULE Security -------------------------------
(***************************************************************************)
(* The registries of src/kernel/src/security: capabilities, namespaces,    *)
(* system call filter and access policy, each a list of (pid, value) under *)
(* a lock of its own.  Nothing in the kernel calls them yet, so the order  *)
(* of the calls is taken from mod.rs: capabilities, namespaces, seccomp,   *)
(* mac, for every process, and the same order on exit.  Two processes'     *)
(* calls interleave.  create_isolated is left out: no function attaches    *)
(* what it returns to a process, so every process that has namespaces has  *)
(* the initial ones and PROC_NS is a list of pids.                         *)
(***************************************************************************)
EXTENDS FiniteSets, SequencesExt, Lists

CONSTANTS
    Pids,           \* processes other than the kernel, whose pid is 0
    Caps,           \* capabilities that are told apart: names of the enum Cap
    Chosen,         \* values of ProcCaps that init may make up (public fields)
    Profiles,       \* seccomp profiles in use
    ProcLabels,     \* labels given to processes
    Labelled        \* labels given to resources: <<path, label>>, a path being
                    \* a sequence of characters

VARIABLES
    caps,           \* CAP_TABLE
    spaces,         \* PROC_NS: the pids in the initial namespaces
    profiles,       \* PROFILES
    labels,         \* proc_labels
    resources,      \* resource_labels
    life,           \* where each process is between its start and its exit
    gone,           \* what a process or one it descends from has dropped
    told            \* the profile and label a process was given last

vars == <<caps, spaces, profiles, labels, resources, life, gone, told>>

Free    == [at |-> "free"]
Nothing == "none"

-----------------------------------------------------------------------------
(* The lists: the first entry of a key counts.                             *)

Keys(table)     == {table[i].key : i \in DOMAIN table}
First(table, k) == CHOOSE i \in DOMAIN table :
                       table[i].key = k /\ \A j \in 1 .. i - 1 : table[j].key # k
Get(table, k)   == IF k \in Keys(table) THEN table[First(table, k)].val ELSE Nothing

(* register, set_profile, label_process, label_resource.                   *)
Put(table, k, v) ==
    IF k \in Keys(table) THEN [table EXCEPT ![First(table, k)].val = v]
    ELSE Append(table, [key |-> k, val |-> v])

(* The deregister functions.                                               *)
Without(table, k) == Kept(table, {i \in DOMAIN table : table[i].key # k})

-----------------------------------------------------------------------------
(* Capabilities.                                                           *)

ProcCaps(p, i, a) == [permitted |-> p, effective |-> p, inheritable |-> i, ambient |-> a]
all_powerful == ProcCaps(Caps, {}, {})
unprivileged == ProcCaps({}, {}, {})
daemon == ProcCaps(Caps \cap {"NetBindService", "NetBroadcast", "SysResource",
                              "IpcOwner", "AuditWrite"}, {}, {})

\* mutant: the ambient set keeps what is dropped
drop_Ambient(pc, c) ==
    [pc EXCEPT !.permitted = @ \ {c}, !.effective = @ \ {c}, !.inheritable = @ \ {c}]

drop(pc, c) ==
    [permitted |-> pc.permitted \ {c}, effective |-> pc.effective \ {c},
     inheritable |-> pc.inheritable \ {c}, ambient |-> pc.ambient \ {c}]

exec_child(pc, file) ==
    LET kept == pc.inheritable \cap file
    IN  ProcCaps(kept \cup pc.ambient, kept, pc.ambient)

HasCap(p, c) == p \in Keys(caps) /\ c \in Get(caps, p).effective

-----------------------------------------------------------------------------
(* The system call filter, with the numbers as names.                      *)

Strict == {"read", "write", "exit", "exit_group", "rt_sigreturn", "nanosleep"}
Default == Strict \cup
    {"open", "openat", "close", "stat", "fstat", "lstat", "newfstatat", "lseek",
     "mmap", "mprotect", "munmap", "brk", "rt_sigaction", "ioctl", "readv", "writev",
     "getdents64", "readlinkat", "fcntl", "pipe2", "dup2", "poll", "epoll_create1",
     "epoll_ctl", "epoll_wait", "sendfile", "futex", "clock_gettime", "getuid",
     "getgid", "getpid", "getppid", "prctl", "getrandom"}
Network == Default \cup
    {"socket", "connect", "accept", "accept4", "sendto", "recvfrom", "bind", "listen"}
Calls   == Network \cup {"fork", "clone", "execve", "kill", "ptrace", "seccomp"}

allows(profile) == CASE profile = "Unconfined" -> Calls
                     [] profile = "Strict"     -> Strict
                     [] profile = "Default"    -> Default
                     [] profile = "Network"    -> Network

(* check_syscall: Log lets the call through, Kill ends the process.        *)
check_syscall(p, nr) ==
    IF p \in Keys(profiles) /\ nr \in allows(Get(profiles, p)) THEN "Log" ELSE "Kill"

-----------------------------------------------------------------------------
(* The access policy: load_default_policy, one rule for a pair of labels.  *)

Wire == {"CONNECT", "SEND", "RECV"}
All  == Wire \cup {"READ", "WRITE", "EXECUTE", "CREATE", "DELETE", "SIGNAL",
                   "SETATTR", "GETATTR", "APPEND", "IOCTL"}
Rules ==
    {<<s, o, All>> : s \in {"kernel_t", "init_t"}, o \in {"sys_file_t", "user_file_t"}}
    \cup {<<"init_t", "ipc_obj_t", All>>,
          <<"daemon_t", "ipc_obj_t", {"SEND", "RECV", "CREATE"}>>,
          <<"user_t", "ipc_obj_t", {"SEND", "RECV"}>>,
          <<"user_t", "user_file_t", {"READ", "WRITE", "CREATE", "DELETE", "GETATTR",
                                      "SETATTR", "APPEND"}>>,
          <<"browser_t", "user_file_t", {"READ", "WRITE", "CREATE", "GETATTR"}>>,
          <<"untrusted_t", "user_file_t", {"READ", "GETATTR"}>>}
    \cup {<<s, "net_socket_t", Wire>> : s \in {"daemon_t", "user_t", "browser_t"}}
    \cup {<<s, "sys_file_t", {"READ", "GETATTR"}>> : s \in {"daemon_t", "user_t"}}

Paths == {l[1] : l \in Labelled}

(* The label of the longest path that the resource's begins with.          *)
LabelOf(r) ==
    LET above == {k \in Keys(resources) : IsPrefix(k, r)}
    IN  IF above = {} THEN Nothing
        ELSE Get(resources, CHOOSE k \in above : \A j \in above : Len(j) <= Len(k))

MayAccess(p, r, access) ==
    /\ p \in Keys(labels)
    /\ \E rule \in Rules : /\ rule[1] = Get(labels, p)
                           /\ rule[2] = LabelOf(r)
                           /\ access \subseteq rule[3]

-----------------------------------------------------------------------------
(* security::init has run: the kernel is in every list.                    *)
Init ==
    /\ caps = <<[key |-> 0, val |-> all_powerful]>>
    /\ spaces = <<[key |-> 0, val |-> "init"]>>
    /\ profiles = <<[key |-> 0, val |-> "Unconfined"]>>
    /\ labels = <<[key |-> 0, val |-> "kernel_t"]>>
    /\ resources = <<>>
    /\ life = [p \in Pids |-> Free]
    /\ gone = [p \in Pids |-> {}]
    /\ told = [p \in Pids |-> [profile |-> Nothing, label |-> Nothing]]

At(p, where) == life[p].at = where
Goes(p, where) == life' = [life EXCEPT ![p].at = where]

(* A process starts with capabilities that the kernel chose, or with those *)
(* an exec leaves it of its parent's.                                      *)
Start(p) ==
    /\ At(p, "free")
    /\ \/ \E pc \in Chosen \cup {unprivileged, daemon} :
              /\ caps' = Put(caps, p, pc)
              /\ life' = [life EXCEPT ![p] = [at |-> "caps", parent |-> 0]]
              /\ gone' = [gone EXCEPT ![p] = {}]
       \/ \E q \in Pids \ {p}, file \in {Caps, {}} :
              /\ At(q, "live")
              /\ caps' = Put(caps, p, exec_child(Get(caps, q), file))
              /\ life' = [life EXCEPT ![p] = [at |-> "caps", parent |-> q]]
              /\ gone' = [gone EXCEPT ![p] = gone[q]]
    /\ UNCHANGED <<spaces, profiles, labels, resources, told>>

(* fork_namespaces reads the parent's entry under one lock and pushes the  *)
(* child's under another; it does nothing for a parent that has left.      *)
ForkReads(p) ==
    /\ At(p, "caps")
    /\ Goes(p, IF life[p].parent \in Keys(spaces) THEN "forking" ELSE "spaces")
    /\ UNCHANGED <<caps, spaces, profiles, labels, resources, gone, told>>

ForkPushes(p) ==
    /\ At(p, "forking")
    /\ spaces' = Append(spaces, [key |-> p, val |-> "init"])
    /\ Goes(p, "spaces")
    /\ UNCHANGED <<caps, profiles, labels, resources, gone, told>>

SetProfile(p, profile) ==
    /\ At(p, "spaces") \/ At(p, "live")
    /\ profiles' = Put(profiles, p, profile)
    /\ told' = [told EXCEPT ![p].profile = profile]
    /\ IF At(p, "spaces") THEN Goes(p, "profile") ELSE UNCHANGED life
    /\ UNCHANGED <<caps, spaces, labels, resources, gone>>

LabelProcess(p, label) ==
    /\ At(p, "profile") \/ At(p, "live")
    /\ labels' = Put(labels, p, label)
    /\ told' = [told EXCEPT ![p].label = label]
    /\ Goes(p, "live")
    /\ UNCHANGED <<caps, spaces, profiles, resources, gone>>

LabelResource(r, label) ==
    /\ resources' = Put(resources, r, label)
    /\ UNCHANGED <<caps, spaces, profiles, labels, life, gone, told>>

(* A live process gives up a capability, or becomes another program: the   *)
(* new value takes the place of the one that is registered.                *)
Drop(p, c) ==
    /\ At(p, "live")
    /\ caps' = Put(caps, p, drop(Get(caps, p), c))
    /\ gone' = [gone EXCEPT ![p] = @ \cup {c}]
    /\ UNCHANGED <<spaces, profiles, labels, resources, life, told>>

Exec(p, file) ==
    /\ At(p, "live")
    /\ caps' = Put(caps, p, exec_child(Get(caps, p), file))
    /\ UNCHANGED <<spaces, profiles, labels, resources, life, gone, told>>

(* Exit takes the process out of one list after the other.                 *)
LeaveCaps(p) ==
    /\ At(p, "live") /\ Goes(p, "left caps") /\ caps' = Without(caps, p)
    /\ UNCHANGED <<spaces, profiles, labels, resources, gone, told>>
LeaveSpaces(p) ==
    /\ At(p, "left caps") /\ Goes(p, "left spaces") /\ spaces' = Without(spaces, p)
    /\ UNCHANGED <<caps, profiles, labels, resources, gone, told>>
LeaveProfiles(p) ==
    /\ At(p, "left spaces") /\ Goes(p, "left profiles")
    /\ profiles' = Without(profiles, p)
    /\ told' = [told EXCEPT ![p].profile = Nothing]
    /\ UNCHANGED <<caps, spaces, labels, resources, gone>>
LeaveLabels(p) ==
    /\ At(p, "left profiles") /\ labels' = Without(labels, p)
    /\ life' = [life EXCEPT ![p] = Free]
    /\ told' = [told EXCEPT ![p].label = Nothing]
    /\ UNCHANGED <<caps, spaces, profiles, resources, gone>>

Next ==
    \/ \E p \in Pids :
          \/ Start(p) \/ ForkReads(p) \/ ForkPushes(p)
          \/ \E profile \in Profiles : SetProfile(p, profile)
          \/ \E label \in ProcLabels : LabelProcess(p, label)
          \/ \E c \in Caps : Drop(p, c)
          \/ \E file \in SUBSET Caps : Exec(p, file)
          \/ LeaveCaps(p) \/ LeaveSpaces(p) \/ LeaveProfiles(p) \/ LeaveLabels(p)
    \/ \E l \in Labelled : LabelResource(l[1], l[2])

-----------------------------------------------------------------------------
(* Properties.                                                             *)

(* "Dropping a capability is permanent" (capabilities.rs:13), through any  *)
(* chain of forks and execs, and nobody acts on more than it is permitted. *)
DropIsForGood ==
    \A p \in Pids \cap Keys(caps) :
        LET pc == Get(caps, p)
        IN  /\ (pc.permitted \cup pc.inheritable \cup pc.ambient) \cap gone[p] = {}
            /\ \A c \in Caps : HasCap(p, c) => c \in pc.permitted \ gone[p]

(* A process that reuses a pid meets nothing of the earlier one: before    *)
(* its own entries are in and after they are out, every layer refuses.     *)
StrangersRefused ==
    \A p \in Pids : At(p, "free") =>
        /\ \A c \in Caps : ~HasCap(p, c)
        /\ p \notin Keys(spaces)
        /\ check_syscall(p, "read") = "Kill"
        /\ \A r \in Paths : ~MayAccess(p, r, {"READ"})

(* The latest profile and label of a process decide (seccomp.rs:179,       *)
(* mac.rs:193): a strict process reads and does not open, and an untrusted *)
(* one reads user files at most, however processes and paths are labelled. *)
LatestDecides ==
    \A p \in Pids :
        /\ told[p].profile = "Strict" => /\ check_syscall(p, "read") = "Log"
                                         /\ check_syscall(p, "open") = "Kill"
        /\ told[p].label = "untrusted_t" =>
               \A r \in Paths : /\ ~MayAccess(p, r, {"WRITE"})
                                /\ MayAccess(p, r, {"READ"}) => LabelOf(r) = "user_file_t"

Confined == DropIsForGood /\ StrangersRefused /\ LatestDecides
=============================================================================
