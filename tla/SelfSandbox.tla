---------------------------- MODULE SelfSandbox ----------------------------
(***************************************************************************)
(* The start of the SNI proxy process (sni_proxy.rs, run and harden): it   *)
(* reads its configuration, joins the namespaces of the sandbox, waits for *)
(* the route, binds its port, gives up every right that serving does not   *)
(* need and only then says LISTENING.  The rights are what the kernel      *)
(* keeps for the process; each step asks something of them, so the steps   *)
(* have one order in which all of them succeed.                            *)
(***************************************************************************)
EXTENDS Naturals, Sequences

VARIABLES
    at,    \* how many steps are done
    up,    \* "starting", "failed" or "serving"
    proc   \* the rights: userns, netns, eff, perm, bound, nnp, dumpable, filter

startVars == <<at, up, proc>>

Caps == {"net_admin", "setpcap", "sys_admin", "other"}

\* Mutant: the capabilities are dropped before the bounding set.
Steps_CapsFirst ==
    <<"config", "userns", "netns", "route", "bind", "nnp", "dumpable", "caps", "bound", "filter",
      "announce">>

\* The steps of run(); those from "nnp" to "filter" are harden().
Steps ==
    <<"config", "userns", "netns", "route", "bind", "nnp", "dumpable", "bound", "caps", "filter",
      "announce">>

-----------------------------------------------------------------------------
(* The filter.                                                             *)

\* Mutant: every socket may be made.
Sockets_Any == {"socket_inet", "socket_netlink", "socket_unix"}

\* socket() is pinned to AF_INET.
Sockets == {"socket_inet"}

\* Mutant: only the newer of the two event waits is on the list.
Waits_NoPoll == {"ppoll"}

Waits == {"ppoll", "poll"}

Allowed ==
    {"read", "write", "close", "recvfrom", "sendto", "recvmsg", "sendmsg", "accept4", "connect",
     "bind", "listen", "shutdown", "setsockopt", "getsockopt", "getsockname", "getpeername",
     "fcntl", "ioctl", "clone", "clone3", "futex", "set_robust_list",
     "set_tid_address", "rseq", "sched_yield", "mmap", "munmap", "mprotect", "madvise", "brk",
     "rt_sigaction", "rt_sigprocmask", "rt_sigreturn", "sigaltstack", "tgkill", "clock_gettime",
     "clock_nanosleep", "nanosleep", "getrandom", "getpid", "gettid", "exit", "exit_group",
     "restart_syscall"} \cup Waits \cup Sockets

\* A call outside the filter kills the process.
Permits(calls) == proc.filter => calls \subseteq Allowed

-----------------------------------------------------------------------------
(* The kernel's side of each step.                                         *)

CallsOf(step) ==
    CASE step = "config" -> {"read"}
      [] step = "userns" -> {"open", "setns"}
      [] step = "netns" -> {"open", "setns"}
      [] step = "route" -> {"open", "read", "close", "nanosleep"}
      [] step = "bind" -> {"socket_inet", "setsockopt", "bind", "listen"}
      [] step \in {"nnp", "dumpable", "bound"} -> {"prctl"}
      [] step = "caps" -> {"capset", "prctl"}
      [] step = "filter" -> {"prctl", "seccomp"}
      [] step = "announce" -> {"write"}

\* What the kernel wants before it lets the step succeed.
Granted(step) ==
    CASE step = "netns" -> "sys_admin" \in proc.eff
      [] step = "bound" -> "setpcap" \in proc.eff
      [] step = "caps" -> "net_admin" \in proc.perm
      [] OTHER -> TRUE

\* What the step leaves; joining a user namespace grants every capability.
After(step) ==
    CASE step = "userns" -> [proc EXCEPT !.userns = TRUE, !.eff = Caps, !.perm = Caps, !.bound = Caps]
      [] step = "netns" -> [proc EXCEPT !.netns = TRUE]
      [] step = "nnp" -> [proc EXCEPT !.nnp = TRUE]
      [] step = "dumpable" -> [proc EXCEPT !.dumpable = FALSE]
      [] step = "bound" -> [proc EXCEPT !.bound = {"net_admin"}]
      [] step = "caps" -> [proc EXCEPT !.eff = {"net_admin"}, !.perm = {"net_admin"}]
      [] step = "filter" -> [proc EXCEPT !.filter = TRUE, !.nnp = TRUE]
      [] OTHER -> proc

\* The steps that the host may fail: a configuration that is cut short, a
\* child that is gone, no route in time, a port that is taken.
HostFails == {"config", "userns", "netns", "route", "bind"}

StartInit ==
    /\ at = 0 /\ up = "starting"
    /\ proc = [userns |-> FALSE, netns |-> FALSE, eff |-> {}, perm |-> {}, bound |-> Caps,
               nnp |-> FALSE, dumpable |-> TRUE, filter |-> FALSE]

\* One step of run() up to the accept loop.
Start ==
    /\ up = "starting"
    /\ LET step == Steps[at + 1] IN
       IF Granted(step) /\ Permits(CallsOf(step))
       THEN /\ at' = at + 1 /\ proc' = After(step)
            /\ up' = IF at + 1 = Len(Steps) THEN "serving" ELSE up
       ELSE up' = "failed" /\ UNCHANGED <<at, proc>>

\* `?` on a step the host fails.
StartFails ==
    /\ up = "starting" /\ Steps[at + 1] \in HostFails
    /\ up' = "failed" /\ UNCHANGED <<at, proc>>

-----------------------------------------------------------------------------
StartTypeOK ==
    /\ at \in 0..Len(Steps) /\ up \in {"starting", "failed", "serving"}
    /\ proc \in [userns : BOOLEAN, netns : BOOLEAN, eff : SUBSET Caps, perm : SUBSET Caps,
                 bound : SUBSET Caps, nnp : BOOLEAN, dumpable : BOOLEAN, filter : BOOLEAN]

\* sni_proxy.rs:167: when the proxy has said LISTENING it is in both
\* namespaces, holds CAP_NET_ADMIN and can gain nothing more, and its filter
\* lets it open no file, no other kind of socket and no other program.
Contained ==
    up = "serving" =>
        /\ proc.userns /\ proc.netns /\ proc.nnp /\ ~proc.dumpable
        /\ proc.eff = {"net_admin"} /\ proc.perm = {"net_admin"} /\ proc.bound = {"net_admin"}
        /\ \A call \in {"open", "openat", "openat2", "execve", "execveat", "ptrace", "mount",
                        "setns", "seccomp", "capset", "prctl", "socket_netlink", "socket_unix"} :
              ~Permits({call})

\* sni_proxy.rs:74: each step of harden() finds the rights it needs, so the
\* proxy fails to come up only where the host fails it.
OnlyHostFails == up = "failed" => Steps[at + 1] \in HostFails
=============================================================================
