----------------------------- MODULE MCShutdown -----------------------------
(* Instances of Shutdown for TLC: a program of the session, a daemon of the *)
(* early boot, and a virtual terminal: the forever.sh that keeps an agetty, *)
(* and a login shell on it.                                                 *)
EXTENDS Shutdown

CONSTANTS app, daemon, keeper, getty, shell, stick

MCProcs == {app, daemon, keeper, getty, shell}
MCMedia == {stick}
MCNone == {}

MCUses == [p \in MCProcs |->
             CASE p = app -> {"/", "n-pts", stick}
               [] p = daemon -> {"sysroot"}
               [] OTHER -> {"sysroot", "s-dev"}]

\* An interactive bash ignores SIGTERM.
MCTemper == [p \in MCProcs |->
               CASE p = shell -> "deaf"
                 [] p = daemon -> "slow"
                 [] OTHER -> "heeds"]

\* A program of the session that takes its time, too.
SlowTemper == [MCTemper EXCEPT ![app] = "slow"]

MCKeeper == [p \in MCProcs |-> IF p = getty THEN keeper ELSE NoProc]

=============================================================================
