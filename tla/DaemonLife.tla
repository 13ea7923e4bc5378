------------------------------ MODULE DaemonLife ------------------------------
(***************************************************************************)
(* The life of the daemon process (lib/daemon.py): the commands start, run *)
(* and stop look at the pid file and then act on what they saw; the daemon *)
(* takes the path of the control socket for its own, and clears pid file   *)
(* and path away when it ends, whosever they are by then. Daemons are also *)
(* signalled and killed, and the pid of a dead one may go to another       *)
(* program.                                                                *)
(***************************************************************************)
EXTENDS Integers, FiniteSets

CONSTANTS
  Command,             \* terminals, where one command is given after the other
  Daemon,              \* pids of daemons, each lives once
  Nobody               \* no pid file, no socket at the path

VARIABLES
  pidfile,             \* the pid in daemon.pid
  path,                \* the daemon whose socket is at the path
  main,                \* the main thread of every daemon
  server,              \* its thread in control.serve
  asked,               \* the daemons whose _SHUTDOWN is set
  foreground,          \* the daemons of the command run
  foreign,             \* the pids of dead daemons that other programs have now
  command,             \* what every command is about to do
  target,              \* the pid it has in its hands
  rushed               \* whether a command did not wait for what went before

files == <<pidfile, path>>
daemons == <<main, server, asked, foreground, foreign>>
commands == <<command, target>>
life == <<files, daemons, commands, rushed>>

Running == {d \in Daemon : main[d] \notin {"unborn", "dead"}}
Leaving == {d \in Daemon : main[d] \in {"clear path", "leave"}}
Listening == {d \in Running : server[d] = "up"}

\* os.kill(pid, 0)
Lives(pid) == pid \in Running \cup foreign

LifeInit ==
  /\ pidfile = Nobody /\ path = Nobody
  /\ main = [d \in Daemon |-> "unborn"]
  /\ server = [d \in Daemon |-> "start"]
  /\ asked = {} /\ foreground = {} /\ foreign = {}
  /\ command = [c \in Command |-> "idle"]
  /\ target = [c \in Command |-> Nobody]
  /\ rushed = FALSE

Goes(c, stage) == command' = [command EXCEPT ![c] = stage]
Aims(c, pid) == target' = [target EXCEPT ![c] = pid]
Runs(d, stage) == main' = [main EXCEPT ![d] = stage]

-------------------------------------------------------------------------------
\* The commands.

\* A pid file of a dead process is removed.
Look == pidfile' = IF Lives(pidfile) THEN pidfile ELSE Nobody

\* Other commands, or a daemon's last steps, are not waited for.
Rush(c) ==
  rushed' = (rushed \/ Leaving # {} \/ (\E d \in Daemon : main[d] = "claim")
                    \/ \E other \in Command \ {c} : command[other] # "idle")

\* start and run: a daemon that runs is left alone.
LookToStart(c) ==
  /\ command[c] = "idle"
  /\ Look /\ Rush(c)
  /\ Goes(c, IF Lives(pidfile) THEN "idle" ELSE "launch")
  /\ UNCHANGED <<path, daemons, target>>

Fork(c, d) ==
  /\ command[c] = "launch" /\ main[d] = "unborn"
  /\ Runs(d, "loop")
  /\ Goes(c, "write pid") /\ Aims(c, d)
  /\ UNCHANGED <<files, server, asked, foreground, foreign, rushed>>

WritePid(c) ==
  /\ command[c] = "write pid"
  /\ pidfile' = target[c]
  /\ Goes(c, "idle") /\ Aims(c, Nobody)
  /\ UNCHANGED <<path, daemons, rushed>>

\* run: the command is the daemon from here on.
RunInForeground(c, d) ==
  /\ command[c] = "launch" /\ main[d] = "unborn"
  /\ Runs(d, "claim")
  /\ foreground' = foreground \cup {d}
  /\ Goes(c, "idle")
  /\ UNCHANGED <<files, server, asked, foreign, target, rushed>>

ClaimPid(d) ==
  /\ main[d] = "claim"
  /\ pidfile' = d
  /\ Runs(d, "loop")
  /\ UNCHANGED <<path, server, asked, foreground, foreign, commands, rushed>>

LookToStop(c) ==
  /\ command[c] = "idle"
  /\ Look /\ Rush(c)
  /\ Goes(c, "ask") /\ Aims(c, IF Lives(pidfile) THEN pidfile ELSE Nobody)
  /\ UNCHANGED <<path, daemons>>

\* The request goes to whoever listens at the path; without an answer the pid
\* gets a SIGTERM, which ends a program that is no daemon.
Ask(c) ==
  /\ command[c] = "ask"
  /\ IF path \in Listening
       THEN asked' = asked \cup {path} /\ UNCHANGED foreign
       ELSE asked' = asked \cup ({target[c]} \cap Running) /\ foreign' = foreign \ {target[c]}
  /\ Goes(c, IF Lives(target[c]) THEN "wait" ELSE "idle")
  /\ rushed' = (rushed \/ ~Lives(target[c]))
  /\ Aims(c, IF Lives(target[c]) THEN target[c] ELSE Nobody)
  /\ UNCHANGED <<files, main, server, foreground>>

StopEnds_Unwaited(c) ==                                  \* mutated form
  /\ command[c] = "wait"
  /\ pidfile' = Nobody
  /\ Goes(c, "idle") /\ Aims(c, Nobody)
  /\ UNCHANGED <<path, daemons, rushed>>

\* After fifteen seconds it gives up.
StopEnds(c) ==
  /\ command[c] = "wait"
  /\ rushed' = (rushed \/ Lives(target[c]))
  /\ pidfile' = Nobody
  /\ Goes(c, "idle") /\ Aims(c, Nobody)
  /\ UNCHANGED <<path, daemons>>

-------------------------------------------------------------------------------
\* The daemon: the thread of control.serve.

UnlinkPath(d) ==
  /\ d \in Running /\ main[d] # "claim" /\ server[d] = "start"
  /\ path' = Nobody
  /\ server' = [server EXCEPT ![d] = "bind"]
  /\ UNCHANGED <<pidfile, main, asked, foreground, foreign, commands, rushed>>

\* bind raises when there is a file again, and the thread ends.
Bind(d) ==
  /\ d \in Running /\ server[d] = "bind"
  /\ path' = IF path = Nobody THEN d ELSE path
  /\ server' = [server EXCEPT ![d] = IF path = Nobody THEN "up" ELSE "failed"]
  /\ UNCHANGED <<pidfile, main, asked, foreground, foreign, commands, rushed>>

\* The main thread.

LoopEnds(d) ==
  /\ main[d] = "loop" /\ d \in asked
  /\ pidfile' = Nobody
  /\ Runs(d, "clear path")
  /\ UNCHANGED <<path, server, asked, foreground, foreign, commands, rushed>>

ClearPath(d) ==
  /\ main[d] = "clear path"
  /\ path' = Nobody
  /\ Runs(d, "leave")
  /\ UNCHANGED <<pidfile, server, asked, foreground, foreign, commands, rushed>>

\* run clears the pid file once more.
Leave(d) ==
  /\ main[d] = "leave"
  /\ pidfile' = IF d \in foreground THEN Nobody ELSE pidfile
  /\ Runs(d, "dead")
  /\ UNCHANGED <<path, server, asked, foreground, foreign, commands, rushed>>

-------------------------------------------------------------------------------
\* What the machine does to daemons.

\* SIGTERM or SIGINT, of systemd or a terminal.
Signalled(d) ==
  /\ main[d] = "loop"
  /\ asked' = asked \cup {d}
  /\ UNCHANGED <<files, main, server, foreground, foreign, commands, rushed>>

Killed(d) ==
  /\ d \in Running
  /\ Runs(d, "dead")
  /\ UNCHANGED <<files, server, asked, foreground, foreign, commands, rushed>>

PidReused(d) ==
  /\ main[d] = "dead" /\ d \notin foreign
  /\ foreign' = foreign \cup {d}
  /\ UNCHANGED <<files, main, server, asked, foreground, commands, rushed>>

CommandStep(c) ==
  \/ LookToStart(c) \/ WritePid(c) \/ LookToStop(c) \/ Ask(c) \/ StopEnds(c)
  \/ \E d \in Daemon : Fork(c, d) \/ RunInForeground(c, d)
DaemonStep(d) ==
  ClaimPid(d) \/ UnlinkPath(d) \/ Bind(d) \/ LoopEnds(d) \/ ClearPath(d) \/ Leave(d)

LifeNext ==
  \/ \E c \in Command : CommandStep(c)
  \/ \E d \in Daemon : DaemonStep(d) \/ Signalled(d) \/ Killed(d) \/ PidReused(d)

LifeSpec == LifeInit /\ [][LifeNext]_life

-------------------------------------------------------------------------------
LifeTypeOK ==
  /\ pidfile \in Daemon \cup {Nobody} /\ path \in Daemon \cup {Nobody}
  /\ main \in [Daemon -> {"unborn", "claim", "loop", "clear path", "leave", "dead"}]
  /\ server \in [Daemon -> {"start", "bind", "up", "failed"}]
  /\ asked \subseteq Daemon /\ foreground \subseteq Daemon /\ foreign \subseteq Daemon
  /\ command \in [Command -> {"idle", "launch", "write pid", "ask", "wait"}]
  /\ target \in [Command -> Daemon \cup {Nobody}]

\* Neither a command nor a daemon is in the middle of something.
Quiet ==
  /\ \A c \in Command : command[c] = "idle"
  /\ \A d \in Running : main[d] = "loop" /\ d \notin asked /\ server[d] \in {"up", "failed"}

\* _is_running, before start and run: as long as commands take turns and let a
\* daemon that leaves go, there is never more than one daemon, and when all is
\* quiet the pid file names it and the path leads to it, whatever daemon was
\* killed and whoever has the pids of the dead. Commands run to their end here:
\* one that dies after it has launched a daemon and before it has written the
\* pid is left out.
OneDaemonInReach ==
  ~rushed =>
    /\ Cardinality(Running) <= 1
    /\ Quiet => \A d \in Running : pidfile = d /\ path = d /\ server[d] = "up"
===============================================================================
