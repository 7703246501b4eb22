------------------------------ MODULE Sandbox ------------------------------
(***************************************************************************)
(* The scratch proxies of `sieve demo` and `sieve benchmark`               *)
(* (_sandbox.py).  Each command sweeps what earlier commands left, makes a *)
(* directory with a store of its own, spawns a proxy over it, names the    *)
(* proxy in a pid file, waits until its port answers, works, and tears all *)
(* of it down, also when a signal ends it.  Commands are processes: they   *)
(* run beside each other and beside the proxies, and share the directory   *)
(* that holds the sandboxes, and the ports.                                *)
(***************************************************************************)
EXTENDS Naturals, FiniteSets

CONSTANTS
    Commands,   \* the commands; each makes at most one sandbox, named after it
    Ports,      \* the ports the system hands out
    Hits,       \* how many signals, also SIGKILL, the commands get
    Faults,     \* how many proxies die, exceptions rise or pids are reused
    Nobody      \* no command, no port

ASSUME SandboxAssumption == /\ Nobody \notin Commands \cup Ports
                            /\ Hits \in Nat /\ Faults \in Nat

VARIABLES
    command,    \* per command: where it is and what happened to it
    box,        \* per command: its directory and the pid file in it
    proxy,      \* per command: the proxy it spawned
    hits, faults

vars == <<command, box, proxy, hits, faults>>

(* Where a command is: in the sweep, in __enter__, in the body of its      *)
(* `with`, in _teardown.                                                   *)
Sweeping == {"sweep", "doubt", "remove"}
Entering == {"configure", "prepare", "spawn", "assign", "open", "name", "health"}
Closing  == {"close", "terminate", "await", "rmtree"}
Places   == {"idle", "body", "over"} \cup Sweeping \cup Entering \cup Closing

Running(c) == proxy[c].state \in {"spawned", "loaded", "serving"}

(* The proxy that answers on the port of c.                                *)
Answering(c) == {d \in Commands : proxy[d].state = "serving"
                                  /\ proxy[d].port = proxy[c].port}

(* A dead child that its parent has not polled is still a process.         *)
Zombie(c) == /\ proxy[c].state = "dead"
             /\ command[c].at \in {"assign", "open", "name", "health", "body"}

(* Mutant: a directory left for long is nobody's.                          *)
AliveYoung(c) == box[c].pid = "whole" /\ ~box[c].old
                 /\ (Running(c) \/ Zombie(c) \/ proxy[c].reused)

(* _is_sandbox_alive.  A pid file that was opened and not yet written does *)
(* not parse.  A pid may have been given to another process.               *)
Alive(c) == box[c].pid = "whole" /\ (Running(c) \/ Zombie(c) \/ proxy[c].reused)

Go(c, place) == command' = [command EXCEPT ![c].at = place]

---------------------------------------------------------------------------

(* The command is called; the provider answers, the configuration loads.   *)
Start(c) ==
    /\ command[c].at = "idle"
    /\ command' = [command EXCEPT ![c] =
         [@ EXCEPT !.at = "sweep",
                   !.todo = {d \in Commands : box[d].dir = "there"}]]
    /\ UNCHANGED <<box, proxy, hits, faults>>

(* sweep_orphan_sandboxes: the first look at a directory ...               *)
Look(c) ==
    /\ command[c].at = "sweep"
    /\ \E d \in command[c].todo :
         command' = [command EXCEPT ![c] =
           IF box[d].dir = "there" /\ ~Alive(d)
           THEN [command[c] EXCEPT !.at = "doubt", !.look = d, !.saw = box[d].pid]
           ELSE [command[c] EXCEPT !.todo = @ \ {d}]]
    /\ UNCHANGED <<box, proxy, hits, faults>>

(* ... the second, which asks again whether there is a pid file ...        *)
Doubt(c) ==
    LET d == command[c].look IN
    /\ command[c].at = "doubt"
    /\ IF box[d].dir = "there" /\ box[d].pid = "none" /\ ~box[d].old
       THEN /\ command' = [command EXCEPT ![c] =
                 [command[c] EXCEPT !.at = "sweep", !.todo = @ \ {d}, !.look = Nobody]]
            /\ UNCHANGED proxy
       ELSE /\ Go(c, "remove")
            /\ proxy' = [proxy EXCEPT ![d].misjudged = @ \/ Running(d)]
    /\ UNCHANGED <<box, hits, faults>>

(* ... and the removal.                                                    *)
Remove(c) ==
    LET d == command[c].look IN
    /\ command[c].at = "remove"
    /\ command' = [command EXCEPT ![c] =
         [command[c] EXCEPT !.at = "sweep", !.todo = @ \ {d}, !.look = Nobody]]
    /\ box' = [box EXCEPT ![d].dir = "gone"]
    /\ UNCHANGED <<proxy, hits, faults>>

MakeDir(c) ==
    /\ command[c].at = "sweep" /\ command[c].todo = {}
    /\ command' = [command EXCEPT ![c] =
         [@ EXCEPT !.at = "configure", !.saw = "none"]]
    /\ box' = [box EXCEPT ![c].dir = "there"]
    /\ UNCHANGED <<proxy, hits, faults>>

(* _pick_free_port: bound and released; others may get it before the child *)
(* binds it.                                                               *)
FreePorts == {p \in Ports : \A d \in Commands :
                ~(proxy[d].state = "serving" /\ proxy[d].port = p)}

(* Keys, and a configuration with a port and a store of its own.           *)
Configure(c) ==
    /\ command[c].at = "configure"
    /\ Go(c, "prepare")
    /\ \E p \in FreePorts : proxy' = [proxy EXCEPT ![c].port = p]
    /\ UNCHANGED <<box, hits, faults>>

(* The store; then the signal handlers and the hook of the interpreter's   *)
(* exit.                                                                   *)
Prepare(c) ==
    /\ command[c].at = "prepare"
    /\ command' = [command EXCEPT ![c].at = "spawn", ![c].hooked = TRUE]
    /\ UNCHANGED <<box, proxy, hits, faults>>

(* Popen: the child runs before the parent has it in self._proc.           *)
Spawn(c) ==
    /\ command[c].at = "spawn"
    /\ Go(c, "assign")
    /\ proxy' = [proxy EXCEPT ![c].state = "spawned"]
    /\ UNCHANGED <<box, hits, faults>>

Assign(c) ==
    /\ command[c].at = "assign"
    /\ command' = [command EXCEPT ![c].at = "open", ![c].known = TRUE]
    /\ UNCHANGED <<box, proxy, hits, faults>>

(* write_text opens the pid file, which a swept directory refuses ...      *)
OpenPid(c) ==
    /\ command[c].at = "open"
    /\ IF box[c].dir = "there"
       THEN /\ Go(c, "name")
            /\ box' = [box EXCEPT ![c].pid = "empty"]
       ELSE /\ Go(c, "close")
            /\ UNCHANGED box
    /\ UNCHANGED <<proxy, hits, faults>>

(* ... and writes it.                                                      *)
NamePid(c) ==
    /\ command[c].at = "name"
    /\ Go(c, "health")
    /\ box' = [box EXCEPT ![c].pid = "whole"]
    /\ UNCHANGED <<proxy, hits, faults>>

(* Something answers /sieve/health on the port; the configuration is read  *)
(* back, which a swept directory refuses.                                  *)
Healthy(c) ==
    /\ command[c].at = "health"
    /\ Running(c) /\ Answering(c) # {}
    /\ Go(c, IF box[c].dir = "there" THEN "body" ELSE "close")
    /\ UNCHANGED <<box, proxy, hits, faults>>

(* The child has died, or nothing answered in time.                        *)
Unhealthy(c) ==
    /\ command[c].at = "health"
    /\ ~Running(c) \/ Answering(c) = {}
    /\ Go(c, "close")
    /\ UNCHANGED <<box, proxy, hits, faults>>

(* The work is done, or an exception ended it; __exit__.                   *)
Finish(c) ==
    /\ command[c].at = "body"
    /\ Go(c, "close")
    /\ UNCHANGED <<box, proxy, hits, faults>>

(* _teardown: once only, the handlers first.                               *)
Close(c) ==
    /\ command[c].at = "close"
    /\ command' = [command EXCEPT ![c] = IF @.torn
                     THEN [@ EXCEPT !.at = "over"]
                     ELSE [@ EXCEPT !.at = "terminate", !.torn = TRUE]]
    /\ UNCHANGED <<box, proxy, hits, faults>>

(* Mutant: the directory goes before the process has ended.                *)
TerminateNoWait(c) ==
    /\ command[c].at = "terminate"
    /\ Go(c, "rmtree")
    /\ UNCHANGED <<box, proxy, hits, faults>>

(* SIGTERM, unless the child is not known or has ended.                    *)
Terminate(c) ==
    /\ command[c].at = "terminate"
    /\ Go(c, IF command[c].known /\ Running(c) THEN "await" ELSE "rmtree")
    /\ UNCHANGED <<box, proxy, hits, faults>>

(* It has ended within the grace, or is killed.                            *)
Await(c) ==
    /\ command[c].at = "await"
    /\ Go(c, "rmtree")
    /\ proxy' = [proxy EXCEPT ![c].state = "dead"]
    /\ UNCHANGED <<box, hits, faults>>

Rmtree(c) ==
    /\ command[c].at = "rmtree"
    /\ Go(c, "over")
    /\ box' = [box EXCEPT ![c].dir = "gone"]
    /\ UNCHANGED <<proxy, hits, faults>>

---------------------------------------------------------------------------

(* An exception in __enter__.  Before the hook nothing is cleaned up; with *)
(* it the interpreter's exit does.                                         *)
Raise(c) ==
    /\ faults < Faults /\ faults' = faults + 1
    /\ command[c].at \in {"configure", "prepare", "spawn"}
    /\ LET s == command[c]
       IN command' = [command EXCEPT ![c] =
            [s EXCEPT !.at = IF s.hooked THEN "close" ELSE "over",
                      !.cut = @ \cup {s.at}]]
    /\ UNCHANGED <<box, proxy, hits>>

(* SIGINT or SIGTERM.  The handler tears down and raises.  Without one, or *)
(* once a teardown has begun, the command just ends; a removal that is cut *)
(* may have removed the pid file already.                                  *)
Signal(c) ==
    /\ hits < Hits /\ hits' = hits + 1
    /\ command[c].at \notin {"idle", "over"}
    /\ LET s == command[c]
       IN command' = [command EXCEPT ![c] =
            [s EXCEPT !.at = IF s.hooked /\ ~s.torn THEN "close" ELSE "over",
                      !.todo = {}, !.look = Nobody,
                      !.saw = "none", !.cut = @ \cup {s.at}]]
    /\ \/ UNCHANGED box
       \/ /\ command[c].at = "rmtree"
          /\ box' = [box EXCEPT ![c].pid = "none"]
    /\ UNCHANGED <<proxy, faults>>

(* SIGKILL, a crash of the machine's session.                              *)
Kill(c) ==
    /\ hits < Hits /\ hits' = hits + 1
    /\ command[c].at \notin {"idle", "over"}
    /\ command' = [command EXCEPT ![c] =
         [command[c] EXCEPT !.at = "over", !.todo = {}, !.look = Nobody,
                            !.saw = "none", !.cut = @ \cup {"kill"}]]
    /\ UNCHANGED <<box, proxy, faults>>

---------------------------------------------------------------------------

(* RecallConfig.load in the child: a file that is missing counts as an     *)
(* empty one, and the default store is the user's.                         *)
StoreOf(c) == IF box[c].dir = "there" THEN "own" ELSE "main"

Load(c) ==
    /\ proxy[c].state = "spawned"
    /\ proxy' = [proxy EXCEPT ![c] =
         [@ EXCEPT !.state = "loaded",
                   !.store = StoreOf(c)]]
    /\ UNCHANGED <<command, box, hits, faults>>

(* It binds its port, or ends where another has it.                        *)
Bind(c) ==
    /\ proxy[c].state = "loaded"
    /\ proxy' = [proxy EXCEPT ![c].state =
                   IF Answering(c) = {} THEN "serving" ELSE "dead"]
    /\ UNCHANGED <<command, box, hits, faults>>

Die(c) ==
    /\ faults < Faults /\ faults' = faults + 1
    /\ Running(c)
    /\ proxy' = [proxy EXCEPT ![c].state = "dead"]
    /\ UNCHANGED <<command, box, hits>>

(* The pid in a pid file left behind is given to another process.          *)
Reuse(c) ==
    /\ faults < Faults /\ faults' = faults + 1
    /\ command[c].at = "over" /\ proxy[c].state = "dead" /\ box[c].dir = "there"
    /\ proxy' = [proxy EXCEPT ![c].reused = TRUE]
    /\ UNCHANGED <<command, box, hits>>

(* The directory was last touched _ORPHAN_AGE_S ago.  A command that still *)
(* enters is younger than that.                                            *)
Age(c) ==
    /\ box[c].dir = "there" /\ ~box[c].old
    /\ command[c].at \in {"body", "over"}
    /\ box' = [box EXCEPT ![c].old = TRUE]
    /\ UNCHANGED <<command, proxy, hits, faults>>

---------------------------------------------------------------------------

Init ==
    /\ command = [c \in Commands |->
         [at |-> "idle", todo |-> {}, look |-> Nobody,
          saw |-> "none", hooked |-> FALSE, known |-> FALSE, torn |-> FALSE, cut |-> {}]]
    /\ box = [c \in Commands |-> [dir |-> "none", pid |-> "none", old |-> FALSE]]
    /\ proxy = [c \in Commands |->
         [state |-> "none", port |-> Nobody, store |-> "none",
          reused |-> FALSE, misjudged |-> FALSE]]
    /\ hits = 0 /\ faults = 0

Step(c) ==
    \/ Look(c) \/ Doubt(c) \/ Remove(c) \/ MakeDir(c) \/ Configure(c) \/ Prepare(c)
    \/ Spawn(c) \/ Assign(c) \/ OpenPid(c) \/ NamePid(c)
    \/ Healthy(c) \/ Unhealthy(c) \/ Finish(c)
    \/ Close(c) \/ Terminate(c) \/ Await(c) \/ Rmtree(c)

Child(c) == Load(c) \/ Bind(c)

Next == \E c \in Commands :
    \/ Start(c) \/ Step(c) \/ Child(c)
    \/ Raise(c) \/ Signal(c) \/ Kill(c)
    \/ Die(c) \/ Reuse(c) \/ Age(c)

Spec == Init /\ [][Next]_vars

---------------------------------------------------------------------------

(* A command that is over has left neither a proxy nor a directory, unless *)
(* it was killed, or hit in one of three windows: before the hook, between *)
(* the fork and the assignment of the child, and in a teardown.            *)
NothingLeft ==
    \A c \in Commands :
      /\ command[c].at = "over"
      /\ command[c].cut \cap ({"kill", "configure", "prepare", "assign"} \cup Closing) = {}
      => ~Running(c) /\ box[c].dir # "there"

(* Live sandboxes are spared, once the pid file names them: a sweep is     *)
(* about to remove the directory of a proxy that runs only if it looked    *)
(* before the file was whole.                                              *)
SparedOnceNamed ==
    \A c, d \in Commands :
      command[c].look = d /\ Running(d) => command[c].saw # "whole"

(* The user's store is opened by a scratch proxy only where its directory  *)
(* went before it had read its configuration: a sweep took it for dead, or *)
(* the command was hit between the fork and the assignment.                *)
MainStoreApart ==
    \A c \in Commands :
      proxy[c].store = "main"
      => proxy[c].misjudged \/ "assign" \in command[c].cut

=============================================================================
