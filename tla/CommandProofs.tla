---------------------------- MODULE CommandProofs ----------------------------
(***************************************************************************)
(* Two commands that run a proxy of their own.  For any number of          *)
(* commands, ports, signals and faults: what Sandbox leaves behind, what   *)
(* its sweeps spare, and which store a scratch proxy opens.  For any       *)
(* script, runs, failures and writes that land at any time: what Benchmark *)
(* measures and what it reports.                                           *)
(***************************************************************************)
EXTENDS Sandbox, Benchmark, FiniteSetTheorems, SequenceTheorems, TLAPS

\* A command's share of the state.
Session == [at : Places, todo : SUBSET Commands, look : Commands \cup {Nobody},
            saw : {"none", "empty", "whole"}, hooked : BOOLEAN, known : BOOLEAN,
            torn : BOOLEAN, cut : SUBSET (Places \cup {"kill"})]
Box == [dir : {"none", "there", "gone"}, pid : {"none", "empty", "whole"}, old : BOOLEAN]
Proxy == [state : {"none", "spawned", "loaded", "serving", "dead"},
          port : Ports \cup {Nobody}, store : {"none", "own", "main"},
          reused : BOOLEAN, misjudged : BOOLEAN]

\* The types of the variables.
TypeInv ==
    /\ command \in [Commands -> Session]
    /\ box \in [Commands -> Box]
    /\ proxy \in [Commands -> Proxy]
    /\ hits \in Nat /\ faults \in Nat

Alone  == {"idle"} \cup Sweeping
Making == {"configure", "prepare", "spawn"}
Early  == Alone \cup Making \cup {"assign", "open"}

Runs(p) == p.state \in {"spawned", "loaded", "serving"}

\* What is there of a sandbox by the place its command has come to: until the
\* pid file is opened the directory is young and unnamed, and no sweep takes it.
Placed(s, b, p) ==
    /\ s.at \in Alone => b.dir = "none" /\ p.state = "none" /\ ~s.hooked
    /\ s.at \in Making => p.state = "none" /\ (s.hooked <=> s.at = "spawn")
    /\ s.at \in Early \ Alone => b.dir = "there"
    /\ s.at \in Early => b.pid = "none" /\ ~b.old
    /\ s.at \in {"doubt", "remove"} => s.look \in Commands
    /\ s.at \notin Alone \cup Making \cup {"over"} => s.hooked
    /\ s.torn => s.at \in {"terminate", "await", "rmtree", "over"}

\* A proxy its command does not know of comes from a cut at the assignment; a
\* proxy without its directory comes from that or from a sweep.
Owned(s, b, p) ==
    /\ Runs(p) /\ ~s.known => s.at \in {"assign", "over"} \/ "assign" \in s.cut
    /\ Runs(p) /\ s.at = "rmtree" => "assign" \in s.cut
    /\ p.state = "spawned" /\ b.dir # "there" => p.misjudged \/ "assign" \in s.cut
    /\ p.store = "main" => p.misjudged \/ "assign" \in s.cut

\* NothingLeft for one command.
Left(s, b, p) ==
    s.at = "over" /\ s.cut \cap ({"kill", "configure", "prepare", "assign"} \cup Closing) = {}
        => ~Runs(p) /\ b.dir # "there"

Sound(s, b, p) == Placed(s, b, p) /\ Owned(s, b, p) /\ Left(s, b, p)

\* What the sweep of s knows of the sandbox d, whose parts are t, b and p.
Swept(s, d, t, b, p) ==
    /\ d \in s.todo \/ s.look = d => b.dir # "none"
    /\ s.at = "remove" /\ s.look = d => t.at \notin Early /\ (Runs(p) => p.misjudged)
    /\ s.look = d /\ s.saw = "whole" => t.at \notin Early /\ ~Runs(p)

IInv ==
    /\ TypeInv
    /\ \A c \in Commands : Sound(command[c], box[c], proxy[c])
    /\ \A c, d \in Commands : Swept(command[c], d, command[d], box[d], proxy[d])

-----------------------------------------------------------------------------
LEMMA InitIInv == Init => IInv
  BY SandboxAssumption
  DEF Init, IInv, TypeInv, Session, Box, Proxy, Places, Sound, Placed, Owned, Left, Runs,
      Swept, Alone, Making, Early, Sweeping, Entering, Closing

\* What the invariant says of one command.
LEMMA CommandFacts ==
    ASSUME IInv, NEW c \in Commands
    PROVE  /\ command[c] \in Session /\ box[c] \in Box /\ proxy[c] \in Proxy
           /\ Placed(command[c], box[c], proxy[c])
           /\ Owned(command[c], box[c], proxy[c])
           /\ Left(command[c], box[c], proxy[c])
           /\ c # Nobody
  BY SandboxAssumption DEF IInv, TypeInv, Sound

LEMMA PlaceFacts ==
    /\ {"idle", "sweep", "doubt", "remove", "configure", "prepare", "spawn", "assign", "open",
        "name", "health", "body", "close", "terminate", "await", "rmtree", "over"} \subseteq Places
    /\ "kill" \notin Places
  BY DEF Places, Sweeping, Entering, Closing

\* A step changes only what is c's.
Touch(c) ==
    /\ TypeInv'
    /\ \A d \in Commands \ {c} :
         command'[d] = command[d] /\ box'[d] = box[d] /\ proxy'[d] = proxy[d]

LEMMA TouchBy ==
    ASSUME TypeInv, NEW c \in Commands,
           command'[c] \in Session, box'[c] \in Box, proxy'[c] \in Proxy,
           hits' \in Nat, faults' \in Nat,
           command' = [command EXCEPT ![c] = command'[c]],
           box' = [box EXCEPT ![c] = box'[c]],
           proxy' = [proxy EXCEPT ![c] = proxy'[c]]
    PROVE  Touch(c)
  BY DEF TypeInv, Touch

\* Such a step preserves the invariant when what it leaves is sound, and what
\* the sweeps know of it, and its own sweep of the others, is still so.
LEMMA Change ==
    ASSUME IInv, NEW c \in Commands, Touch(c),
           Sound(command'[c], box'[c], proxy'[c]),
           \A d \in Commands : Swept(command'[c], d, command'[d], box'[d], proxy'[d]),
           \A d \in Commands \ {c} : Swept(command[d], c, command'[c], box'[c], proxy'[c])
    PROVE  IInv'
  <1>1. \A d \in Commands : Sound(command'[d], box'[d], proxy'[d])
    BY DEF IInv, Touch
  <1>2. ASSUME NEW d \in Commands, NEW e \in Commands
        PROVE  Swept(command'[d], e, command'[e], box'[e], proxy'[e])
    <2>1. CASE d = c
      BY <2>1
    <2>2. CASE d # c /\ e = c
      BY <2>2 DEF Touch
    <2>3. CASE d # c /\ e # c
      BY <2>3 DEF IInv, Touch
    <2> QED BY <2>1, <2>2, <2>3
  <1> QED BY <1>1, <1>2 DEF IInv, Touch

\* A step that leaves the sweep of its command as it is, or ends it, and that
\* brings back neither a command, a proxy nor a directory.
Steady(s, t, old, b, was, p) ==
    /\ t.todo \subseteq s.todo /\ t.look \in {s.look, Nobody}
    /\ t.at # "remove" /\ t.saw \in {s.saw, "none"}
    /\ b.dir = "none" => old.dir = "none"
    /\ t.at \in Early => s.at \in Early
    /\ Runs(p) => Runs(was) \/ s.at \in Early
    /\ was.misjudged => p.misjudged

LEMMA Move ==
    ASSUME IInv, NEW c \in Commands, Touch(c),
           Sound(command'[c], box'[c], proxy'[c]),
           Steady(command[c], command'[c], box[c], box'[c], proxy[c], proxy'[c])
    PROVE  IInv'
  <1>1. ASSUME NEW d \in Commands \ {c}
        PROVE  /\ Swept(command'[c], d, command'[d], box'[d], proxy'[d])
               /\ Swept(command[d], c, command'[c], box'[c], proxy'[c])
    <2>1. /\ Swept(command[c], d, command[d], box[d], proxy[d]) /\ d # Nobody
          /\ Swept(command[d], c, command[c], box[c], proxy[c]) /\ c # Nobody
      BY SandboxAssumption DEF IInv
    <2> QED BY <2>1 DEF Swept, Touch, Steady
  <1>2. Swept(command'[c], c, command'[c], box'[c], proxy'[c])
    <2>1. Swept(command[c], c, command[c], box[c], proxy[c]) /\ c # Nobody
      BY SandboxAssumption DEF IInv
    <2> QED BY <2>1 DEF Swept, Steady
  <1> QED BY <1>1, <1>2, Change
-----------------------------------------------------------------------------
(* The steps of one command and its proxy.                                 *)

LEMMA MakeDirKeeps == ASSUME IInv, NEW c \in Commands, MakeDir(c) PROVE IInv'
  <1> TypeInv /\ command[c] \in Session /\ box[c] \in Box /\ proxy[c] \in Proxy
    BY CommandFacts DEF IInv
  <1>1. Touch(c)
    <2>1. command'[c] \in Session /\ command' = [command EXCEPT ![c] = command'[c]]
      BY PlaceFacts DEF MakeDir, Go, TypeInv, Session
    <2>2. box'[c] \in Box /\ box' = [box EXCEPT ![c] = box'[c]]
      BY DEF MakeDir, TypeInv, Box
    <2>3. proxy'[c] \in Proxy /\ proxy' = [proxy EXCEPT ![c] = proxy'[c]]
      BY DEF MakeDir, TypeInv, Proxy
    <2>4. hits' \in Nat /\ faults' \in Nat
      BY DEF MakeDir, TypeInv
    <2> QED BY <2>1, <2>2, <2>3, <2>4, TouchBy
  <1>2. Sound(command'[c], box'[c], proxy'[c])
    BY CommandFacts
    DEF MakeDir, Go, Running, Runs, TypeInv, Session, Box, Proxy, Sound, Placed, Owned,
        Left, Early, Alone, Making, Sweeping, Closing
  <1>3. Steady(command[c], command'[c], box[c], box'[c], proxy[c], proxy'[c])
    BY CommandFacts
    DEF MakeDir, Go, Running, Runs, TypeInv, Session, Box, Proxy, Steady, Placed, Early,
        Alone, Making, Sweeping
  <1> QED BY <1>1, <1>2, <1>3, Move

LEMMA ConfigureKeeps == ASSUME IInv, NEW c \in Commands, Configure(c) PROVE IInv'
  <1> TypeInv /\ command[c] \in Session /\ box[c] \in Box /\ proxy[c] \in Proxy
    BY CommandFacts DEF IInv
  <1>1. Touch(c)
    <2>1. command'[c] \in Session /\ command' = [command EXCEPT ![c] = command'[c]]
      BY PlaceFacts DEF Configure, Go, TypeInv, Session
    <2>2. box'[c] \in Box /\ box' = [box EXCEPT ![c] = box'[c]]
      BY DEF Configure, TypeInv, Box
    <2>3. proxy'[c] \in Proxy /\ proxy' = [proxy EXCEPT ![c] = proxy'[c]]
      BY DEF Configure, FreePorts, TypeInv, Proxy
    <2>4. hits' \in Nat /\ faults' \in Nat
      BY DEF Configure, TypeInv
    <2> QED BY <2>1, <2>2, <2>3, <2>4, TouchBy
  <1>2. Sound(command'[c], box'[c], proxy'[c])
    BY CommandFacts
    DEF Configure, Go, FreePorts, Running, Runs, TypeInv, Session, Box, Proxy, Sound,
        Placed, Owned, Left, Early, Alone, Making, Sweeping, Closing
  <1>3. Steady(command[c], command'[c], box[c], box'[c], proxy[c], proxy'[c])
    BY CommandFacts
    DEF Configure, Go, FreePorts, Running, Runs, TypeInv, Session, Box, Proxy, Steady,
        Placed, Early, Alone, Making, Sweeping
  <1> QED BY <1>1, <1>2, <1>3, Move

LEMMA PrepareKeeps == ASSUME IInv, NEW c \in Commands, Prepare(c) PROVE IInv'
  <1> TypeInv /\ command[c] \in Session /\ box[c] \in Box /\ proxy[c] \in Proxy
    BY CommandFacts DEF IInv
  <1>1. Touch(c)
    <2>1. command'[c] \in Session /\ command' = [command EXCEPT ![c] = command'[c]]
      BY PlaceFacts DEF Prepare, Go, TypeInv, Session
    <2>2. box'[c] \in Box /\ box' = [box EXCEPT ![c] = box'[c]]
      BY DEF Prepare, TypeInv, Box
    <2>3. proxy'[c] \in Proxy /\ proxy' = [proxy EXCEPT ![c] = proxy'[c]]
      BY DEF Prepare, TypeInv, Proxy
    <2>4. hits' \in Nat /\ faults' \in Nat
      BY DEF Prepare, TypeInv
    <2> QED BY <2>1, <2>2, <2>3, <2>4, TouchBy
  <1>2. Sound(command'[c], box'[c], proxy'[c])
    BY CommandFacts
    DEF Prepare, Go, Running, Runs, TypeInv, Session, Box, Proxy, Sound, Placed, Owned,
        Left, Early, Alone, Making, Sweeping, Closing
  <1>3. Steady(command[c], command'[c], box[c], box'[c], proxy[c], proxy'[c])
    BY CommandFacts
    DEF Prepare, Go, Running, Runs, TypeInv, Session, Box, Proxy, Steady, Placed, Early,
        Alone, Making, Sweeping
  <1> QED BY <1>1, <1>2, <1>3, Move

LEMMA SpawnKeeps == ASSUME IInv, NEW c \in Commands, Spawn(c) PROVE IInv'
  <1> TypeInv /\ command[c] \in Session /\ box[c] \in Box /\ proxy[c] \in Proxy
    BY CommandFacts DEF IInv
  <1>1. Touch(c)
    <2>1. command'[c] \in Session /\ command' = [command EXCEPT ![c] = command'[c]]
      BY PlaceFacts DEF Spawn, Go, TypeInv, Session
    <2>2. box'[c] \in Box /\ box' = [box EXCEPT ![c] = box'[c]]
      BY DEF Spawn, TypeInv, Box
    <2>3. proxy'[c] \in Proxy /\ proxy' = [proxy EXCEPT ![c] = proxy'[c]]
      BY DEF Spawn, TypeInv, Proxy
    <2>4. hits' \in Nat /\ faults' \in Nat
      BY DEF Spawn, TypeInv
    <2> QED BY <2>1, <2>2, <2>3, <2>4, TouchBy
  <1>2. Sound(command'[c], box'[c], proxy'[c])
    BY CommandFacts
    DEF Spawn, Go, Running, Runs, TypeInv, Session, Box, Proxy, Sound, Placed, Owned, Left,
        Early, Alone, Making, Sweeping, Closing
  <1>3. Steady(command[c], command'[c], box[c], box'[c], proxy[c], proxy'[c])
    BY CommandFacts
    DEF Spawn, Go, Running, Runs, TypeInv, Session, Box, Proxy, Steady, Placed, Early,
        Alone, Making, Sweeping
  <1> QED BY <1>1, <1>2, <1>3, Move

LEMMA AssignKeeps == ASSUME IInv, NEW c \in Commands, Assign(c) PROVE IInv'
  <1> TypeInv /\ command[c] \in Session /\ box[c] \in Box /\ proxy[c] \in Proxy
    BY CommandFacts DEF IInv
  <1>1. Touch(c)
    <2>1. command'[c] \in Session /\ command' = [command EXCEPT ![c] = command'[c]]
      BY PlaceFacts DEF Assign, Go, TypeInv, Session
    <2>2. box'[c] \in Box /\ box' = [box EXCEPT ![c] = box'[c]]
      BY DEF Assign, TypeInv, Box
    <2>3. proxy'[c] \in Proxy /\ proxy' = [proxy EXCEPT ![c] = proxy'[c]]
      BY DEF Assign, TypeInv, Proxy
    <2>4. hits' \in Nat /\ faults' \in Nat
      BY DEF Assign, TypeInv
    <2> QED BY <2>1, <2>2, <2>3, <2>4, TouchBy
  <1>2. Sound(command'[c], box'[c], proxy'[c])
    BY CommandFacts
    DEF Assign, Go, Running, Runs, TypeInv, Session, Box, Proxy, Sound, Placed, Owned,
        Left, Early, Alone, Making, Sweeping, Closing
  <1>3. Steady(command[c], command'[c], box[c], box'[c], proxy[c], proxy'[c])
    BY CommandFacts
    DEF Assign, Go, Running, Runs, TypeInv, Session, Box, Proxy, Steady, Placed, Early,
        Alone, Making, Sweeping
  <1> QED BY <1>1, <1>2, <1>3, Move

LEMMA OpenPidKeeps == ASSUME IInv, NEW c \in Commands, OpenPid(c) PROVE IInv'
  <1> TypeInv /\ command[c] \in Session /\ box[c] \in Box /\ proxy[c] \in Proxy
    BY CommandFacts DEF IInv
  <1>0. box[c].dir = "there" /\ command[c].at = "open"
    BY CommandFacts DEF OpenPid, Placed, Early, Alone, Sweeping
  <1>1. Touch(c)
    <2>1. command'[c] \in Session /\ command' = [command EXCEPT ![c] = command'[c]]
      BY PlaceFacts DEF OpenPid, Go, TypeInv, Session
    <2>2. box'[c] \in Box /\ box' = [box EXCEPT ![c] = box'[c]]
      BY DEF OpenPid, TypeInv, Box
    <2>3. proxy'[c] \in Proxy /\ proxy' = [proxy EXCEPT ![c] = proxy'[c]]
      BY DEF OpenPid, TypeInv, Proxy
    <2>4. hits' \in Nat /\ faults' \in Nat
      BY DEF OpenPid, TypeInv
    <2> QED BY <2>1, <2>2, <2>3, <2>4, TouchBy
  <1>2. Sound(command'[c], box'[c], proxy'[c])
    BY CommandFacts, <1>0
    DEF OpenPid, Go, Running, Runs, TypeInv, Session, Box, Proxy, Sound, Placed, Owned,
        Left, Early, Alone, Making, Sweeping, Closing
  <1>3. Steady(command[c], command'[c], box[c], box'[c], proxy[c], proxy'[c])
    <2>1. /\ command'[c].at = "name" /\ box'[c].dir = "there"
          /\ command'[c].todo = command[c].todo /\ command'[c].look = command[c].look
          /\ command'[c].saw = command[c].saw /\ proxy'[c] = proxy[c]
      BY <1>0 DEF OpenPid, Go, TypeInv, Session, Box
    <2> QED BY <2>1 DEF Steady, Early, Alone, Making, Sweeping
  <1> QED BY <1>1, <1>2, <1>3, Move

LEMMA NamePidKeeps == ASSUME IInv, NEW c \in Commands, NamePid(c) PROVE IInv'
  <1> TypeInv /\ command[c] \in Session /\ box[c] \in Box /\ proxy[c] \in Proxy
    BY CommandFacts DEF IInv
  <1>1. Touch(c)
    <2>1. command'[c] \in Session /\ command' = [command EXCEPT ![c] = command'[c]]
      BY PlaceFacts DEF NamePid, Go, TypeInv, Session
    <2>2. box'[c] \in Box /\ box' = [box EXCEPT ![c] = box'[c]]
      BY DEF NamePid, TypeInv, Box
    <2>3. proxy'[c] \in Proxy /\ proxy' = [proxy EXCEPT ![c] = proxy'[c]]
      BY DEF NamePid, TypeInv, Proxy
    <2>4. hits' \in Nat /\ faults' \in Nat
      BY DEF NamePid, TypeInv
    <2> QED BY <2>1, <2>2, <2>3, <2>4, TouchBy
  <1>2. Sound(command'[c], box'[c], proxy'[c])
    BY CommandFacts
    DEF NamePid, Go, Running, Runs, TypeInv, Session, Box, Proxy, Sound, Placed, Owned,
        Left, Early, Alone, Making, Sweeping, Closing
  <1>3. Steady(command[c], command'[c], box[c], box'[c], proxy[c], proxy'[c])
    BY CommandFacts
    DEF NamePid, Go, Running, Runs, TypeInv, Session, Box, Proxy, Steady, Placed, Early,
        Alone, Making, Sweeping
  <1> QED BY <1>1, <1>2, <1>3, Move

LEMMA HealthyKeeps == ASSUME IInv, NEW c \in Commands, Healthy(c) PROVE IInv'
  <1> TypeInv /\ command[c] \in Session /\ box[c] \in Box /\ proxy[c] \in Proxy
    BY CommandFacts DEF IInv
  <1>1. Touch(c)
    <2>1. command'[c] \in Session /\ command' = [command EXCEPT ![c] = command'[c]]
      BY PlaceFacts DEF Healthy, Go, TypeInv, Session
    <2>2. box'[c] \in Box /\ box' = [box EXCEPT ![c] = box'[c]]
      BY DEF Healthy, TypeInv, Box
    <2>3. proxy'[c] \in Proxy /\ proxy' = [proxy EXCEPT ![c] = proxy'[c]]
      BY DEF Healthy, TypeInv, Proxy
    <2>4. hits' \in Nat /\ faults' \in Nat
      BY DEF Healthy, TypeInv
    <2> QED BY <2>1, <2>2, <2>3, <2>4, TouchBy
  <1>2. Sound(command'[c], box'[c], proxy'[c])
    BY CommandFacts
    DEF Healthy, Go, Running, Runs, TypeInv, Session, Box, Proxy, Sound, Placed, Owned,
        Left, Early, Alone, Making, Sweeping, Closing
  <1>3. Steady(command[c], command'[c], box[c], box'[c], proxy[c], proxy'[c])
    BY CommandFacts
    DEF Healthy, Go, Running, Runs, TypeInv, Session, Box, Proxy, Steady, Placed, Early,
        Alone, Making, Sweeping
  <1> QED BY <1>1, <1>2, <1>3, Move

LEMMA UnhealthyKeeps == ASSUME IInv, NEW c \in Commands, Unhealthy(c) PROVE IInv'
  <1> TypeInv /\ command[c] \in Session /\ box[c] \in Box /\ proxy[c] \in Proxy
    BY CommandFacts DEF IInv
  <1>1. Touch(c)
    <2>1. command'[c] \in Session /\ command' = [command EXCEPT ![c] = command'[c]]
      BY PlaceFacts DEF Unhealthy, Go, TypeInv, Session
    <2>2. box'[c] \in Box /\ box' = [box EXCEPT ![c] = box'[c]]
      BY DEF Unhealthy, TypeInv, Box
    <2>3. proxy'[c] \in Proxy /\ proxy' = [proxy EXCEPT ![c] = proxy'[c]]
      BY DEF Unhealthy, TypeInv, Proxy
    <2>4. hits' \in Nat /\ faults' \in Nat
      BY DEF Unhealthy, TypeInv
    <2> QED BY <2>1, <2>2, <2>3, <2>4, TouchBy
  <1>2. Sound(command'[c], box'[c], proxy'[c])
    BY CommandFacts
    DEF Unhealthy, Go, Running, Runs, TypeInv, Session, Box, Proxy, Sound, Placed, Owned,
        Left, Early, Alone, Making, Sweeping, Closing
  <1>3. Steady(command[c], command'[c], box[c], box'[c], proxy[c], proxy'[c])
    BY CommandFacts
    DEF Unhealthy, Go, Running, Runs, TypeInv, Session, Box, Proxy, Steady, Placed, Early,
        Alone, Making, Sweeping
  <1> QED BY <1>1, <1>2, <1>3, Move

LEMMA FinishKeeps == ASSUME IInv, NEW c \in Commands, Finish(c) PROVE IInv'
  <1> TypeInv /\ command[c] \in Session /\ box[c] \in Box /\ proxy[c] \in Proxy
    BY CommandFacts DEF IInv
  <1>1. Touch(c)
    <2>1. command'[c] \in Session /\ command' = [command EXCEPT ![c] = command'[c]]
      BY PlaceFacts DEF Finish, Go, TypeInv, Session
    <2>2. box'[c] \in Box /\ box' = [box EXCEPT ![c] = box'[c]]
      BY DEF Finish, TypeInv, Box
    <2>3. proxy'[c] \in Proxy /\ proxy' = [proxy EXCEPT ![c] = proxy'[c]]
      BY DEF Finish, TypeInv, Proxy
    <2>4. hits' \in Nat /\ faults' \in Nat
      BY DEF Finish, TypeInv
    <2> QED BY <2>1, <2>2, <2>3, <2>4, TouchBy
  <1>2. Sound(command'[c], box'[c], proxy'[c])
    BY CommandFacts
    DEF Finish, Go, Running, Runs, TypeInv, Session, Box, Proxy, Sound, Placed, Owned,
        Left, Early, Alone, Making, Sweeping, Closing
  <1>3. Steady(command[c], command'[c], box[c], box'[c], proxy[c], proxy'[c])
    BY CommandFacts
    DEF Finish, Go, Running, Runs, TypeInv, Session, Box, Proxy, Steady, Placed, Early,
        Alone, Making, Sweeping
  <1> QED BY <1>1, <1>2, <1>3, Move

LEMMA CloseKeeps == ASSUME IInv, NEW c \in Commands, Close(c) PROVE IInv'
  <1> TypeInv /\ command[c] \in Session /\ box[c] \in Box /\ proxy[c] \in Proxy
    BY CommandFacts DEF IInv
  <1>1. Touch(c)
    <2>1. command'[c] \in Session /\ command' = [command EXCEPT ![c] = command'[c]]
      BY PlaceFacts DEF Close, Go, TypeInv, Session
    <2>2. box'[c] \in Box /\ box' = [box EXCEPT ![c] = box'[c]]
      BY DEF Close, TypeInv, Box
    <2>3. proxy'[c] \in Proxy /\ proxy' = [proxy EXCEPT ![c] = proxy'[c]]
      BY DEF Close, TypeInv, Proxy
    <2>4. hits' \in Nat /\ faults' \in Nat
      BY DEF Close, TypeInv
    <2> QED BY <2>1, <2>2, <2>3, <2>4, TouchBy
  <1>2. Sound(command'[c], box'[c], proxy'[c])
    BY CommandFacts
    DEF Close, Go, Running, Runs, TypeInv, Session, Box, Proxy, Sound, Placed, Owned, Left,
        Early, Alone, Making, Sweeping, Closing
  <1>3. Steady(command[c], command'[c], box[c], box'[c], proxy[c], proxy'[c])
    BY CommandFacts
    DEF Close, Go, Running, Runs, TypeInv, Session, Box, Proxy, Steady, Placed, Early,
        Alone, Making, Sweeping
  <1> QED BY <1>1, <1>2, <1>3, Move

LEMMA TerminateKeeps == ASSUME IInv, NEW c \in Commands, Terminate(c) PROVE IInv'
  <1> TypeInv /\ command[c] \in Session /\ box[c] \in Box /\ proxy[c] \in Proxy
    BY CommandFacts DEF IInv
  <1>1. Touch(c)
    <2>1. command'[c] \in Session /\ command' = [command EXCEPT ![c] = command'[c]]
      BY PlaceFacts DEF Terminate, Go, TypeInv, Session
    <2>2. box'[c] \in Box /\ box' = [box EXCEPT ![c] = box'[c]]
      BY DEF Terminate, TypeInv, Box
    <2>3. proxy'[c] \in Proxy /\ proxy' = [proxy EXCEPT ![c] = proxy'[c]]
      BY DEF Terminate, TypeInv, Proxy
    <2>4. hits' \in Nat /\ faults' \in Nat
      BY DEF Terminate, TypeInv
    <2> QED BY <2>1, <2>2, <2>3, <2>4, TouchBy
  <1>2. Sound(command'[c], box'[c], proxy'[c])
    BY CommandFacts
    DEF Terminate, Go, Running, Runs, TypeInv, Session, Box, Proxy, Sound, Placed, Owned,
        Left, Early, Alone, Making, Sweeping, Closing
  <1>3. Steady(command[c], command'[c], box[c], box'[c], proxy[c], proxy'[c])
    BY CommandFacts
    DEF Terminate, Go, Running, Runs, TypeInv, Session, Box, Proxy, Steady, Placed, Early,
        Alone, Making, Sweeping
  <1> QED BY <1>1, <1>2, <1>3, Move

LEMMA AwaitKeeps == ASSUME IInv, NEW c \in Commands, Await(c) PROVE IInv'
  <1> TypeInv /\ command[c] \in Session /\ box[c] \in Box /\ proxy[c] \in Proxy
    BY CommandFacts DEF IInv
  <1>1. Touch(c)
    <2>1. command'[c] \in Session /\ command' = [command EXCEPT ![c] = command'[c]]
      BY PlaceFacts DEF Await, Go, TypeInv, Session
    <2>2. box'[c] \in Box /\ box' = [box EXCEPT ![c] = box'[c]]
      BY DEF Await, TypeInv, Box
    <2>3. proxy'[c] \in Proxy /\ proxy' = [proxy EXCEPT ![c] = proxy'[c]]
      BY DEF Await, TypeInv, Proxy
    <2>4. hits' \in Nat /\ faults' \in Nat
      BY DEF Await, TypeInv
    <2> QED BY <2>1, <2>2, <2>3, <2>4, TouchBy
  <1>2. Sound(command'[c], box'[c], proxy'[c])
    BY CommandFacts
    DEF Await, Go, Running, Runs, TypeInv, Session, Box, Proxy, Sound, Placed, Owned, Left,
        Early, Alone, Making, Sweeping, Closing
  <1>3. Steady(command[c], command'[c], box[c], box'[c], proxy[c], proxy'[c])
    BY CommandFacts
    DEF Await, Go, Running, Runs, TypeInv, Session, Box, Proxy, Steady, Placed, Early,
        Alone, Making, Sweeping
  <1> QED BY <1>1, <1>2, <1>3, Move

LEMMA RmtreeKeeps == ASSUME IInv, NEW c \in Commands, Rmtree(c) PROVE IInv'
  <1> TypeInv /\ command[c] \in Session /\ box[c] \in Box /\ proxy[c] \in Proxy
    BY CommandFacts DEF IInv
  <1>1. Touch(c)
    <2>1. command'[c] \in Session /\ command' = [command EXCEPT ![c] = command'[c]]
      BY PlaceFacts DEF Rmtree, Go, TypeInv, Session
    <2>2. box'[c] \in Box /\ box' = [box EXCEPT ![c] = box'[c]]
      BY DEF Rmtree, TypeInv, Box
    <2>3. proxy'[c] \in Proxy /\ proxy' = [proxy EXCEPT ![c] = proxy'[c]]
      BY DEF Rmtree, TypeInv, Proxy
    <2>4. hits' \in Nat /\ faults' \in Nat
      BY DEF Rmtree, TypeInv
    <2> QED BY <2>1, <2>2, <2>3, <2>4, TouchBy
  <1>2. Sound(command'[c], box'[c], proxy'[c])
    BY CommandFacts
    DEF Rmtree, Go, Running, Runs, TypeInv, Session, Box, Proxy, Sound, Placed, Owned,
        Left, Early, Alone, Making, Sweeping, Closing
  <1>3. Steady(command[c], command'[c], box[c], box'[c], proxy[c], proxy'[c])
    BY CommandFacts
    DEF Rmtree, Go, Running, Runs, TypeInv, Session, Box, Proxy, Steady, Placed, Early,
        Alone, Making, Sweeping
  <1> QED BY <1>1, <1>2, <1>3, Move

LEMMA RaiseKeeps == ASSUME IInv, NEW c \in Commands, Raise(c) PROVE IInv'
  <1> TypeInv /\ command[c] \in Session /\ box[c] \in Box /\ proxy[c] \in Proxy
    BY CommandFacts DEF IInv
  <1>1. Touch(c)
    <2>1. command'[c] \in Session /\ command' = [command EXCEPT ![c] = command'[c]]
      BY PlaceFacts DEF Raise, Go, TypeInv, Session
    <2>2. box'[c] \in Box /\ box' = [box EXCEPT ![c] = box'[c]]
      BY DEF Raise, TypeInv, Box
    <2>3. proxy'[c] \in Proxy /\ proxy' = [proxy EXCEPT ![c] = proxy'[c]]
      BY DEF Raise, TypeInv, Proxy
    <2>4. hits' \in Nat /\ faults' \in Nat
      BY DEF Raise, TypeInv
    <2> QED BY <2>1, <2>2, <2>3, <2>4, TouchBy
  <1>2. Sound(command'[c], box'[c], proxy'[c])
    <2>1. command[c].at \in Making /\ command[c].at \in command'[c].cut
          /\ command[c].cut \subseteq command'[c].cut
          /\ command'[c].at = IF command[c].hooked THEN "close" ELSE "over"
      BY DEF Raise, TypeInv, Session, Making
    <2>2. /\ command'[c].hooked = command[c].hooked /\ command'[c].known = command[c].known
          /\ command'[c].torn = command[c].torn
          /\ proxy'[c] = proxy[c] /\ box'[c].dir = box[c].dir /\ box'[c].old = box[c].old
      BY DEF Raise, TypeInv, Session, Box
    <2>3. Placed(command'[c], box'[c], proxy'[c])
      BY <2>1, <2>2, CommandFacts DEF Placed, Early, Alone, Making, Sweeping
    <2>4. Owned(command'[c], box'[c], proxy'[c])
      BY <2>1, <2>2, CommandFacts DEF Owned, Placed, Early, Alone, Making, Sweeping
    <2>5. Left(command'[c], box'[c], proxy'[c])
      BY <2>1, <2>2, CommandFacts
      DEF Left, Placed, Places, Entering, Early, Alone, Making, Sweeping, Closing, Runs
    <2> QED BY <2>3, <2>4, <2>5 DEF Sound
  <1>3. Steady(command[c], command'[c], box[c], box'[c], proxy[c], proxy'[c])
    BY CommandFacts
    DEF Raise, Go, Running, Runs, TypeInv, Session, Box, Proxy, Steady, Placed, Early,
        Alone, Making, Sweeping
  <1> QED BY <1>1, <1>2, <1>3, Move

LEMMA SignalKeeps == ASSUME IInv, NEW c \in Commands, Signal(c) PROVE IInv'
  <1> TypeInv /\ command[c] \in Session /\ box[c] \in Box /\ proxy[c] \in Proxy
    BY CommandFacts DEF IInv
  <1>1. Touch(c)
    <2>1. command'[c] \in Session /\ command' = [command EXCEPT ![c] = command'[c]]
      <3>1. command'[c] \in Session
        BY PlaceFacts DEF Signal, TypeInv, Session
      <3> QED BY <3>1 DEF Signal, TypeInv
    <2>2. box'[c] \in Box /\ box' = [box EXCEPT ![c] = box'[c]]
      BY DEF Signal, TypeInv, Box
    <2>3. proxy'[c] \in Proxy /\ proxy' = [proxy EXCEPT ![c] = proxy'[c]]
      BY DEF Signal, TypeInv, Proxy
    <2>4. hits' \in Nat /\ faults' \in Nat
      BY DEF Signal, TypeInv
    <2> QED BY <2>1, <2>2, <2>3, <2>4, TouchBy
  <1>2. Sound(command'[c], box'[c], proxy'[c])
    <2>1. command[c].at \in Places \ {"idle", "over"} /\ command[c].at \in command'[c].cut
          /\ command[c].cut \subseteq command'[c].cut
          /\ command'[c].at = IF command[c].hooked /\ ~command[c].torn THEN "close" ELSE "over"
      BY DEF Signal, TypeInv, Session
    <2>2. /\ command'[c].hooked = command[c].hooked /\ command'[c].known = command[c].known
          /\ command'[c].torn = command[c].torn
          /\ proxy'[c] = proxy[c] /\ box'[c].dir = box[c].dir /\ box'[c].old = box[c].old
      BY DEF Signal, TypeInv, Session, Box
    <2>3. Placed(command'[c], box'[c], proxy'[c])
      BY <2>1, <2>2, CommandFacts DEF Placed, Early, Alone, Making, Sweeping
    <2>4. Owned(command'[c], box'[c], proxy'[c])
      BY <2>1, <2>2, CommandFacts DEF Owned, Placed, Early, Alone, Making, Sweeping
    <2>5. Left(command'[c], box'[c], proxy'[c])
      BY <2>1, <2>2, CommandFacts
      DEF Left, Placed, Places, Entering, Early, Alone, Making, Sweeping, Closing, Runs
    <2> QED BY <2>3, <2>4, <2>5 DEF Sound
  <1>3. Steady(command[c], command'[c], box[c], box'[c], proxy[c], proxy'[c])
    BY CommandFacts
    DEF Signal, Go, Running, Runs, TypeInv, Session, Box, Proxy, Steady, Placed, Early,
        Alone, Making, Sweeping
  <1> QED BY <1>1, <1>2, <1>3, Move

LEMMA KillKeeps == ASSUME IInv, NEW c \in Commands, Kill(c) PROVE IInv'
  <1> TypeInv /\ command[c] \in Session /\ box[c] \in Box /\ proxy[c] \in Proxy
    BY CommandFacts DEF IInv
  <1>1. Touch(c)
    <2>1. command'[c] \in Session /\ command' = [command EXCEPT ![c] = command'[c]]
      <3>1. command'[c] \in Session
        BY PlaceFacts DEF Kill, TypeInv, Session
      <3> QED BY <3>1 DEF Kill, TypeInv
    <2>2. box'[c] \in Box /\ box' = [box EXCEPT ![c] = box'[c]]
      BY DEF Kill, TypeInv, Box
    <2>3. proxy'[c] \in Proxy /\ proxy' = [proxy EXCEPT ![c] = proxy'[c]]
      BY DEF Kill, TypeInv, Proxy
    <2>4. hits' \in Nat /\ faults' \in Nat
      BY DEF Kill, TypeInv
    <2> QED BY <2>1, <2>2, <2>3, <2>4, TouchBy
  <1>2. Sound(command'[c], box'[c], proxy'[c])
    <2>1. /\ command'[c].at = "over" /\ "kill" \in command'[c].cut
          /\ command[c].cut \subseteq command'[c].cut
          /\ proxy'[c] = proxy[c] /\ box'[c] = box[c]
      BY DEF Kill, TypeInv, Session
    <2> QED BY <2>1, CommandFacts
            DEF Sound, Placed, Owned, Left, Runs, Early, Alone, Making, Sweeping
  <1>3. Steady(command[c], command'[c], box[c], box'[c], proxy[c], proxy'[c])
    BY CommandFacts
    DEF Kill, Go, Running, Runs, TypeInv, Session, Box, Proxy, Steady, Placed, Early,
        Alone, Making, Sweeping
  <1> QED BY <1>1, <1>2, <1>3, Move

LEMMA LoadKeeps == ASSUME IInv, NEW c \in Commands, Load(c) PROVE IInv'
  <1> TypeInv /\ command[c] \in Session /\ box[c] \in Box /\ proxy[c] \in Proxy
    BY CommandFacts DEF IInv
  <1>1. Touch(c)
    <2>1. command'[c] \in Session /\ command' = [command EXCEPT ![c] = command'[c]]
      BY PlaceFacts DEF Load, Go, TypeInv, Session
    <2>2. box'[c] \in Box /\ box' = [box EXCEPT ![c] = box'[c]]
      BY DEF Load, TypeInv, Box
    <2>3. proxy'[c] \in Proxy /\ proxy' = [proxy EXCEPT ![c] = proxy'[c]]
      BY DEF Load, StoreOf, TypeInv, Proxy
    <2>4. hits' \in Nat /\ faults' \in Nat
      BY DEF Load, TypeInv
    <2> QED BY <2>1, <2>2, <2>3, <2>4, TouchBy
  <1>2. Sound(command'[c], box'[c], proxy'[c])
    BY CommandFacts
    DEF Load, Go, StoreOf, Running, Runs, TypeInv, Session, Box, Proxy, Sound, Placed,
        Owned, Left, Early, Alone, Making, Sweeping, Closing
  <1>3. Steady(command[c], command'[c], box[c], box'[c], proxy[c], proxy'[c])
    BY CommandFacts
    DEF Load, Go, StoreOf, Running, Runs, TypeInv, Session, Box, Proxy, Steady, Placed,
        Early, Alone, Making, Sweeping
  <1> QED BY <1>1, <1>2, <1>3, Move

LEMMA BindKeeps == ASSUME IInv, NEW c \in Commands, Bind(c) PROVE IInv'
  <1> TypeInv /\ command[c] \in Session /\ box[c] \in Box /\ proxy[c] \in Proxy
    BY CommandFacts DEF IInv
  <1>1. Touch(c)
    <2>1. command'[c] \in Session /\ command' = [command EXCEPT ![c] = command'[c]]
      BY PlaceFacts DEF Bind, Go, TypeInv, Session
    <2>2. box'[c] \in Box /\ box' = [box EXCEPT ![c] = box'[c]]
      BY DEF Bind, TypeInv, Box
    <2>3. proxy'[c] \in Proxy /\ proxy' = [proxy EXCEPT ![c] = proxy'[c]]
      BY DEF Bind, TypeInv, Proxy
    <2>4. hits' \in Nat /\ faults' \in Nat
      BY DEF Bind, TypeInv
    <2> QED BY <2>1, <2>2, <2>3, <2>4, TouchBy
  <1>2. Sound(command'[c], box'[c], proxy'[c])
    BY CommandFacts
    DEF Bind, Go, Running, Runs, TypeInv, Session, Box, Proxy, Sound, Placed, Owned, Left,
        Early, Alone, Making, Sweeping, Closing
  <1>3. Steady(command[c], command'[c], box[c], box'[c], proxy[c], proxy'[c])
    BY CommandFacts
    DEF Bind, Go, Running, Runs, TypeInv, Session, Box, Proxy, Steady, Placed, Early,
        Alone, Making, Sweeping
  <1> QED BY <1>1, <1>2, <1>3, Move

LEMMA DieKeeps == ASSUME IInv, NEW c \in Commands, Die(c) PROVE IInv'
  <1> TypeInv /\ command[c] \in Session /\ box[c] \in Box /\ proxy[c] \in Proxy
    BY CommandFacts DEF IInv
  <1>1. Touch(c)
    <2>1. command'[c] \in Session /\ command' = [command EXCEPT ![c] = command'[c]]
      BY PlaceFacts DEF Die, Go, TypeInv, Session
    <2>2. box'[c] \in Box /\ box' = [box EXCEPT ![c] = box'[c]]
      BY DEF Die, TypeInv, Box
    <2>3. proxy'[c] \in Proxy /\ proxy' = [proxy EXCEPT ![c] = proxy'[c]]
      BY DEF Die, TypeInv, Proxy
    <2>4. hits' \in Nat /\ faults' \in Nat
      BY DEF Die, TypeInv
    <2> QED BY <2>1, <2>2, <2>3, <2>4, TouchBy
  <1>2. Sound(command'[c], box'[c], proxy'[c])
    BY CommandFacts
    DEF Die, Go, Running, Runs, TypeInv, Session, Box, Proxy, Sound, Placed, Owned, Left,
        Early, Alone, Making, Sweeping, Closing
  <1>3. Steady(command[c], command'[c], box[c], box'[c], proxy[c], proxy'[c])
    BY CommandFacts
    DEF Die, Go, Running, Runs, TypeInv, Session, Box, Proxy, Steady, Placed, Early, Alone,
        Making, Sweeping
  <1> QED BY <1>1, <1>2, <1>3, Move

LEMMA ReuseKeeps == ASSUME IInv, NEW c \in Commands, Reuse(c) PROVE IInv'
  <1> TypeInv /\ command[c] \in Session /\ box[c] \in Box /\ proxy[c] \in Proxy
    BY CommandFacts DEF IInv
  <1>1. Touch(c)
    <2>1. command'[c] \in Session /\ command' = [command EXCEPT ![c] = command'[c]]
      BY PlaceFacts DEF Reuse, Go, TypeInv, Session
    <2>2. box'[c] \in Box /\ box' = [box EXCEPT ![c] = box'[c]]
      BY DEF Reuse, TypeInv, Box
    <2>3. proxy'[c] \in Proxy /\ proxy' = [proxy EXCEPT ![c] = proxy'[c]]
      BY DEF Reuse, TypeInv, Proxy
    <2>4. hits' \in Nat /\ faults' \in Nat
      BY DEF Reuse, TypeInv
    <2> QED BY <2>1, <2>2, <2>3, <2>4, TouchBy
  <1>2. Sound(command'[c], box'[c], proxy'[c])
    BY CommandFacts
    DEF Reuse, Go, Running, Runs, TypeInv, Session, Box, Proxy, Sound, Placed, Owned, Left,
        Early, Alone, Making, Sweeping, Closing
  <1>3. Steady(command[c], command'[c], box[c], box'[c], proxy[c], proxy'[c])
    BY CommandFacts
    DEF Reuse, Go, Running, Runs, TypeInv, Session, Box, Proxy, Steady, Placed, Early,
        Alone, Making, Sweeping
  <1> QED BY <1>1, <1>2, <1>3, Move

LEMMA AgeKeeps == ASSUME IInv, NEW c \in Commands, Age(c) PROVE IInv'
  <1> TypeInv /\ command[c] \in Session /\ box[c] \in Box /\ proxy[c] \in Proxy
    BY CommandFacts DEF IInv
  <1>1. Touch(c)
    <2>1. command'[c] \in Session /\ command' = [command EXCEPT ![c] = command'[c]]
      BY PlaceFacts DEF Age, Go, TypeInv, Session
    <2>2. box'[c] \in Box /\ box' = [box EXCEPT ![c] = box'[c]]
      BY DEF Age, TypeInv, Box
    <2>3. proxy'[c] \in Proxy /\ proxy' = [proxy EXCEPT ![c] = proxy'[c]]
      BY DEF Age, TypeInv, Proxy
    <2>4. hits' \in Nat /\ faults' \in Nat
      BY DEF Age, TypeInv
    <2> QED BY <2>1, <2>2, <2>3, <2>4, TouchBy
  <1>2. Sound(command'[c], box'[c], proxy'[c])
    BY CommandFacts
    DEF Age, Go, Running, Runs, TypeInv, Session, Box, Proxy, Sound, Placed, Owned, Left,
        Early, Alone, Making, Sweeping, Closing
  <1>3. Steady(command[c], command'[c], box[c], box'[c], proxy[c], proxy'[c])
    BY CommandFacts
    DEF Age, Go, Running, Runs, TypeInv, Session, Box, Proxy, Steady, Placed, Early, Alone,
        Making, Sweeping
  <1> QED BY <1>1, <1>2, <1>3, Move
-----------------------------------------------------------------------------
(* The sweep.                                                              *)

LEMMA StartKeeps == ASSUME IInv, NEW c \in Commands, Start(c) PROVE IInv'
  <1> TypeInv /\ command[c] \in Session /\ box[c] \in Box /\ proxy[c] \in Proxy
    BY CommandFacts DEF IInv
  <1>1. Touch(c)
    <2>1. command'[c] \in Session /\ command' = [command EXCEPT ![c] = command'[c]]
      BY PlaceFacts DEF Start, TypeInv, Session
    <2> QED BY <2>1, TouchBy DEF Start, TypeInv
  <1>2. Sound(command'[c], box'[c], proxy'[c])
    BY CommandFacts DEF Start, Running, Runs, TypeInv, Session, Sound, Placed, Owned, Left,
       Early, Alone, Making, Sweeping
  <1>3. ASSUME NEW d \in Commands
        PROVE  Swept(command'[c], d, command'[d], box'[d], proxy'[d])
    <2>1. Swept(command[c], d, command[d], box[d], proxy[d])
      BY DEF IInv
    <2>2. /\ command'[c].at = "sweep" /\ command'[c].look = command[c].look
          /\ command'[c].saw = command[c].saw
          /\ command'[c].todo = {e \in Commands : box[e].dir = "there"}
      BY DEF Start, TypeInv, Session
    <2>3. /\ box'[d] = box[d] /\ proxy'[d] = proxy[d]
          /\ command[d].at \notin Early => command'[d] = command[d]
      BY <1>1 DEF Start, Touch, Early, Alone
    <2> QED BY <2>1, <2>2, <2>3 DEF Swept
  <1>4. ASSUME NEW d \in Commands \ {c}
        PROVE  Swept(command[d], c, command'[c], box'[c], proxy'[c])
    <2>1. Swept(command[d], c, command[c], box[c], proxy[c])
      BY DEF IInv
    <2> QED BY <2>1 DEF Start, Swept, TypeInv, Early, Alone, Sweeping
  <1> QED BY <1>1, <1>2, <1>3, <1>4, Change

LEMMA LookKeeps == ASSUME IInv, NEW c \in Commands, Look(c) PROVE IInv'
  <1> TypeInv /\ command[c] \in Session /\ box[c] \in Box /\ proxy[c] \in Proxy
    BY CommandFacts DEF IInv
  <1> PICK x \in command[c].todo :
         command' = [command EXCEPT ![c] =
           IF box[x].dir = "there" /\ ~Alive(x)
           THEN [command[c] EXCEPT !.at = "doubt", !.look = x, !.saw = box[x].pid]
           ELSE [command[c] EXCEPT !.todo = @ \ {x}]]
    BY DEF Look
  <1> x \in Commands /\ box[x] \in Box /\ command[c].at = "sweep"
    BY DEF Session, TypeInv, Look
  <1>1. Touch(c)
    <2>1. command'[c] \in Session
      <3>1. [command[c] EXCEPT !.at = "doubt", !.look = x, !.saw = box[x].pid] \in Session
        BY PlaceFacts DEF Session, Box
      <3>2. [command[c] EXCEPT !.todo = @ \ {x}] \in Session
        BY DEF Session
      <3> QED BY <3>1, <3>2 DEF TypeInv
    <2>2. command' = [command EXCEPT ![c] = command'[c]]
      BY DEF TypeInv
    <2> QED BY <2>1, <2>2, TouchBy DEF Look, TypeInv
  <1>2. Sound(command'[c], box'[c], proxy'[c])
    BY CommandFacts DEF Look, Running, Runs, TypeInv, Session, Sound, Placed, Owned, Left,
       Early, Alone, Making, Sweeping
  <1>3. ASSUME NEW d \in Commands
        PROVE  Swept(command'[c], d, command'[d], box'[d], proxy'[d])
    <2>1. Swept(command[c], d, command[d], box[d], proxy[d])
          /\ Swept(command[c], x, command[x], box[x], proxy[x])
          /\ Placed(command[d], box[d], proxy[d]) /\ d # Nobody
      BY CommandFacts DEF IInv
    <2>2. box'[d] = box[d] /\ proxy'[d] = proxy[d]
          /\ (command'[d].at \in Early <=> command[d].at \in Early)
      BY <1>1 DEF Look, Touch, TypeInv, Session, Early, Alone, Sweeping
    <2>3. CASE box[x].dir = "there" /\ ~Alive(x)
      <3>1. /\ command'[c].at = "doubt" /\ command'[c].look = x /\ command'[c].saw = box[x].pid
            /\ command'[c].todo = command[c].todo
        BY <2>3 DEF TypeInv, Session
      <3>2. box[x].pid = "whole" => ~Runs(proxy[x])
        BY <2>3 DEF Alive, Running, Runs
      <3> QED BY <2>1, <2>2, <2>3, <3>1, <3>2 DEF Swept, Placed
    <2>4. CASE ~(box[x].dir = "there" /\ ~Alive(x))
      <3>1. /\ command'[c].at = "sweep" /\ command'[c].look = command[c].look
            /\ command'[c].saw = command[c].saw /\ command'[c].todo \subseteq command[c].todo
        <4>1. command'[c] = [command[c] EXCEPT !.todo = command[c].todo \ {x}]
          BY <2>4 DEF TypeInv
        <4>2. command'[c].todo = command[c].todo \ {x}
          BY <4>1 DEF Session
        <4>3. command'[c].at = command[c].at /\ command'[c].look = command[c].look
              /\ command'[c].saw = command[c].saw
          BY <4>1 DEF Session
        <4> QED BY <4>2, <4>3
      <3> QED BY <2>1, <2>2, <3>1 DEF Swept
    <2> QED BY <2>3, <2>4
  <1>4. ASSUME NEW d \in Commands \ {c}
        PROVE  Swept(command[d], c, command'[c], box'[c], proxy'[c])
    <2>1. Swept(command[d], c, command[c], box[c], proxy[c])
      BY DEF IInv
    <2> QED BY <2>1 DEF Look, Swept, TypeInv, Session, Early, Alone, Sweeping
  <1> QED BY <1>1, <1>2, <1>3, <1>4, Change

LEMMA DoubtKeeps == ASSUME IInv, NEW c \in Commands, Doubt(c) PROVE IInv'
  <1> TypeInv /\ command[c] \in Session
    BY DEF IInv, TypeInv
  <1> DEFINE x == command[c].look
  <1>0. x \in Commands /\ box[x] \in Box /\ proxy[x] \in Proxy /\ command[c].at = "doubt"
        /\ box' = box /\ hits' = hits /\ faults' = faults
    BY CommandFacts DEF Doubt, Placed, TypeInv
  <1>1. CASE box[x].dir = "there" /\ box[x].pid = "none" /\ ~box[x].old
    <2>1. command' = [command EXCEPT ![c] =
                 [command[c] EXCEPT !.at = "sweep", !.todo = @ \ {x}, !.look = Nobody]]
          /\ proxy' = proxy
      BY <1>1 DEF Doubt
    <2>2. /\ command'[c].at = "sweep" /\ command'[c].look = Nobody
          /\ command'[c].saw = command[c].saw /\ command'[c].todo \subseteq command[c].todo
          /\ command'[c].hooked = command[c].hooked /\ command'[c].known = command[c].known
          /\ command'[c].torn = command[c].torn /\ command'[c].cut = command[c].cut
      BY <2>1 DEF TypeInv, Session
    <2>3. Touch(c)
      <3>1. command'[c] \in Session
        BY <2>1, PlaceFacts DEF TypeInv, Session
      <3> QED BY <2>1, <3>1, <1>0, CommandFacts DEF TypeInv, Touch
    <2>4. Sound(command'[c], box'[c], proxy'[c])
      BY <2>1, <2>2, <1>0, CommandFacts
      DEF Sound, Placed, Owned, Left, Early, Alone, Making, Sweeping
    <2>5. Steady(command[c], command'[c], box[c], box'[c], proxy[c], proxy'[c])
      BY <2>1, <2>2, <1>0 DEF Steady, Early, Alone, Sweeping
    <2> QED BY <2>3, <2>4, <2>5, Move
  <1>2. CASE ~(box[x].dir = "there" /\ box[x].pid = "none" /\ ~box[x].old)
    <2>1. /\ command' = [command EXCEPT ![c].at = "remove"]
          /\ proxy' = [proxy EXCEPT ![x].misjudged = @ \/ Running(x)]
      BY <1>2 DEF Doubt, Go
    <2>2. /\ command'[c].at = "remove"
          /\ command'[c].look = command[c].look /\ command'[c].todo = command[c].todo
          /\ command'[c].saw = command[c].saw
          /\ command'[c].hooked = command[c].hooked /\ command'[c].known = command[c].known
          /\ command'[c].torn = command[c].torn /\ command'[c].cut = command[c].cut
      BY <2>1 DEF TypeInv, Session
    <2>3. TypeInv'
      <3>1. command'[c] \in Session
        BY <2>1, PlaceFacts DEF TypeInv, Session
      <3>2. command' \in [Commands -> Session]
        BY <2>1, <3>1 DEF TypeInv
      <3>3. proxy' \in [Commands -> Proxy]
        BY <2>1, <1>0 DEF TypeInv, Proxy, Running
      <3> QED BY <3>2, <3>3, <1>0 DEF TypeInv
    <2>4. \A d \in Commands :
            /\ command'[d].at \in Early <=> command[d].at \in Early
            /\ d # c => command'[d] = command[d]
            /\ proxy'[d].state = proxy[d].state /\ proxy'[d].store = proxy[d].store
            /\ proxy[d].misjudged => proxy'[d].misjudged
      BY <2>1, <1>0, CommandFacts DEF TypeInv, Session, Proxy, Early, Alone, Sweeping
    <2>5. ASSUME NEW d \in Commands
          PROVE  Sound(command'[d], box'[d], proxy'[d])
      <3>1. Placed(command'[d], box'[d], proxy'[d])
        BY <2>2, <2>4, <1>0, CommandFacts DEF Placed, Early, Alone, Making, Sweeping
      <3>2. Owned(command'[d], box'[d], proxy'[d])
        BY <2>2, <2>4, <1>0, CommandFacts DEF Owned, Runs
      <3>3. Left(command'[d], box'[d], proxy'[d])
        BY <2>2, <2>4, <1>0, CommandFacts DEF Left, Runs
      <3> QED BY <3>1, <3>2, <3>3 DEF Sound
    <2>6. x # Nobody /\ command[x].at \notin Early /\ (Runs(proxy[x]) => proxy'[x].misjudged)
      <3>1. Swept(command[c], x, command[x], box[x], proxy[x]) /\ Placed(command[x], box[x], proxy[x])
        BY <1>0 DEF IInv, Sound
      <3>2. proxy'[x].misjudged = (proxy[x].misjudged \/ Running(x))
        BY <2>1, <1>0 DEF TypeInv, Proxy
      <3> QED BY <3>1, <3>2, <1>0, <1>2, CommandFacts
      DEF Swept, Placed, Running, Runs, Early
    <2>7. ASSUME NEW d \in Commands, NEW e \in Commands
          PROVE  Swept(command'[d], e, command'[e], box'[e], proxy'[e])
      <3>1. Swept(command[d], e, command[e], box[e], proxy[e])
        BY DEF IInv
      <3>2. CASE d = c
        BY <3>1, <3>2, <2>2, <2>4, <2>6, <1>0 DEF Swept, Runs
      <3>3. CASE d # c
        BY <3>1, <3>3, <2>4, <1>0 DEF Swept, Runs
      <3> QED BY <3>2, <3>3
    <2> QED BY <2>3, <2>5, <2>7 DEF IInv
  <1> QED BY <1>1, <1>2

LEMMA RemoveKeeps == ASSUME IInv, NEW c \in Commands, Remove(c) PROVE IInv'
  <1> TypeInv /\ command[c] \in Session
    BY DEF IInv, TypeInv
  <1> DEFINE x == command[c].look
  <1>0. /\ x \in Commands /\ x # Nobody /\ box[x] \in Box /\ command[c].at = "remove"
        /\ proxy' = proxy /\ hits' = hits /\ faults' = faults
        /\ command' = [command EXCEPT ![c] =
             [command[c] EXCEPT !.at = "sweep", !.todo = @ \ {x}, !.look = Nobody]]
        /\ box' = [box EXCEPT ![x].dir = "gone"]
    BY CommandFacts DEF Remove, Placed, TypeInv
  <1>1. command[x].at \notin Early /\ (Runs(proxy[x]) => proxy[x].misjudged) /\ x # c
    <2>1. Swept(command[c], x, command[x], box[x], proxy[x])
      BY <1>0 DEF IInv
    <2> QED BY <2>1, <1>0 DEF Swept, Early, Alone, Sweeping
  <1>2. /\ command'[c].at = "sweep" /\ command'[c].look = Nobody
        /\ command'[c].saw = command[c].saw /\ command'[c].todo \subseteq command[c].todo
        /\ command'[c].hooked = command[c].hooked /\ command'[c].known = command[c].known
        /\ command'[c].torn = command[c].torn /\ command'[c].cut = command[c].cut
    BY <1>0 DEF TypeInv, Session
  <1>3. TypeInv'
    <2>1. command'[c] \in Session
      BY <1>0, PlaceFacts DEF TypeInv, Session
    <2>2. command' \in [Commands -> Session]
      BY <1>0, <2>1 DEF TypeInv
    <2>3. box' \in [Commands -> Box]
      BY <1>0 DEF TypeInv, Box
    <2> QED BY <2>2, <2>3, <1>0 DEF TypeInv
  <1>4. \A d \in Commands :
          /\ command'[d].at \in Early <=> command[d].at \in Early
          /\ d # c => command'[d] = command[d]
          /\ d # x => box'[d] = box[d]
    BY <1>0, <1>2 DEF TypeInv, Early, Alone, Sweeping
  <1>5. box'[x].dir = "gone" /\ box'[x].pid = box[x].pid /\ box'[x].old = box[x].old
    BY <1>0 DEF TypeInv, Box
  <1>6. ASSUME NEW d \in Commands
        PROVE  Sound(command'[d], box'[d], proxy'[d])
    <2>1. CASE d = c
      BY <2>1, <1>0, <1>1, <1>2, <1>4, CommandFacts
      DEF Sound, Placed, Owned, Left, Early, Alone, Making, Sweeping
    <2>2. CASE d = x
      BY <2>2, <1>0, <1>1, <1>4, <1>5, CommandFacts
      DEF Sound, Placed, Owned, Left, Runs, Early
    <2>3. CASE d # c /\ d # x
      BY <2>3, <1>0, <1>4, CommandFacts DEF Sound
    <2> QED BY <2>1, <2>2, <2>3
  <1>7. ASSUME NEW d \in Commands, NEW e \in Commands
        PROVE  Swept(command'[d], e, command'[e], box'[e], proxy'[e])
    <2>1. Swept(command[d], e, command[e], box[e], proxy[e]) /\ e # Nobody
      BY CommandFacts DEF IInv
    <2>2. (box[e].dir # "none" => box'[e].dir # "none") /\ proxy'[e] = proxy[e]
      BY <1>0, <1>4, <1>5
    <2>3. CASE d = c
      BY <2>1, <2>2, <2>3, <1>2, <1>4 DEF Swept
    <2>4. CASE d # c
      BY <2>1, <2>2, <2>4, <1>4 DEF Swept
    <2> QED BY <2>3, <2>4
  <1> QED BY <1>3, <1>6, <1>7 DEF IInv

-----------------------------------------------------------------------------
LEMMA Invariance == Spec => []IInv
  <1>1. IInv /\ [Next]_vars => IInv'
    <2> SUFFICES ASSUME IInv, [Next]_vars PROVE IInv'
      OBVIOUS
    <2>1. CASE UNCHANGED vars
      BY <2>1 DEF vars, IInv, TypeInv
    <2>2. CASE Next
      <3> PICK c \in Commands : \/ Start(c) \/ Step(c) \/ Child(c)
                               \/ Raise(c) \/ Signal(c) \/ Kill(c)
                               \/ Die(c) \/ Reuse(c) \/ Age(c)
        BY <2>2 DEF Next
      <3>1. CASE Step(c)
        BY <3>1, LookKeeps, DoubtKeeps, RemoveKeeps, MakeDirKeeps, ConfigureKeeps,
            PrepareKeeps,
           SpawnKeeps, AssignKeeps, OpenPidKeeps, NamePidKeeps, HealthyKeeps, UnhealthyKeeps,
           FinishKeeps, CloseKeeps, TerminateKeeps, AwaitKeeps, RmtreeKeeps DEF Step
      <3>2. CASE ~Step(c)
        BY <3>2, StartKeeps, LoadKeeps, BindKeeps, RaiseKeeps, SignalKeeps, KillKeeps,
            DieKeeps,
           ReuseKeeps, AgeKeeps DEF Child
      <3> QED BY <3>1, <3>2
    <2> QED BY <2>1, <2>2
  <1> QED BY <1>1, InitIInv, PTL DEF Spec

\* A command that is over has left nothing behind, whatever other commands and
\* their sweeps did meanwhile, unless it was killed or hit in one of the three
\* windows that NothingLeft names.
THEOREM NothingLeftAlways == Spec => []NothingLeft
  <1>1. IInv => NothingLeft
    BY DEF IInv, Sound, Left, NothingLeft, Running, Runs
  <1> QED BY <1>1, Invariance, PTL

\* A sweep removes the directory of no proxy whose pid file it had read whole.
THEOREM SparedOnceNamedAlways == Spec => []SparedOnceNamed
  <1>1. IInv => SparedOnceNamed
    BY DEF IInv, Swept, SparedOnceNamed, Running, Runs
  <1> QED BY <1>1, Invariance, PTL

\* A scratch proxy opens the user's store only where a sweep took its sandbox
\* for dead, or its command was hit as the proxy was spawned.
THEOREM MainStoreApartAlways == Spec => []MainStoreApart
  <1>1. IInv => MainStoreApart
    BY DEF IInv, Sound, Owned, MainStoreApart
  <1> QED BY <1>1, Invariance, PTL

-----------------------------------------------------------------------------
(***************************************************************************)
(* `sieve benchmark` and `sieve demo`: for any script, any number of turns *)
(* and runs, failures of turns and resets, and whenever the proxy stores   *)
(* what it extracted.                                                      *)
(*                                                                         *)
(* First the sum over the runs, defined by recursion.  Induction is over a *)
(* set of numbers here: one that holds 0 and goes up to a bound is whole.  *)
(***************************************************************************)
LEMMA HighestOf ==
    ASSUME NEW L \in Nat, NEW T \in SUBSET (1..L), T # {}
    PROVE  \E m \in T : \A x \in T : x <= m
  <1> DEFINE D == {n \in 1..L : \E x \in T : n <= x}
             c == Cardinality(D)
  <1>1. IsFiniteSet(1..L) /\ Cardinality(1..L) = L
    BY FS_Interval
  <1>2. IsFiniteSet(D) /\ c \in Nat
    <2>1. D \in SUBSET (1..L)
      OBVIOUS
    <2> HIDE DEF D
    <2> QED BY <1>1, <2>1, FS_Subset, FS_CardinalityType
  <1>3. ASSUME NEW x \in T PROVE x <= c
    <2>1. 1..x \in SUBSET D /\ Cardinality(1..x) = x /\ x \in Nat
      BY FS_Interval
    <2> HIDE DEF D
    <2>2. Cardinality(1..x) <= Cardinality(D)
      BY <1>2, <2>1, FS_Subset
    <2> QED BY <1>2, <2>1, <2>2
  <1>4. D \in SUBSET (1..c)
    <2> SUFFICES ASSUME NEW n \in D PROVE n \in 1..c
      OBVIOUS
    <2>1. PICK x \in T : n <= x
      OBVIOUS
    <2>2. x <= c /\ n \in 1..L
      BY <1>3
    <2> HIDE DEF D, c
    <2> QED BY <1>2, <2>1, <2>2
  <1>5. IsFiniteSet(1..c) /\ Cardinality(1..c) = c
    <2> HIDE DEF c
    <2> QED BY <1>2, FS_Interval
  <1>6. D = 1..c
    <2> HIDE DEF D
    <2> QED BY <1>4, <1>5, FS_Subset
  <1>7. c \in D
    <2>1. PICK x \in T : TRUE
      OBVIOUS
    <2>2. x <= c /\ x \in 1..L
      BY <1>3
    <2>3. c \in 1..c
      <3> HIDE DEF c
      <3> QED BY <1>2, <2>2
    <2> QED BY <1>6, <2>3
  <1>8. PICK m \in T : c <= m
    BY <1>7
  <1>9. \A x \in T : x <= m
    <2> HIDE DEF c
    <2> QED BY <1>2, <1>3, <1>8
  <1> QED BY <1>9

LEMMA UpToBound ==
    ASSUME NEW L \in Nat, NEW S, 0 \in S, \A n \in 0..L : n \in S /\ n < L => n + 1 \in S
    PROVE  \A n \in 0..L : n \in S
  <1> DEFINE T == {k \in 1..(L + 1) : \A j \in 0..(k - 1) : j \in S}
  <1>1. 1 \in T /\ T \in SUBSET (1..(L + 1))
    OBVIOUS
  <1>2. PICK m \in T : \A k \in T : k <= m
    <2> HIDE DEF T
    <2>1. L + 1 \in Nat /\ T # {}
      BY <1>1
    <2> QED BY <1>1, <2>1, HighestOf
  <1>3. m \in 1..(L + 1) /\ \A j \in 0..(m - 1) : j \in S
    OBVIOUS
  <1>4. ASSUME m <= L PROVE FALSE
    <2>1. m - 1 \in 0..L /\ m - 1 \in S /\ m - 1 < L /\ (m - 1) + 1 = m
      BY <1>3, <1>4
    <2>2. m \in S
      BY <2>1
    <2>3. \A j \in 0..m : j \in S
      BY <1>3, <2>2
    <2>4. m + 1 \in T
      BY <1>3, <1>4, <2>3
    <2> QED BY <1>2, <1>3, <2>4
  <1> QED BY <1>3, <1>4

LEMMA MostRuns ==
    /\ Max(AskedRuns) \in Nat \ {0}
    /\ \A n \in AskedRuns : n \in Nat \ {0} /\ n <= Max(AskedRuns)
  <1>1. PICK most \in AskedRuns : \A n \in AskedRuns : n <= most
    BY BenchmarkAssumption
  <1>2. AskedRuns \subseteq Nat \ {0}
    BY BenchmarkAssumption
  <1>3. \A n \in AskedRuns : most >= n
    BY <1>1, <1>2
  <1>4. Max(AskedRuns) \in AskedRuns /\ \A n \in AskedRuns : Max(AskedRuns) >= n
    BY <1>1, <1>3, Zenon DEF Max
  <1> QED BY <1>2, <1>4

\* u is the sum of the rows up to each run.
Sums(rows, u) == \A o \in Owners : u[o] = rows[o] + IF o = 0 THEN 0 ELSE u[o - 1]

LEMMA SumsExist ==
    ASSUME NEW rows \in [Owners -> Nat]
    PROVE  \E u \in [Owners -> Nat] : Sums(rows, u)
  <1> DEFINE L == Max(AskedRuns)
             UpTo(n, u) == \A o \in 0..n : u[o] = rows[o] + IF o = 0 THEN 0 ELSE u[o - 1]
             S == {n \in 0..L : \E u \in [0..n -> Nat] : UpTo(n, u)}
  <1>1. L \in Nat /\ Owners = 0..L
    BY MostRuns DEF Owners
  <1> HIDE DEF L
  <1>2. 0 \in S
    <2> DEFINE u == [o \in 0..0 |-> rows[0]]
    <2>1. u \in [0..0 -> Nat] /\ u[0] = rows[0] /\ rows[0] \in Nat
      BY <1>1
    <2>2. UpTo(0, u)
      BY <2>1
    <2> HIDE DEF u, UpTo
    <2>3. \E w \in [0..0 -> Nat] : UpTo(0, w)
      BY <2>1, <2>2
    <2> QED BY <1>1, <2>3
  <1>3. ASSUME NEW n \in 0..L, n \in S, n < L PROVE n + 1 \in S
    <2>1. PICK u \in [0..n -> Nat] : UpTo(n, u)
      BY <1>3
    <2> DEFINE v == [o \in 0..(n + 1) |-> IF o = n + 1 THEN rows[o] + u[n] ELSE u[o]]
    <2>2. n + 1 \in 0..L /\ rows[n + 1] \in Nat /\ u[n] \in Nat
      BY <1>1, <1>3
    <2>3. v \in [0..(n + 1) -> Nat]
      <3> SUFFICES ASSUME NEW o \in 0..(n + 1)
                   PROVE  (IF o = n + 1 THEN rows[o] + u[n] ELSE u[o]) \in Nat
        OBVIOUS
      <3>1. CASE o = n + 1
        BY <2>2, <3>1
      <3>2. CASE o # n + 1
        BY <1>1, <1>3, <3>2
      <3> QED BY <3>1, <3>2
    <2>4. ASSUME NEW o \in 0..(n + 1)
          PROVE  v[o] = rows[o] + IF o = 0 THEN 0 ELSE v[o - 1]
      <3>1. CASE o = n + 1
        <4>1. v[o] = rows[o] + u[n] /\ v[o - 1] = u[n] /\ o # 0
          BY <1>1, <1>3, <3>1
        <4> QED BY <4>1
      <3>2. CASE o # n + 1
        <4>1. o \in 0..n /\ v[o] = u[o] /\ (o # 0 => v[o - 1] = u[o - 1])
          BY <1>1, <1>3, <3>2
        <4>2. u[o] = rows[o] + IF o = 0 THEN 0 ELSE u[o - 1]
          BY <2>1, <4>1
        <4> QED BY <4>1, <4>2
      <3> QED BY <3>1, <3>2
    <2> QED BY <2>2, <2>3, <2>4
  <1>4. L \in S
    <2> HIDE DEF S
    <2>1. \A n \in 0..L : n \in S
      BY <1>1, <1>2, <1>3, UpToBound
    <2> QED BY <1>1, <2>1
  <1>5. PICK u \in [0..L -> Nat] : UpTo(L, u)
    BY <1>4
  <1> QED BY <1>1, <1>5 DEF Sums

LEMMA SumsTyped ==
    ASSUME NEW rows \in [Owners -> Nat], NEW u, Sums(rows, u)
    PROVE  \A o \in Owners : u[o] \in Nat
  <1> DEFINE L == Max(AskedRuns)
             S == {o \in Owners : u[o] \in Nat}
  <1>1. L \in Nat /\ Owners = 0..L
    BY MostRuns DEF Owners
  <1> HIDE DEF L
  <1>2. 0 \in S
    <2>1. 0 \in Owners /\ rows[0] \in Nat /\ u[0] = rows[0] + 0
      BY <1>1 DEF Sums
    <2> QED BY <2>1
  <1>3. ASSUME NEW n \in 0..L, n \in S, n < L PROVE n + 1 \in S
    <2>1. n + 1 \in Owners /\ n + 1 # 0 /\ (n + 1) - 1 = n /\ rows[n + 1] \in Nat
      BY <1>1, <1>3
    <2>2. u[n + 1] = rows[n + 1] + u[n]
      BY <2>1 DEF Sums
    <2> QED BY <1>3, <2>1, <2>2
  <1>4. \A n \in 0..L : n \in S
    <2> HIDE DEF S
    <2> QED BY <1>1, <1>2, <1>3, UpToBound
  <1> QED BY <1>1, <1>4

LEMMA TotalIs ==
    ASSUME NEW rows \in [Owners -> Nat]
    PROVE  \E u : Sums(rows, u) /\ Total(rows) = u[Max(AskedRuns)]
  <1> DEFINE Solves(u) == u = [o \in Owners |-> rows[o] + IF o = 0 THEN 0 ELSE u[o - 1]]
             upTo == CHOOSE u : Solves(u)
  <1>1. PICK u \in [Owners -> Nat] : Sums(rows, u)
    BY SumsExist
  <1>2. Solves(u)
    BY <1>1 DEF Sums
  <1>3. Solves(upTo)
    <2> HIDE DEF Solves
    <2> QED BY <1>2
  <1>4. Total(rows) = upTo[Max(AskedRuns)]
    BY DEF Total
  <1>5. Sums(rows, upTo)
    <2> HIDE DEF upTo
    <2> QED BY <1>3 DEF Sums
  <1> QED BY <1>4, <1>5

\* One row more in the store is one more in its count.
LEMMA TotalGrows ==
    ASSUME NEW rows \in [Owners -> Nat], NEW run \in Owners
    PROVE  /\ Total(rows) \in Nat
           /\ Total([rows EXCEPT ![run] = @ + 1]) = Total(rows) + 1
  <1> DEFINE L == Max(AskedRuns)
             more == [rows EXCEPT ![run] = @ + 1]
             extra(o) == IF run <= o THEN 1 ELSE 0
  <1>1. L \in Nat /\ Owners = 0..L /\ L = Max(AskedRuns)
    BY MostRuns DEF Owners
  <1> HIDE DEF L
  <1>2. /\ more \in [Owners -> Nat]
        /\ \A o \in Owners : more[o] = IF o = run THEN rows[o] + 1 ELSE rows[o]
    OBVIOUS
  <1> HIDE DEF more
  <1>3. PICK u : Sums(rows, u) /\ Total(rows) = u[L]
    BY <1>1, TotalIs
  <1>4. PICK v : Sums(more, v) /\ Total(more) = v[L]
    BY <1>1, <1>2, TotalIs
  <1>5. \A o \in Owners : u[o] \in Nat /\ v[o] \in Nat
    BY <1>2, <1>3, <1>4, SumsTyped
  <1> DEFINE S == {o \in Owners : v[o] = u[o] + extra(o)}
  <1>6. 0 \in S
    <2>1. 0 \in Owners /\ u[0] = rows[0] + 0 /\ v[0] = more[0] + 0 /\ rows[0] \in Nat
      BY <1>1, <1>3, <1>4 DEF Sums
    <2>2. more[0] = rows[0] + extra(0)
      BY <1>1, <1>2, <2>1
    <2> QED BY <2>1, <2>2, <1>2
  <1>7. ASSUME NEW n \in 0..L, n \in S, n < L PROVE n + 1 \in S
    <2>1. n + 1 \in Owners /\ n + 1 # 0 /\ (n + 1) - 1 = n /\ rows[n + 1] \in Nat
      BY <1>1, <1>7
    <2>2. u[n + 1] = rows[n + 1] + u[n] /\ v[n + 1] = more[n + 1] + v[n]
      BY <1>3, <1>4, <2>1 DEF Sums
    <2>3. v[n] = u[n] + extra(n) /\ u[n] \in Nat
      BY <1>1, <1>5, <1>7
    <2>4. more[n + 1] + extra(n) = rows[n + 1] + extra(n + 1)
      BY <1>1, <1>2, <1>7, <2>1
    <2>5. v[n + 1] = u[n + 1] + extra(n + 1)
      BY <1>2, <2>1, <2>2, <2>3, <2>4
    <2> QED BY <2>1, <2>5
  <1>8. L \in S
    <2> HIDE DEF S
    <2> QED BY <1>1, <1>6, <1>7, UpToBound
  <1>9. v[L] = u[L] + 1 /\ u[L] \in Nat
    BY <1>1, <1>5, <1>8
  <1> QED BY <1>3, <1>4, <1>9 DEF more

-----------------------------------------------------------------------------
(***************************************************************************)
(* Types.  Of the plan only what was agreed to before a pass begins        *)
(* matters here.                                                           *)
(***************************************************************************)
Before    == {"start", "wizard", "heavy", "preflight", "consent", "sandbox", "patch"}
Passing   == {"reset", "turn", "report"}
Demoing   == {"begin", "ask", "wait"}
PlanParts == {"main", "asks", "local", "window", "fixture", "turns", "runs",
              "warned", "skipped", "agreed"}

PlanMade ==
    /\ DOMAIN plan = PlanParts
    /\ plan.main \in BOOLEAN /\ plan.turns \in Nat
    /\ pc \in (Before \ {"start"}) \cup Passing => plan.runs \in AskedRuns

PassType == [run : Nat, kind : {"baseline", "sieve"}, turn : Nat \ {0},
             graded : Nat, correct : Nat, failed : BOOLEAN, late : [Owners -> Nat]]
Result   == [graded : Nat, correct : Nat, failed : BOOLEAN]
DemoType == [turn : Nat, polls : BOOLEAN, start : Nat, before : Nat, streak : Nat,
             done : Nat, learned : Nat]
Stores   == [{"main", "sandbox"} -> [Owners -> Nat]]

Typed ==
    /\ pc \in Before \cup Passing \cup Demoing \cup {"over"}
    /\ PlanMade
    /\ facts \in Stores /\ writes \in [Owners -> Nat]
    /\ pass \in PassType /\ results \in Seq(Result) /\ demo \in DemoType

LEMMA MaxOfTwo ==
    ASSUME NEW a \in Int, NEW b \in Int
    PROVE  Max({a, b}) = IF a > b THEN a ELSE b
  <1> DEFINE c == CHOOSE x \in {a, b} : \A y \in {a, b} : x >= y
             d == IF a > b THEN a ELSE b
  <1>1. d \in {a, b} /\ \A y \in {a, b} : d >= y
    OBVIOUS
  <1>2. c \in {a, b} /\ \A y \in {a, b} : c >= y
    <2> HIDE DEF d
    <2> QED BY <1>1
  <1>3. Max({a, b}) = c
    BY DEF Max
  <1> HIDE DEF c
  <1> QED BY <1>2, <1>3

LEMMA EmptyTyped == Empty \in [Owners -> Nat] /\ 1 \in Owners
  BY MostRuns DEF Empty, Owners

LEMMA StoreTyped ==
    ASSUME Typed PROVE Store \in {"main", "sandbox"} /\ facts[Store] \in [Owners -> Nat]
  BY DEF Typed, PlanMade, Store, Stores

LEMMA CountTyped == ASSUME Typed PROVE Count \in Nat /\ FactCount \in Nat
  BY StoreTyped, TotalGrows, EmptyTyped DEF Count, FactCount

\* The questions and the checks before a run change nothing but the plan.
LEMMA AskSteps ==
    ASSUME Typed, Ask
    PROVE  /\ Typed' /\ pc \in Before /\ pc' \in (Before \ {"start"}) \cup {"over"}
           /\ UNCHANGED Untouched
  <1> USE DEF Untouched, Continue, End
  <1>0. ASSUME pc \in Before, pc' \in (Before \ {"start"}) \cup {"over"},
               UNCHANGED Untouched, PlanMade'
        PROVE  /\ Typed' /\ pc \in Before /\ pc' \in (Before \ {"start"}) \cup {"over"}
               /\ UNCHANGED Untouched
    BY <1>0 DEF Typed
  \* A step that keeps store, turns and runs.
  <1>1. ASSUME pc \in Before \ {"start"}, pc' \in (Before \ {"start"}) \cup {"over"},
               DOMAIN plan' = PlanParts, plan'.main = plan.main, plan'.turns = plan.turns,
               plan'.runs = plan.runs
        PROVE  PlanMade'
    BY <1>1 DEF Typed, PlanMade, Before, Passing
  <1>p. DOMAIN plan = PlanParts
    BY DEF Typed, PlanMade
  <1>2. CASE Command
    <2>2. DOMAIN plan' = PlanParts /\ plan'.main \in BOOLEAN /\ plan'.turns \in Nat
          /\ plan'.runs \in AskedRuns
      BY <1>2, BenchmarkAssumption DEF Command, PlanParts
    <2>3. PlanMade'
      BY <2>2 DEF PlanMade
    <2>4. UNCHANGED Untouched /\ pc = "start" /\ pc' \in {"wizard", "heavy"}
      BY <1>2 DEF Command
    <2> QED BY <1>0, <2>3, <2>4 DEF Before
  <1>3. CASE Wizard
    <2>1. PICK fixture \in Range(Fixtures) \ {"small"}, turns \in AskedTurns, runs \in AskedRuns :
            plan' = [plan EXCEPT !.fixture = fixture, !.turns = Max({3, turns}), !.runs = runs]
      BY <1>3 DEF Wizard
    <2>2. Max({3, turns}) \in Nat
      BY MaxOfTwo, BenchmarkAssumption
    <2>3. DOMAIN plan' = PlanParts /\ plan'.main = plan.main /\ plan'.turns \in Nat
          /\ plan'.runs \in AskedRuns
      BY <1>p, <2>1, <2>2 DEF PlanParts
    <2>4. PlanMade'
      BY <2>3 DEF PlanMade, Typed
    <2>5. UNCHANGED Untouched /\ pc = "wizard" /\ pc' = "heavy"
      BY <1>3 DEF Wizard
    <2> QED BY <1>0, <2>4, <2>5 DEF Before
  <1>4. CASE HeavyFixture \/ FitsAll \/ RunAnyway \/ DropFixture \/ CancelRun \/ AbortPrompt
             \/ Consent \/ OpenSandbox
    <2>1. /\ DOMAIN plan' = PlanParts /\ plan'.main = plan.main /\ plan'.turns = plan.turns
          /\ plan'.runs = plan.runs
      BY <1>4, <1>p DEF PlanParts, HeavyFixture, FitsAll, RunAnyway, DropFixture, CancelRun,
         AbortPrompt, Consent, OpenSandbox
    <2>2. /\ pc \in Before \ {"start"} /\ pc' \in (Before \ {"start"}) \cup {"over"}
          /\ UNCHANGED Untouched
      BY <1>4 DEF Before, Prepared, HeavyFixture, FitsAll, RunAnyway, DropFixture, CancelRun,
         AbortPrompt, Consent, OpenSandbox
    <2> QED BY <1>0, <1>1, <2>1, <2>2
  <1> QED BY <1>2, <1>3, <1>4 DEF Ask

LEMMA CleanTyped ==
    ASSUME Typed, CleanUp PROVE facts' \in Stores /\ writes' \in [Owners -> Nat]
  BY EmptyTyped DEF Typed, CleanUp, Stores

LEMMA Learns ==
    ASSUME Typed, NEW run, NEW phase, MayLearn(run, phase)
    PROVE  /\ writes' \in [Owners -> Nat]
           /\ \A o \in Owners : o # run => writes'[o] = writes[o]
  <1>1. PICK n \in IF phase \in {"introduce", "update"} THEN 0..1 ELSE {0} :
          writes' = [writes EXCEPT ![run] = @ + n]
    BY DEF MayLearn
  <1>n. n \in Nat
    OBVIOUS
  <1>2. writes \in [Owners -> Nat]
    BY DEF Typed
  <1>3. \A o \in Owners : writes'[o] = IF o = run THEN writes[o] + n ELSE writes[o]
    BY <1>1, <1>2
  <1>4. \A o \in Owners : writes'[o] \in Nat
    BY <1>2, <1>3, <1>n
  <1>5. writes' = [o \in Owners |-> writes'[o]]
    BY <1>1, <1>2
  <1> QED BY <1>3, <1>4, <1>5

LEMMA DemoLearns ==
    ASSUME Typed, DemoLearn
    PROVE  writes' \in [Owners -> Nat]
  <1>1. PICK n \in IF demo.turn \in Shares THEN 0..1 ELSE {0} :
          writes' = [writes EXCEPT ![1] = @ + n]
    BY DEF DemoLearn
  <1>n. n \in Nat
    OBVIOUS
  <1>2. writes \in [Owners -> Nat] /\ writes[1] + n \in Nat
    BY EmptyTyped, <1>n DEF Typed
  <1> QED BY <1>1, <1>2

LEMMA TypedStep ==
    ASSUME Typed, [BenchmarkNext]_benchmarkVars
    PROVE  Typed'
  <1> USE DEF Continue, End, Asked
  <1>0. /\ facts \in Stores /\ writes \in [Owners -> Nat] /\ pass \in PassType
        /\ results \in Seq(Result) /\ demo \in DemoType /\ PlanMade
        /\ Count \in Nat /\ FactCount \in Nat
    BY CountTyped DEF Typed
  <1>1. CASE Ask
    BY <1>1, AskSteps
  <1>2. CASE Patch
    <2>1. /\ DOMAIN plan' = PlanParts /\ plan'.main = plan.main /\ plan'.turns = plan.turns
          /\ plan'.runs = plan.runs /\ plan.runs \in AskedRuns
      BY <1>0, <1>2 DEF Patch, PlanMade, PlanParts, Before
    <2>2. pass' \in PassType /\ pc' \in Passing
      BY <1>0, <1>2 DEF Patch, NewPass, PassType, Passing
    <2> QED BY <1>0, <1>2, <2>1, <2>2 DEF Patch, Typed, PlanMade
  <1>3. CASE ResetStore
    <2>1. facts' \in Stores
      BY <1>0, <1>3, EmptyTyped DEF ResetStore, Stores
    <2> QED BY <1>0, <1>3, <2>1 DEF ResetStore, Typed, PlanMade, Passing
  <1>4. CASE AnswerTurn \/ FailTurn
    <2>1. pass' \in PassType
      <3>1. /\ pass.turn \in Nat /\ pass.graded \in Nat /\ pass.correct \in Nat
            /\ pass.turn + 1 \in Nat \ {0}
        BY <1>0 DEF PassType
      <3>2. CASE AnswerTurn
        <4>1. PICK right \in BOOLEAN : pass' = GradeTurn(right)
          BY <3>2 DEF AnswerTurn
        <4> DEFINE g == IF Graded(pass.turn) THEN 1 ELSE 0
                   c == IF Graded(pass.turn) /\ right THEN 1 ELSE 0
        <4>2. pass.graded + g \in Nat /\ pass.correct + c \in Nat
          BY <3>1
        <4>3. pass' = [pass EXCEPT !.turn = pass.turn + 1, !.graded = pass.graded + g,
                                   !.correct = pass.correct + c]
          BY <4>1 DEF GradeTurn
        <4> HIDE DEF g, c
        <4> QED BY <1>0, <3>1, <4>2, <4>3 DEF PassType
      <3>3. CASE FailTurn
        <4>1. pass' = [pass EXCEPT !.turn = pass.turn + 1, !.failed = TRUE]
          BY <3>3 DEF FailTurn
        <4> QED BY <1>0, <3>1, <4>1 DEF PassType
      <3> QED BY <1>4, <3>2, <3>3
    <2>2. writes' \in [Owners -> Nat]
      BY <1>0, <1>4, Learns DEF AnswerTurn, FailTurn
    <2>3. UNCHANGED <<pc, plan, facts, results, demo>>
      BY <1>4 DEF AnswerTurn, FailTurn
    <2> QED BY <1>0, <2>1, <2>2, <2>3 DEF Typed, PlanMade
  <1>5. CASE EndPass
    <2>1. results' \in Seq(Result)
      <3> DEFINE r == [graded |-> pass.graded, correct |-> pass.correct, failed |-> pass.failed]
      <3>1. r \in Result
        BY <1>0 DEF PassType, Result
      <3>2. results' = Append(results, r)
        BY <1>5 DEF EndPass
      <3> HIDE DEF r
      <3> QED BY <1>0, <3>1, <3>2
    <2>2. pass' \in PassType /\ pc' \in Passing
      <3>1. \A run \in Nat, kind \in {"baseline", "sieve"} : NewPass(run, kind) \in PassType
        BY <1>0 DEF NewPass, PassType
      <3>2. /\ \/ pass' = NewPass(pass.run, "sieve") \/ pass' = NewPass(pass.run + 1, "baseline")
               \/ pass' = pass
            /\ pc' \in {"reset", "report"}
        BY <1>5 DEF EndPass, Beginning
      <3>3. pass.run \in Nat /\ pass.run + 1 \in Nat
        BY <1>0 DEF PassType
      <3> QED BY <1>0, <3>1, <3>2, <3>3 DEF Passing
    <2>3. UNCHANGED <<plan, facts, writes, demo>> /\ pc \in Passing
      BY <1>5 DEF EndPass, Passing
    <2> QED BY <1>0, <2>1, <2>2, <2>3 DEF Typed, PlanMade
  <1>6. CASE Report \/ BreakOff
    <2>1. /\ UNCHANGED <<plan, pass, results, demo>> /\ pc' = "over" /\ CleanUp
      BY <1>6 DEF Report, BreakOff
    <2>2. facts' \in Stores /\ writes' \in [Owners -> Nat]
      BY <2>1, CleanTyped
    <2> QED BY <1>0, <2>1, <2>2 DEF Typed, PlanMade, Before, Passing
  <1>7. CASE WriteLands
    <2>1. PICK run \in Owners :
            /\ writes[run] > 0 /\ writes' = [writes EXCEPT ![run] = @ - 1]
            /\ facts' = [facts EXCEPT ![Store][run] = @ + 1]
      BY <1>7 DEF WriteLands
    <2>2. writes' \in [Owners -> Nat]
      <3>1. writes[run] - 1 \in Nat
        BY <1>0, <2>1
      <3> QED BY <1>0, <2>1, <3>1
    <2>3. facts' \in Stores
      <3>1. Store \in {"main", "sandbox"} /\ facts[Store] \in [Owners -> Nat]
        BY StoreTyped
      <3>2. [facts[Store] EXCEPT ![run] = @ + 1] \in [Owners -> Nat]
        BY <3>1
      <3> QED BY <1>0, <2>1, <3>1, <3>2 DEF Stores
    <2> QED BY <1>0, <1>7, <2>2, <2>3 DEF WriteLands, Typed, PlanMade
  <1>8. CASE DemoCommand
    <2>1. UNCHANGED <<facts, writes, pass, results>>
          /\ pc' \in {"begin", "over"}
      BY <1>8 DEF DemoCommand
    <2>2. demo' \in DemoType
      BY <1>0, <1>8 DEF DemoCommand, NewDemo, DemoType
    <2>3. DOMAIN plan' = PlanParts /\ plan'.main \in BOOLEAN /\ plan'.turns \in Nat
      BY <1>0, <1>8 DEF DemoCommand, PlanMade, PlanParts
    <2> QED BY <1>0, <2>1, <2>2, <2>3 DEF Typed, PlanMade, Before, Passing, Demoing
  <1>9. CASE DemoBegin \/ DemoAsk
    <2>1. UNCHANGED <<plan, facts, pass, results>> /\ pc' \in Demoing
      BY <1>9 DEF DemoBegin, DemoAsk, Apart, Demoing
    <2>2. demo' \in DemoType
      <3>1. demo.done + 1 \in Nat
        BY <1>0 DEF DemoType
      <3>2. \/ demo' = [demo EXCEPT !.start = FactCount]
            \/ demo' = [demo EXCEPT !.before = FactCount, !.streak = 0, !.done = demo.done + 1]
        BY <1>9 DEF DemoBegin, DemoAsk
      <3>3. CASE demo' = [demo EXCEPT !.start = FactCount]
        BY <1>0, <3>3 DEF DemoType
      <3>4. CASE demo' = [demo EXCEPT !.before = FactCount, !.streak = 0, !.done = demo.done + 1]
        BY <1>0, <3>1, <3>4 DEF DemoType
      <3> QED BY <3>2, <3>3, <3>4
    <2>3. writes' \in [Owners -> Nat]
      BY <1>0, <1>9, DemoLearns DEF DemoBegin, DemoAsk
    <2> QED BY <1>0, <2>1, <2>2, <2>3 DEF Typed, PlanMade, Before, Passing, Demoing
  <1>10. CASE DemoFail
    <2>1. UNCHANGED <<plan, pass, results>> /\ pc' \in Demoing \cup {"over"}
      BY <1>10 DEF DemoFail, Demoing
    <2>2. demo' \in DemoType
      <3>1. PICK streak \in {1, demo.streak + 1} :
              demo' = [demo EXCEPT !.before = FactCount, !.streak = streak]
        BY <1>10 DEF DemoFail
      <3>2. streak \in Nat
        BY <1>0 DEF DemoType
      <3> QED BY <1>0, <3>1, <3>2 DEF DemoType
    <2>3. facts' \in Stores /\ writes' \in [Owners -> Nat]
      BY <1>0, <1>10, DemoLearns, CleanTyped DEF DemoFail
    <2> QED BY <1>0, <2>1, <2>2, <2>3 DEF Typed, PlanMade, Before, Passing, Demoing
  <1>11. CASE DemoCount
    <2>1. UNCHANGED <<plan, pass, results>> /\ pc' \in Demoing \cup {"over"}
      BY <1>11 DEF DemoCount, Demoing
    <2>2. demo' \in DemoType
      <3>1. Max({0, FactCount - demo.before}) \in Nat
        <4>1. FactCount - demo.before \in Int
          BY <1>0 DEF DemoType
        <4> QED BY <4>1, MaxOfTwo
      <3> DEFINE more == IF demo.turn \in Shares THEN Max({0, FactCount - demo.before}) ELSE 0
      <3>2. demo.learned + more \in Nat /\ demo.turn + 1 \in Nat
        BY <1>0, <3>1 DEF DemoType
      <3>3. demo' = [demo EXCEPT !.learned = demo.learned + more, !.turn = demo.turn + 1]
        BY <1>11 DEF DemoCount
      <3> HIDE DEF more
      <3> QED BY <1>0, <3>2, <3>3 DEF DemoType
    <2>3. facts' \in Stores /\ writes' \in [Owners -> Nat]
      BY <1>0, <1>11, CleanTyped DEF DemoCount
    <2> QED BY <1>0, <2>1, <2>2, <2>3 DEF Typed, PlanMade, Before, Passing, Demoing
  <1>12. CASE UNCHANGED benchmarkVars
    BY <1>0, <1>12 DEF benchmarkVars, Typed, PlanMade
  <1> QED
    BY <1>1, <1>2, <1>3, <1>4, <1>5, <1>6, <1>7, <1>8, <1>9, <1>10, <1>11, <1>12
    DEF BenchmarkNext, Measure, Demonstrate

LEMMA TypedInit == BenchmarkInit => Typed
  <1> SUFFICES ASSUME BenchmarkInit PROVE Typed
    OBVIOUS
  <1>1. pc = "start" /\ pass \in PassType /\ demo \in DemoType /\ results = <<>>
    <2>1. writes \in [Owners -> Nat]
      BY EmptyTyped DEF BenchmarkInit
    <2> QED BY <2>1 DEF BenchmarkInit, NewPass, NewDemo, PassType, DemoType
  <1>2. writes \in [Owners -> Nat] /\ facts \in Stores
    <2> DEFINE user == [Empty EXCEPT ![0] = 1]
    <2>1. user \in [Owners -> Nat]
      BY EmptyTyped
    <2>2. writes = Empty /\ facts = [main |-> user, sandbox |-> Empty]
      BY DEF BenchmarkInit
    <2> HIDE DEF user
    <2> QED BY <2>1, <2>2, EmptyTyped DEF Stores
  <1>3. DOMAIN plan = PlanParts /\ plan.main \in BOOLEAN /\ plan.turns \in Nat
    BY DEF BenchmarkInit, PlanParts
  <1> QED BY <1>1, <1>2, <1>3 DEF Typed, PlanMade, Before, Passing

-----------------------------------------------------------------------------
(***************************************************************************)
(* What is stored while a pass runs.  Nothing waits to be stored before    *)
(* the first pass, and later only what the runs so far have taught.  In a  *)
(* Sieve pass what other runs have waiting, and have stored since the      *)
(* reset, is together no more than what waited when the pass began.        *)
(***************************************************************************)
WritesOwned ==
    /\ pc \in Before => writes = Empty
    /\ pc \in Passing =>
         /\ pass.run \in 1..plan.runs
         /\ \A o \in Owners \ (1..pass.run) : writes[o] = 0 /\ pass.late[o] = 0
         /\ pass.kind = "sieve" => \A o \in Owners \ {pass.run} : writes[o] <= pass.late[o]
    /\ pc = "turn" /\ pass.kind = "sieve" /\ ~stale =>
         \A o \in Owners \ {pass.run} : facts[Store][o] + writes[o] <= pass.late[o]

LEMMA CleanInit == BenchmarkInit => WritesOwned
  BY DEF BenchmarkInit, WritesOwned, Passing, Before

LEMMA CleanStep ==
    ASSUME Typed, WritesOwned, [BenchmarkNext]_benchmarkVars
    PROVE  WritesOwned'
  <1> USE DEF Continue, End, Asked
  <1>0. /\ facts \in Stores /\ writes \in [Owners -> Nat] /\ pass \in PassType
        /\ Store \in {"main", "sandbox"} /\ pass.run \in Nat
        /\ pass.late \in [Owners -> Nat] /\ facts[Store] \in [Owners -> Nat]
    BY StoreTyped DEF Typed, PassType
  <1>1. CASE Ask
    <2>1. pc \in Before /\ pc' \in Before \cup {"over"} /\ writes' = writes
      BY <1>1, AskSteps DEF Untouched
    <2> QED BY <2>1 DEF WritesOwned, Before, Passing
  <1>2. CASE Patch
    <2>1. pc \in Before /\ pc' = "reset" /\ writes' = writes /\ pass' = NewPass(1, "baseline")
      BY <1>2 DEF Patch, Before
    <2>2. writes = Empty /\ writes' = Empty
      BY <2>1 DEF WritesOwned
    <2>3. plan'.runs = plan.runs /\ plan.runs \in Nat \ {0}
      BY <1>2, MostRuns DEF Patch, Typed, PlanMade, PlanParts, Before
    <2>4. pass'.run = 1 /\ pass'.kind = "baseline" /\ pass'.late = Empty
      BY <2>1, <2>2 DEF NewPass
    <2> QED BY <2>1, <2>2, <2>3, <2>4 DEF WritesOwned, Before, Empty
  <1>3. CASE ResetStore
    <2>1. pc = "reset" /\ pc' = "turn" /\ UNCHANGED <<plan, pass, writes>>
      BY <1>3 DEF ResetStore
    <2>2. stale' \/ facts'[Store] = Empty
      BY <1>0, <1>3 DEF ResetStore, Stores
    <2>3. Store' = Store
      BY <2>1 DEF Store
    <2>4. pass.kind = "sieve" => \A o \in Owners \ {pass.run} : writes[o] <= pass.late[o]
      BY <2>1 DEF WritesOwned, Passing
    <2>5. ~stale' => \A o \in Owners : facts'[Store][o] + writes[o] = writes[o]
      BY <1>0, <2>2 DEF Empty
    <2> QED BY <2>1, <2>3, <2>4, <2>5 DEF WritesOwned, Before, Passing
  <1>4. CASE AnswerTurn \/ FailTurn
    <2>1. pc = "turn" /\ UNCHANGED <<pc, plan, facts, stale>>
      BY <1>4 DEF AnswerTurn, FailTurn
    <2>2. pass'.run = pass.run /\ pass'.kind = pass.kind /\ pass'.late = pass.late
      BY <1>0, <1>4 DEF AnswerTurn, FailTurn, GradeTurn, PassType
    <2>3. \A o \in Owners : writes'[o] = writes[o] \/ (pass.kind = "sieve" /\ o = pass.run)
      <3>1. CASE pass.kind = "sieve"
        <4>1. MayLearn(pass.run, Script(plan.turns)[pass.turn])
          BY <1>4, <3>1 DEF AnswerTurn, FailTurn
        <4> QED BY <3>1, <4>1, Learns
      <3>2. CASE pass.kind # "sieve"
        BY <1>4, <3>2 DEF AnswerTurn, FailTurn
      <3> QED BY <3>1, <3>2
    <2>4. Store' = Store
      BY <2>1 DEF Store
    <2>5. pass.run \in 1..pass.run
      BY <1>0, <2>1 DEF WritesOwned, Passing
    <2> QED BY <2>1, <2>2, <2>3, <2>4, <2>5 DEF WritesOwned, Before, Passing
  <1>5. CASE EndPass
    <2>1. /\ pc = "turn" /\ pc' \in {"reset", "report"} /\ UNCHANGED <<plan, writes>>
          /\ pass.run \in 1..plan.runs
          /\ \A o \in Owners \ (1..pass.run) : writes[o] = 0 /\ pass.late[o] = 0
      BY <1>5 DEF EndPass, Beginning, WritesOwned, Passing
    <2>3. CASE pass.kind = "baseline"
      <3>1. pass'.run = pass.run /\ pass'.kind = "sieve" /\ pass'.late = writes
        BY <1>5, <2>3 DEF EndPass, NewPass
      <3>2. \A o \in Owners : writes[o] <= writes[o]
        BY <1>0
      <3> QED BY <2>1, <3>1, <3>2 DEF WritesOwned, Before, Passing
    <2>4. CASE pass.kind # "baseline" /\ pass.run < plan.runs
      <3>1. pass'.run = pass.run + 1 /\ pass'.kind = "baseline" /\ pass'.late = writes
        BY <1>5, <2>4 DEF EndPass, NewPass
      <3>2. plan.runs \in Nat
        BY <2>1, MostRuns DEF Typed, PlanMade, Passing
      <3>3. pass.run + 1 \in 1..plan.runs /\ 1..pass.run \subseteq 1..(pass.run + 1)
        BY <1>0, <2>4, <3>2
      <3> QED BY <2>1, <3>1, <3>3 DEF WritesOwned, Before, Passing
    <2>5. CASE pass.kind # "baseline" /\ ~(pass.run < plan.runs)
      <3>1. pass' = pass /\ pc' = "report"
        BY <1>5, <2>5 DEF EndPass
      <3>2. pass.kind = "sieve" => \A o \in Owners \ {pass.run} : writes[o] <= pass.late[o]
        BY <2>1 DEF WritesOwned, Passing
      <3> QED BY <2>1, <3>1, <3>2 DEF WritesOwned, Before, Passing
    <2> QED BY <2>3, <2>4, <2>5
  <1>6. CASE Report \/ BreakOff
    BY <1>6 DEF Report, BreakOff, WritesOwned, Before, Passing
  <1>7. CASE WriteLands
    <2>1. PICK run \in Owners :
            /\ writes[run] > 0 /\ writes' = [writes EXCEPT ![run] = @ - 1]
            /\ facts' = [facts EXCEPT ![Store][run] = @ + 1]
      BY <1>7 DEF WriteLands
    <2>2. UNCHANGED <<pc, plan, pass, stale>>
      BY <1>7 DEF WriteLands
    <2>3. \A o \in Owners : /\ writes'[o] = IF o = run THEN writes[o] - 1 ELSE writes[o]
                            /\ writes'[o] <= writes[o]
                            /\ writes[o] = 0 => writes'[o] = 0
      BY <1>0, <2>1
    <2>4. \A o \in Owners : facts'[Store][o] = IF o = run THEN facts[Store][o] + 1
                                                         ELSE facts[Store][o]
      <3>1. facts'[Store] = [facts[Store] EXCEPT ![run] = @ + 1]
        BY <1>0, <2>1 DEF Stores
      <3> QED BY <1>0, <3>1
    <2>5. \A o \in Owners : facts'[Store][o] + writes'[o] = facts[Store][o] + writes[o]
      <3> SUFFICES ASSUME NEW o \in Owners
                   PROVE  facts'[Store][o] + writes'[o] = facts[Store][o] + writes[o]
        OBVIOUS
      <3>1. facts[Store][o] \in Nat /\ writes[o] \in Nat
        BY <1>0
      <3> QED BY <3>1, <2>3, <2>4
    <2>6. pc \notin Before
      BY <2>1 DEF WritesOwned, Empty
    <2>7. \A o \in Owners : writes[o] <= pass.late[o] => writes'[o] <= pass.late[o]
      <3> SUFFICES ASSUME NEW o \in Owners, writes[o] <= pass.late[o]
                   PROVE  writes'[o] <= pass.late[o]
        OBVIOUS
      <3>1. writes[o] \in Nat /\ pass.late[o] \in Nat
        BY <1>0
      <3> QED BY <3>1, <2>3
    <2>8. Store' = Store
      BY <2>2 DEF Store
    <2> QED BY <2>2, <2>3, <2>5, <2>6, <2>7, <2>8 DEF WritesOwned
  <1>8. CASE Demonstrate
    <2>1. pc' \in Demoing \cup {"over"}
      BY <1>8 DEF Demonstrate, DemoCommand, DemoBegin, DemoAsk, DemoFail, DemoCount, Demoing
    <2> QED BY <2>1 DEF Demoing, Before, Passing, WritesOwned
  <1>9. CASE UNCHANGED benchmarkVars
    BY <1>9 DEF benchmarkVars, WritesOwned, Store
  <1> QED BY <1>1, <1>2, <1>3, <1>4, <1>5, <1>6, <1>7, <1>8, <1>9 DEF BenchmarkNext, Measure

(* After a reset that succeeded the Sieve pass of a run finds in the store *)
(* nothing of the user's and, besides what that run has taught it, at most *)
(* what the runs before had still to write when the pass began.            *)
THEOREM CleanStartAlways == BenchmarkSpec => []CleanStart
  <1>1. BenchmarkInit => Typed /\ WritesOwned
    BY TypedInit, CleanInit
  <1>2. Typed /\ WritesOwned /\ [BenchmarkNext]_benchmarkVars => (Typed /\ WritesOwned)'
    BY TypedStep, CleanStep
  <1>3. Typed /\ WritesOwned => CleanStart
    <2> SUFFICES ASSUME Typed, WritesOwned, pc = "turn", pass.kind = "sieve", ~stale
                 PROVE  /\ facts[Store][0] = 0
                        /\ \A o \in Owners \ {pass.run} : facts[Store][o] <= pass.late[o]
      BY DEF CleanStart
    <2>1. /\ facts[Store] \in [Owners -> Nat] /\ writes \in [Owners -> Nat]
          /\ pass.late \in [Owners -> Nat]
      BY StoreTyped DEF Typed, PassType
    <2>2. \A o \in Owners \ {pass.run} : facts[Store][o] + writes[o] <= pass.late[o]
      BY DEF WritesOwned
    <2>3. \A o \in Owners \ {pass.run} : facts[Store][o] <= pass.late[o]
      <3> SUFFICES ASSUME NEW o \in Owners \ {pass.run}
                   PROVE  facts[Store][o] <= pass.late[o]
        OBVIOUS
      <3>1. facts[Store][o] \in Nat /\ writes[o] \in Nat /\ pass.late[o] \in Nat
        BY <2>1
      <3> QED BY <2>2, <3>1
    <2>4. 0 \in Owners /\ 0 \notin 1..pass.run /\ 0 # pass.run
      <3>1. pass.run \in 1..plan.runs
        BY DEF WritesOwned, Passing
      <3> QED BY <3>1, MostRuns DEF Owners
    <2>5. pass.late[0] = 0 /\ facts[Store][0] \in Nat
      BY <2>1, <2>4 DEF WritesOwned, Passing
    <2> QED BY <2>3, <2>4, <2>5
  <1> QED BY <1>1, <1>2, <1>3, PTL DEF BenchmarkSpec

-----------------------------------------------------------------------------
(***************************************************************************)
(* The numbers.  Turns are graded in order, so the questions a pass has    *)
(* counted are those of the script's expectations it has come past, less   *)
(* what failed; and every pass goes over the same script.                  *)
(***************************************************************************)
Expects(k) == Cardinality({i \in 1..k : Graded(i)})
Full == Expects(Len(Script(plan.turns)))

Tallied(r, asked) ==
    /\ r.correct <= r.graded /\ r.graded <= asked
    /\ ~r.failed => r.graded = asked

GradedOnce ==
    /\ pc \in Before => results = <<>>
    /\ pc \in Passing =>
         /\ pass.turn - 1 <= Len(Script(plan.turns))
         /\ Tallied(pass, Expects(pass.turn - 1))
         /\ \A i \in 1..Len(results) : Tallied(results[i], Full)

LEMMA ScriptLength == ASSUME NEW n \in Nat PROVE Len(Script(n)) \in Nat
  <1> DEFINE size == Max({3, n})
             body == SelectSeq(Messages, LAMBDA m : m # "trap")
             deep == SelectSeq(Messages, LAMBDA m : m = "deep")
             at(i) == IF i = size THEN "trap"
                      ELSE IF i <= Len(body) THEN body[i]
                      ELSE deep[1 + ((i - Len(body) - 1) % Len(deep))]
  <1>1. size \in Nat
    BY MaxOfTwo
  <1>2. Script(n) = [i \in 1..size |-> at(i)]
    BY Zenon DEF Script
  <1> HIDE DEF size, at
  <1> QED BY <1>1, <1>2

LEMMA NoneAsked == Expects(0) = 0
  <1>1. {i \in 1..0 : Graded(i)} = {}
    OBVIOUS
  <1> QED BY <1>1, FS_EmptySet DEF Expects

LEMMA OneMoreAsked ==
    ASSUME NEW k \in Nat \ {0}
    PROVE  /\ Expects(k) \in Nat /\ Expects(k - 1) \in Nat
           /\ Expects(k) = Expects(k - 1) + IF Graded(k) THEN 1 ELSE 0
  <1> DEFINE T(j) == {i \in 1..j : Graded(i)}
  <1>1. \A j \in Nat : IsFiniteSet(T(j)) /\ Cardinality(T(j)) \in Nat
    <2> SUFFICES ASSUME NEW j \in Nat PROVE IsFiniteSet(T(j)) /\ Cardinality(T(j)) \in Nat
      OBVIOUS
    <2>1. IsFiniteSet(1..j) /\ T(j) \in SUBSET (1..j)
      BY FS_Interval
    <2> HIDE DEF T
    <2> QED BY <2>1, FS_Subset, FS_CardinalityType
  <1>2. k \notin T(k - 1) /\ T(k) = IF Graded(k) THEN T(k - 1) \cup {k} ELSE T(k - 1)
    OBVIOUS
  <1>3. k - 1 \in Nat
    OBVIOUS
  <1>4. Expects(k) = Cardinality(T(k)) /\ Expects(k - 1) = Cardinality(T(k - 1))
    BY DEF Expects
  <1> HIDE DEF T
  <1>5. Cardinality(T(k - 1) \cup {k}) = Cardinality(T(k - 1)) + 1
    BY <1>1, <1>2, <1>3, FS_AddElement
  <1> QED BY <1>1, <1>2, <1>3, <1>4, <1>5

LEMMA FreshPass ==
    ASSUME NEW run, NEW kind
    PROVE  /\ NewPass(run, kind).turn = 1
           /\ Tallied(NewPass(run, kind), Expects(NewPass(run, kind).turn - 1))
  BY NoneAsked DEF NewPass, Tallied

LEMMA GradeStep ==
    ASSUME Typed, GradedOnce, pc = "turn", AnswerTurn \/ FailTurn
    PROVE  /\ Tallied(pass', Expects(pass'.turn - 1))
           /\ pass'.turn - 1 <= Len(Script(plan.turns))
  <1>1. /\ pass \in PassType /\ pass.turn \in Nat \ {0} /\ pass.graded \in Nat
        /\ pass.correct \in Nat
    BY DEF Typed, PassType
  <1>2. Tallied(pass, Expects(pass.turn - 1))
    BY DEF GradedOnce, Passing
  <1>3. /\ Expects(pass.turn) \in Nat /\ Expects(pass.turn - 1) \in Nat
        /\ Expects(pass.turn) = Expects(pass.turn - 1) + IF Graded(pass.turn) THEN 1 ELSE 0
    BY <1>1, OneMoreAsked
  <1>4. pass.turn <= Len(Script(plan.turns))
    BY DEF AnswerTurn, FailTurn
  <1>5. CASE AnswerTurn
    <2>1. PICK right \in BOOLEAN : pass' = GradeTurn(right)
      BY <1>5 DEF AnswerTurn
    <2>2. /\ pass'.turn = pass.turn + 1 /\ pass'.failed = pass.failed
          /\ pass'.graded = pass.graded + IF Graded(pass.turn) THEN 1 ELSE 0
          /\ pass'.correct = pass.correct + IF Graded(pass.turn) /\ right THEN 1 ELSE 0
      BY <1>1, <2>1 DEF GradeTurn, PassType
    <2>3. pass'.turn - 1 = pass.turn
      BY <1>1, <2>2
    <2> QED BY <1>1, <1>2, <1>3, <1>4, <2>2, <2>3 DEF Tallied
  <1>6. CASE FailTurn
    <2>1. /\ pass'.turn = pass.turn + 1 /\ pass'.failed /\ pass'.graded = pass.graded
          /\ pass'.correct = pass.correct
      BY <1>1, <1>6 DEF FailTurn, PassType
    <2>2. pass'.turn - 1 = pass.turn
      BY <1>1, <2>1
    <2> QED BY <1>1, <1>2, <1>3, <1>4, <2>1, <2>2 DEF Tallied
  <1> QED BY <1>5, <1>6

LEMMA GradedInit == BenchmarkInit => GradedOnce
  BY DEF BenchmarkInit, GradedOnce, Passing

LEMMA GradedStep ==
    ASSUME Typed, GradedOnce, [BenchmarkNext]_benchmarkVars
    PROVE  GradedOnce'
  <1> USE DEF Continue, End, Asked
  <1>0. pass \in PassType /\ results \in Seq(Result) /\ Len(results) \in Nat
        /\ Len(Script(plan.turns)) \in Nat
    <2>1. plan.turns \in Nat
      BY DEF Typed, PlanMade
    <2>2. Len(Script(plan.turns)) \in Nat
      BY <2>1, ScriptLength
    <2> QED BY <2>2 DEF Typed
  <1>1. CASE Ask
    <2>1. pc \in Before /\ pc' \in Before \cup {"over"} /\ results' = results
      BY <1>1, AskSteps DEF Untouched
    <2> QED BY <2>1 DEF GradedOnce, Before, Passing
  <1>2. CASE Patch
    <2>1. pc \in Before /\ pc' = "reset" /\ results' = results /\ pass' = NewPass(1, "baseline")
      BY <1>2 DEF Patch, Before
    <2>2. results' = <<>> /\ Len(results') = 0
      BY <2>1 DEF GradedOnce
    <2>3. plan'.turns = plan.turns
      BY <1>2 DEF Patch, Typed, PlanMade, PlanParts
    <2>4. pass'.turn = 1 /\ Tallied(pass', Expects(pass'.turn - 1))
      BY <2>1, FreshPass
    <2> QED BY <1>0, <2>1, <2>2, <2>3, <2>4 DEF GradedOnce, Before
  <1>3. CASE ResetStore
    <2>1. pc = "reset" /\ pc' = "turn" /\ UNCHANGED <<plan, pass, results>>
      BY <1>3 DEF ResetStore
    <2> QED BY <2>1 DEF GradedOnce, Before, Passing, Full
  <1>4. CASE AnswerTurn \/ FailTurn
    <2>1. pc = "turn" /\ UNCHANGED <<pc, plan, results>>
      BY <1>4 DEF AnswerTurn, FailTurn
    <2>2. /\ Tallied(pass', Expects(pass'.turn - 1))
          /\ pass'.turn - 1 <= Len(Script(plan.turns))
      BY <1>4, <2>1, GradeStep
    <2> QED BY <2>1, <2>2 DEF GradedOnce, Before, Passing, Full
  <1>5. CASE EndPass
    <2>1. /\ pc = "turn" /\ pc' \in {"reset", "report"} /\ UNCHANGED plan
          /\ pass.turn > Len(Script(plan.turns))
      BY <1>5 DEF EndPass, Beginning
    <2> DEFINE r == [graded |-> pass.graded, correct |-> pass.correct, failed |-> pass.failed]
    <2>2. results' = Append(results, r)
      BY <1>5 DEF EndPass
    <2>3. pass.turn - 1 = Len(Script(plan.turns))
      <3>1. pass.turn \in Nat
        BY <1>0 DEF PassType
      <3>2. pass.turn - 1 <= Len(Script(plan.turns))
        BY <2>1 DEF GradedOnce, Passing
      <3> QED BY <1>0, <2>1, <3>1, <3>2
    <2>4. Tallied(r, Full)
      BY <2>1, <2>3 DEF GradedOnce, Passing, Tallied, Full
    <2>5. ASSUME NEW i \in 1..Len(results') PROVE Tallied(results'[i], Full)
      <3> HIDE DEF r
      <3>1. CASE i = Len(results) + 1
        BY <1>0, <2>2, <2>4, <3>1
      <3>2. CASE i # Len(results) + 1
        <4>1. i \in 1..Len(results) /\ results'[i] = results[i]
          BY <1>0, <2>2, <3>2
        <4> QED BY <2>1, <4>1 DEF GradedOnce, Passing
      <3> QED BY <3>1, <3>2
    <2>6. /\ pass'.turn - 1 <= Len(Script(plan.turns))
          /\ Tallied(pass', Expects(pass'.turn - 1))
      <3>1. \/ pass' = NewPass(pass.run, "sieve") \/ pass' = NewPass(pass.run + 1, "baseline")
            \/ pass' = pass
        BY <1>5 DEF EndPass
      <3>2. CASE pass' = pass
        BY <2>1, <3>2 DEF GradedOnce, Passing
      <3>3. CASE pass' # pass
        <4>1. PICK run, kind : pass' = NewPass(run, kind)
          BY <3>1, <3>3
        <4>2. pass'.turn = 1 /\ Tallied(pass', Expects(pass'.turn - 1))
          BY <4>1, FreshPass
        <4> QED BY <1>0, <4>2
      <3> QED BY <3>2, <3>3
    <2>7. pc' \in Passing /\ pc' \notin Before /\ plan' = plan
      BY <2>1 DEF Before, Passing
    <2> QED BY <2>5, <2>6, <2>7 DEF GradedOnce, Full
  <1>6. CASE Report \/ BreakOff
    BY <1>6 DEF Report, BreakOff, GradedOnce, Before, Passing
  <1>7. CASE WriteLands
    BY <1>7 DEF WriteLands, GradedOnce, Full
  <1>8. CASE Demonstrate
    <2>1. pc' \in Demoing \cup {"over"}
      BY <1>8 DEF Demonstrate, DemoCommand, DemoBegin, DemoAsk, DemoFail, DemoCount, Demoing
    <2> QED BY <2>1 DEF Demoing, Before, Passing, GradedOnce
  <1>9. CASE UNCHANGED benchmarkVars
    BY <1>9 DEF benchmarkVars, GradedOnce, Full
  <1> QED BY <1>1, <1>2, <1>3, <1>4, <1>5, <1>6, <1>7, <1>8, <1>9 DEF BenchmarkNext, Measure

LEMMA HeadlineHolds ==
    ASSUME Typed, GradedOnce PROVE HeadlineSound
  <1> SUFFICES ASSUME pc = "report", ~SievePass(1).failed, NEW run \in Reported
               PROVE  /\ SievePass(run).correct <= GradableRecalls
                      /\ AllRecallsPerfect => SievePass(run).correct = SievePass(run).graded
    BY Zenon DEF HeadlineSound
  <1>1. Len(results) \in Nat /\ 2 \in 1..Len(results) /\ 2 * run \in 1..Len(results)
    <2>1. Len(results) \in Nat
      BY DEF Typed
    <2> QED BY <2>1 DEF Reported
  <1>2. \A i \in 1..Len(results) :
          /\ Tallied(results[i], Full)
          /\ results[i].graded \in Nat /\ results[i].correct \in Nat
    <2>1. \A i \in 1..Len(results) : results[i] \in Result
      BY DEF Typed
    <2> QED BY <2>1 DEF GradedOnce, Passing, Result
  <1>3. Full \in Nat
    <2>1. results[2].graded = Full
      BY <1>1, <1>2 DEF Tallied, SievePass
    <2> QED BY <1>1, <1>2, <2>1
  <1>4. GradableRecalls = Full
    BY <1>1, <1>2 DEF Tallied, SievePass, GradableRecalls
  <1>5. SievePass(run).correct <= SievePass(run).graded /\ SievePass(run).graded <= Full
    BY <1>1, <1>2 DEF Tallied, SievePass
  <1>6. AllRecallsPerfect => SievePass(run).correct = Full
    BY <1>4 DEF AllRecallsPerfect
  <1> QED BY <1>1, <1>2, <1>3, <1>4, <1>5, <1>6 DEF SievePass

(* With no failed turn in the first Sieve pass a report counts no more     *)
(* right answers than questions, and calls the recall perfect only when    *)
(* every run answered all of its questions.                                *)
THEOREM HeadlineSoundAlways == BenchmarkSpec => []HeadlineSound
  <1>1. BenchmarkInit => Typed /\ GradedOnce
    BY TypedInit, GradedInit
  <1>2. Typed /\ GradedOnce /\ [BenchmarkNext]_benchmarkVars => (Typed /\ GradedOnce)'
    BY TypedStep, GradedStep
  <1>3. Typed /\ GradedOnce => HeadlineSound
    BY HeadlineHolds
  <1> QED BY <1>1, <1>2, <1>3, PTL DEF BenchmarkSpec

-----------------------------------------------------------------------------
(***************************************************************************)
(* The demo: what it has counted lies between where it began and where the *)
(* message under way found the store.                                      *)
(***************************************************************************)
DemoApart ==
    /\ pc = "begin" => demo.learned = 0
    /\ pc = "wait" /\ demo.polls =>
         demo.before <= Count /\ demo.learned <= demo.before - demo.start

LEMMA CountGrows ==
    ASSUME Typed, WriteLands PROVE Count' = Count + 1
  <1>1. PICK run \in Owners : facts' = [facts EXCEPT ![Store][run] = @ + 1]
    BY DEF WriteLands
  <1>2. Store' = Store
    BY DEF WriteLands, Asked, Store
  <1>3. facts[Store] \in [Owners -> Nat] /\ Store \in {"main", "sandbox"} /\ facts \in Stores
    BY StoreTyped DEF Typed
  <1>4. facts'[Store] = [facts[Store] EXCEPT ![run] = @ + 1]
    BY <1>1, <1>3 DEF Stores
  <1>5. Total([facts[Store] EXCEPT ![run] = @ + 1]) = Total(facts[Store]) + 1
    BY <1>3, TotalGrows
  <1> QED BY <1>2, <1>4, <1>5 DEF Count

LEMMA DemoInit == BenchmarkInit => DemoApart /\ DemoCountsOnce
  BY DEF BenchmarkInit, DemoApart, DemoCountsOnce

LEMMA DemoStep ==
    ASSUME Typed, DemoApart, DemoCountsOnce, [BenchmarkNext]_benchmarkVars
    PROVE  DemoApart' /\ DemoCountsOnce'
  <1> USE DEF Continue, End, Asked
  <1>0. /\ demo \in DemoType /\ demo.learned \in Nat /\ demo.start \in Nat /\ demo.before \in Nat
        /\ Count \in Nat
    BY CountTyped DEF Typed, DemoType
  <1>1. CASE Ask
    <2>1. pc' \in Before \cup {"over"}
      BY <1>1, AskSteps
    <2> QED BY <2>1 DEF DemoApart, DemoCountsOnce, Before
  <1>2. CASE Measure \/ BreakOff
    <2>1. CASE AnswerTurn \/ FailTurn \/ ResetStore \/ Patch \/ EndPass
      BY <2>1 DEF AnswerTurn, FailTurn, ResetStore, Patch, EndPass, Beginning, DemoApart,
         DemoCountsOnce
    <2>2. CASE Report \/ BreakOff
      BY <2>2 DEF Report, BreakOff, DemoApart, DemoCountsOnce
    <2> QED BY <1>2, <2>1, <2>2 DEF Measure
  <1>3. CASE WriteLands
    <2>1. Count' = Count + 1 /\ UNCHANGED <<pc, demo>>
      BY <1>3, CountGrows DEF WriteLands
    <2> QED BY <1>0, <2>1 DEF DemoApart, DemoCountsOnce
  <1>4. CASE DemoCommand
    <2>1. CASE pc' = "over"
      BY <2>1 DEF DemoApart, DemoCountsOnce
    <2>2. CASE pc' # "over"
      <3>1. PICK main, polls \in BOOLEAN : demo' = NewDemo(polls) /\ pc' = "begin"
        BY <1>4, <2>2 DEF DemoCommand
      <3>2. demo'.learned = 0
        BY <3>1 DEF NewDemo
      <3> QED BY <3>1, <3>2 DEF DemoApart, DemoCountsOnce
    <2> QED BY <2>1, <2>2
  <1>5. CASE DemoBegin
    <2>1. /\ pc = "begin" /\ pc' = "ask" /\ UNCHANGED <<plan, facts>>
          /\ demo' = [demo EXCEPT !.start = FactCount]
      BY <1>5 DEF DemoBegin, Apart
    <2>2. Count' = Count /\ demo'.learned = 0 /\ demo'.polls = demo.polls /\ demo'.start = FactCount
      BY <1>0, <2>1 DEF Count, Store, DemoApart, DemoType
    <2> QED BY <1>0, <2>1, <2>2 DEF DemoApart, DemoCountsOnce, FactCount
  <1>6. CASE DemoAsk \/ DemoFail
    <2>1. CASE pc' = "over"
      BY <2>1 DEF DemoApart, DemoCountsOnce
    <2>2. CASE pc' # "over"
      <3>1. pc = "ask" /\ pc' = "wait" /\ UNCHANGED <<plan, facts>>
        BY <1>6, <2>2 DEF DemoAsk, DemoFail, Apart
      <3>2. /\ demo'.before = FactCount /\ demo'.learned = demo.learned
            /\ demo'.polls = demo.polls /\ demo'.start = demo.start
        BY <1>0, <1>6 DEF DemoAsk, DemoFail, DemoType
      <3>3. Count' = Count
        BY <3>1 DEF Count, Store
      <3> QED BY <1>0, <3>1, <3>2, <3>3 DEF DemoApart, DemoCountsOnce, FactCount
    <2> QED BY <2>1, <2>2
  <1>7. CASE DemoCount
    <2>1. CASE pc' = "over"
      BY <2>1 DEF DemoApart, DemoCountsOnce
    <2>2. CASE pc' # "over"
      <3>1. pc = "wait" /\ pc' = "ask" /\ UNCHANGED <<plan, facts>>
        BY <1>7, <2>2 DEF DemoCount
      <3> DEFINE more == IF demo.turn \in Shares THEN Max({0, FactCount - demo.before}) ELSE 0
      <3>2. /\ demo'.learned = demo.learned + more /\ demo'.polls = demo.polls
            /\ demo'.start = demo.start
        BY <1>0, <1>7 DEF DemoCount, DemoType
      <3>3. Count' = Count
        BY <3>1 DEF Count, Store
      <3>4. ASSUME demo.polls PROVE more \in Nat /\ more <= Count - demo.before
        <4>1. demo.before <= Count /\ FactCount = Count /\ FactCount - demo.before \in Int
          BY <1>0, <3>1, <3>4 DEF DemoApart, FactCount
        <4>2. Max({0, FactCount - demo.before}) = FactCount - demo.before
          BY <1>0, <4>1, MaxOfTwo
        <4> QED BY <1>0, <4>1, <4>2
      <3> HIDE DEF more
      <3> QED BY <1>0, <3>1, <3>2, <3>3, <3>4 DEF DemoApart, DemoCountsOnce
    <2> QED BY <2>1, <2>2
  <1>8. CASE UNCHANGED benchmarkVars
    BY <1>8 DEF benchmarkVars, DemoApart, DemoCountsOnce, Count, Store
  <1> QED BY <1>1, <1>2, <1>3, <1>4, <1>5, <1>6, <1>7, <1>8 DEF BenchmarkNext, Demonstrate

(* The demo never reports more new facts than the store has gained since   *)
(* the demo began.                                                         *)
THEOREM DemoCountsOnceAlways == BenchmarkSpec => []DemoCountsOnce
  <1>1. BenchmarkInit => Typed /\ DemoApart /\ DemoCountsOnce
    BY TypedInit, DemoInit
  <1>2. Typed /\ DemoApart /\ DemoCountsOnce /\ [BenchmarkNext]_benchmarkVars
          => (Typed /\ DemoApart /\ DemoCountsOnce)'
    BY TypedStep, DemoStep
  <1> QED BY <1>1, <1>2, PTL DEF BenchmarkSpec
=============================================================================
