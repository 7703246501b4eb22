------------------------- MODULE InstallationProofs -------------------------
(***************************************************************************)
(* Proofs about the commands that install and remove Sieve, for any number *)
(* of commands, signals and failing calls of systemctl: what a failed      *)
(* install undoes, what it keeps, and that no service is left over a       *)
(* machine without a configuration.  The invariant follows an install from *)
(* place to place: the hooks it has registered, what it has done that they *)
(* undo, and in a rollback what is still to be undone.  Of the other       *)
(* commands it says that they enable nothing, and remove the configuration *)
(* only when no unit file is left.                                         *)
(***************************************************************************)
EXTENDS Installation, SequenceTheorems, TLAPS

Questions == {"provider", "lan", "model", "writer", "autostart", "startnow", "confirm"}
Unhooked  == {"idle", "check", "write"} \cup Questions
Hooked    == {"embed", "store", "unit", "reload", "enable", "registerUnit",
              "status", "disable", "unlink"}
Loaded    == {"unit", "reload", "enable", "registerUnit", "status", "disable", "unlink",
              "start", "clear", "panel"}
Edits     == {"set", "reset", "edit"}

One  == <<"removeYaml">>
Both == <<"removeYaml", "disable">>
Back == <<"disable", "removeYaml">>
HookLists == {<<>>, One, Both}
UndoLists == {<<>>, One, Back}

\* The places, one by one, and what else a command may have been hit by.
Spots == {"idle", "over", "check", "rollback", "wipe", "provider", "lan", "model", "writer",
          "autostart", "startnow", "confirm", "write", "text", "register", "embed", "store", "unit",
          "reload", "enable", "registerUnit", "status", "disable", "unlink", "start", "clear",
          "panel", "set", "reset", "edit", "truncate", "raw", "validate"}
Causes == Spots \cup {"kill"}
Answers == {"none", "probed", "taken"}
UnitState == [file : BOOLEAN, enabled : BOOLEAN]
Run == [kind : Commands, at : Spots, input : BOOLEAN, agreed : Answers,
        autostart : BOOLEAN, hooks : HookLists, todo : UndoLists, wrote : BOOLEAN,
        enabled : BOOLEAN, missed : SUBSET Calls, failed : BOOLEAN, cut : SUBSET Causes,
        began : [config : Texts \cup {"none"}, loads : BOOLEAN, unit : UnitState]]

\* The types of the variables.
TypeInv ==
    /\ config \in Texts \cup {"none"}
    /\ unit \in UnitState
    /\ run \in Run
    /\ faults \in Nat

\* Where each command can be.
PlaceOf ==
    /\ run.kind = "install" => run.at \in Unhooked \cup Hooked \cup
                                   {"text", "register", "start", "clear", "panel", "rollback",
                                    "over"}
    /\ run.kind = "uninstall" => run.at \in {"status", "disable", "unlink", "wipe", "over"}
    /\ run.kind = "init" => run.at \in {"embed", "write", "text", "store", "over"}
    /\ run.kind \in Edits => run.at \in Edits \cup {"truncate", "raw", "validate", "over"}

\* What an install has registered by the place it has come to.
Hooks ==
    /\ run.at \in Unhooked \cup {"text", "register", "panel"} => run.hooks = <<>>
    /\ run.at \in Hooked => run.hooks = One
    /\ run.at \in {"start", "clear"} =>
         run.hooks = IF run.enabled THEN Both ELSE One

\* The service is gone as far as systemctl did its part.
Undone == /\ "probe" \notin run.missed => ~unit.file
          /\ unit.enabled => run.missed \cap {"probe", "disable"} # {}

\* What it has done: the configuration and the unit are those it found, those
\* it wrote, or gone because a signal undid them in the start step.
Done ==
    /\ run.at \in Unhooked =>
         /\ config = run.began.config /\ unit = run.began.unit
         /\ ~run.wrote /\ ~run.enabled
    /\ run.at \in Unhooked => (run.began.loads <=> Loads)
    /\ run.at \in Loaded => Loads
    /\ run.at \in Hooked \cup {"register", "start"} => config = "good"
    /\ run.at \in (Hooked \ {"registerUnit"}) \cup {"text", "register"} => ~run.enabled
    /\ run.at \in {"reload", "enable"} => unit.file
    /\ run.at = "registerUnit" => run.enabled
    /\ run.at \in {"registerUnit", "start"} /\ run.enabled => unit.file
    /\ run.at \in {"clear", "panel"} => \/ config = "good" /\ (run.enabled => unit.file)
                                        \/ config = "none" /\ (run.enabled => Undone)
    /\ ~run.enabled /\ unit.enabled => run.began.unit.enabled \/ "enable" \in run.missed
    /\ run.at \notin {"rollback", "over"} => ~run.failed

Clean == run.cut \cap {"text", "register", "registerUnit", "rollback", "panel", "kill"} = {}

\* What is still to be undone.
Undoing ==
    /\ run.at = "rollback" /\ Clean =>
         /\ run.wrote => run.todo # <<>> \/ config = "none"
         /\ run.enabled => run.todo = Back \/ Undone
    /\ run.at = "rollback" /\ Clean /\ run.todo = Back =>
         unit.file \/ Undone
    /\ run.cut \cap {"registerUnit", "rollback"} = {} /\ run.enabled /\ unit.file
       /\ "probe" \notin run.missed =>
         /\ run.at = "rollback" => run.todo # One
         /\ config # "none"
    /\ run.at = "over" /\ run.failed /\ Clean =>
         (run.wrote => config = "none") /\ (run.enabled => Undone)

\* What it found working is as it was.
Kept ==
    run.began.loads /\ run.began.config # "none" =>
        /\ run.at \in {"idle", "check", "rollback", "over"}
        /\ run.hooks = <<>> /\ run.todo = <<>> /\ ~run.wrote /\ ~run.enabled
        /\ config = run.began.config /\ unit = run.began.unit

\* The other commands enable nothing, and wipe when no unit file is left.
Others ==
    /\ unit.file /\ unit.enabled => run.began.unit.enabled
    /\ config = "none" /\ unit.file => run.began.config = "none"
    /\ run.at = "wipe" => ~unit.file

IInv ==
    /\ TypeInv /\ PlaceOf
    /\ run.kind = "install" => Hooks /\ Done /\ Undoing /\ Kept
    /\ run.kind # "install" => Others
-----------------------------------------------------------------------------
(* The lists of hooks.                                                     *)

LEMMA Lists ==
    /\ One # <<>> /\ Both # <<>> /\ Back # <<>> /\ One # Both /\ One # Back
    /\ Append(<<>>, "removeYaml") = One /\ Append(One, "disable") = Both
    /\ Head(One) = "removeYaml" /\ Tail(One) = <<>>
    /\ Head(Back) = "disable" /\ Tail(Back) = One
    /\ Reverse(<<>>) = <<>> /\ Reverse(One) = One /\ Reverse(Both) = Back
  <1>1. Reverse(<<>>) = <<>>
    BY DEF Reverse
  <1>2. Reverse(One) = One
    BY DEF Reverse, One
  <1>3. Reverse(Both) = Back
    BY DEF Reverse, Both, Back
  <1>4. /\ One # <<>> /\ Both # <<>> /\ Back # <<>>
    BY DEF One, Both, Back
  <1>6. Len(One) = 1 /\ Len(Both) = 2 /\ Len(Back) = 2
    BY DEF One, Both, Back
  <1>7. One # Both /\ One # Back
    BY <1>6
  <1>8. Append(One, "disable") = Both
    <2> DEFINE S == {"removeYaml", "disable"}
    <2>1. One \in Seq(S) /\ One[1] = "removeYaml" /\ Len(One) = 1 /\ "disable" \in S
      BY DEF One
    <2>2. Both \in Seq(S) /\ Len(Both) = 2 /\ Both[1] = "removeYaml" /\ Both[2] = "disable"
      BY DEF Both
    <2> HIDE DEF S
    <2>3. /\ Append(One, "disable") \in Seq(S) /\ Len(Append(One, "disable")) = Len(One) + 1
          /\ \A i \in 1..Len(One) : Append(One, "disable")[i] = One[i]
          /\ Append(One, "disable")[Len(One) + 1] = "disable"
      BY <2>1, AppendProperties, ZenonT(20)
    <2>4. \A i \in 1..2 : Append(One, "disable")[i] = Both[i]
      BY <2>1, <2>2, <2>3
    <2> QED BY <2>1, <2>2, <2>3, <2>4, SeqEqual
  <1>9. Append(<<>>, "removeYaml") = One
    <2>1. <<>> \in Seq({"removeYaml"}) /\ One \in Seq({"removeYaml"})
      BY EmptySeq DEF One
    <2>2. Append(<<>>, "removeYaml") = <<>> \o One
      BY <2>1, AppendIsConcat DEF One
    <2> QED BY <2>1, <2>2, ConcatEmptySeq
  <1>5. /\ Head(One) = "removeYaml" /\ Tail(One) = <<>>
        /\ Head(Back) = "disable" /\ Tail(Back) = One
    BY DEF One, Back
  <1> QED BY <1>1, <1>2, <1>3, <1>4, <1>5, <1>7, <1>8, <1>9

LEMMA ReverseHooks ==
    ASSUME NEW h \in HookLists
    PROVE  Reverse(h) \in UndoLists
  BY Lists DEF HookLists, UndoLists

\* A command as it begins.
LEMMA NewRunFacts ==
    ASSUME NEW kind \in Commands, NEW at \in Spots,
           config \in Texts \cup {"none"}, unit \in UnitState
    PROVE  /\ NewRun(kind, at) \in Run
           /\ NewRun(kind, at).kind = kind /\ NewRun(kind, at).at = at
           /\ NewRun(kind, at).hooks = <<>> /\ NewRun(kind, at).todo = <<>>
           /\ ~NewRun(kind, at).wrote /\ ~NewRun(kind, at).enabled
           /\ ~NewRun(kind, at).failed /\ NewRun(kind, at).cut = {}
           /\ NewRun(kind, at).missed = {}
           /\ NewRun(kind, at).began.config = config /\ NewRun(kind, at).began.unit = unit
           /\ NewRun(kind, at).began.loads <=> Loads
  <1>1. Loads \in BOOLEAN
    BY DEF Loads, LoadsInMode
  <1>2. [config |-> config, loads |-> Loads, unit |-> unit]
            \in [config : Texts \cup {"none"}, loads : BOOLEAN, unit : UnitState]
    BY <1>1
  <1> QED BY <1>2 DEF NewRun, Run, HookLists, UndoLists, Spots, Answers

LEMMA InitIInv == Init => IInv
  <1> SUFFICES ASSUME Init PROVE IInv
    OBVIOUS
  <1>1. config \in Texts \cup {"none"} /\ unit \in UnitState /\ faults \in Nat
    BY DEF Init, UnitState
  <1>2. run = NewRun("install", "idle") /\ "install" \in Commands
    BY DEF Init, Commands
  <1>3. /\ run \in Run /\ run.kind = "install" /\ run.at = "idle"
        /\ run.hooks = <<>> /\ run.todo = <<>> /\ ~run.wrote /\ ~run.enabled
        /\ ~run.failed /\ run.cut = {}
        /\ run.began.config = config /\ run.began.unit = unit
        /\ run.began.loads <=> Loads
    <2>1. "idle" \in Spots
      BY DEF Spots
    <2> QED BY <2>1, <1>1, <1>2, NewRunFacts
  <1>4. TypeInv /\ PlaceOf
    BY <1>1, <1>3 DEF TypeInv, PlaceOf, Unhooked, Edits
  <1>5. Hooks /\ Undoing
    BY <1>3 DEF Hooks, Undoing, Unhooked, Hooked
  <1>6. Done
    BY <1>3 DEF Done, Unhooked, Hooked, Loaded, Questions
  <1>7. Kept
    BY <1>3 DEF Kept
  <1> QED BY <1>3, <1>4, <1>5, <1>6, <1>7 DEF IInv

LEMMA BeginKeeps == ASSUME IInv, NEW kind \in Commands, Begin(kind) PROVE IInv'
  <1> DEFINE at == CASE kind = "install" -> "check" [] kind = "uninstall" -> "status"
                     [] kind = "init" -> "embed" [] OTHER -> kind
  <1>0. at \in Spots
    BY DEF Commands, Spots
  <1>1. run' = NewRun(kind, at) /\ UNCHANGED <<config, unit, host, faults>>
    BY DEF Begin, Files
  <1>2. config \in Texts \cup {"none"} /\ unit \in UnitState /\ faults \in Nat
    BY DEF IInv, TypeInv
  <1>3. Loads' = Loads
    BY <1>1 DEF Loads, LoadsInMode
  <1>4. /\ run' \in Run /\ run'.kind = kind /\ run'.at = at
        /\ run'.hooks = <<>> /\ run'.todo = <<>> /\ ~run'.wrote /\ ~run'.enabled
        /\ ~run'.failed /\ run'.cut = {}
        /\ run'.began.config = config /\ run'.began.unit = unit
        /\ run'.began.loads <=> Loads
    BY <1>0, <1>1, <1>2, NewRunFacts
  <1>5. /\ kind = "install" => at = "check"
        /\ kind = "uninstall" => at = "status"
        /\ kind = "init" => at = "embed"
        /\ kind \in Edits => at = kind
        /\ kind \in Edits \cup {"install", "uninstall", "init"}
    BY DEF Commands, Edits
  <1> HIDE DEF at
  <1>6. TypeInv' /\ PlaceOf'
    BY <1>1, <1>2, <1>4, <1>5 DEF TypeInv, PlaceOf, Unhooked, Edits
  <1>7. ASSUME kind = "install" PROVE Hooks' /\ Done' /\ Undoing' /\ Kept'
    <2>1. run'.at = "check"
      BY <1>4, <1>5, <1>7
    <2>2. Hooks' /\ Undoing' /\ Kept'
      BY <2>1, <1>1, <1>4 DEF Hooks, Undoing, Kept, Unhooked, Hooked
    <2>3. Done'
      BY <2>1, <1>1, <1>3, <1>4 DEF Done, Unhooked, Hooked, Loaded, Questions
    <2> QED BY <2>2, <2>3
  <1>8. kind # "install" => Others'
    BY <1>1, <1>4, <1>5 DEF Others, Edits
  <1> QED BY <1>4, <1>6, <1>7, <1>8 DEF IInv

-----------------------------------------------------------------------------
(* The questions of an install, and a failure.                             *)

\* What a step of an install carries over.
Carried == /\ run'.kind = run.kind /\ run'.hooks = run.hooks
           /\ run'.wrote = run.wrote /\ run'.enabled = run.enabled /\ run'.began = run.began
           /\ run.missed \subseteq run'.missed
Passed  == Carried /\ run'.todo = run.todo /\ run'.cut = run.cut /\ run'.failed = run.failed

LEMMA Quiet == UNCHANGED <<config, host>> => Loads' = Loads
  BY DEF Loads, LoadsInMode

LEMMA Asking1 ==
    ASSUME IInv, run.kind = "install", run.at \in Questions \cup {"check"},
           run.at = "check" => ~Installed,
           run' \in Run, Passed, run'.at \in Questions \cup {"write"},
           UNCHANGED <<config, unit, host, faults>>
    PROVE  IInv'
  <1>1. Loads' = Loads
    BY Quiet
  <1>2. TypeInv' /\ PlaceOf'
    BY DEF IInv, TypeInv, PlaceOf, Passed, Carried, Unhooked, Questions, Edits
  <1>3. Hooks' /\ Done'
    BY <1>1 DEF IInv, Hooks, Done, Passed, Carried, Unhooked, Hooked, Loaded, Questions
  <1>4. Undoing'
    BY DEF IInv, Undoing, Done, Passed, Carried, Unhooked, Questions
  <1>5. ~(run.began.loads /\ run.began.config # "none")
    BY DEF IInv, Kept, Done, Unhooked, Installed, Questions
  <1>6. Kept'
    BY <1>5 DEF Kept, Passed, Carried
  <1> QED BY <1>2, <1>3, <1>4, <1>6 DEF IInv, Passed, Carried

LEMMA FailKeeps ==
    ASSUME IInv, run.kind = "install", run.at \in Questions \cup {"embed", "store"},
           Fail, UNCHANGED <<config, unit, host, faults>>
    PROVE  IInv'
  <1> TypeInv
    BY DEF IInv
  <1>1. /\ run' \in Run /\ Carried /\ run'.cut = run.cut
        /\ run'.at = "rollback" /\ run'.todo = Reverse(run.hooks)
    BY ReverseHooks DEF Fail, TypeInv, Run, Carried, Spots
  <1>2. /\ run.at \in Questions => run.hooks = <<>> /\ ~run.wrote
        /\ run.at \notin Questions => run.hooks = One
        /\ ~run.enabled
    BY DEF IInv, Hooks, Done, Unhooked, Hooked, Questions
  <1>3. TypeInv' /\ PlaceOf'
    BY <1>1 DEF TypeInv, PlaceOf, Carried, Edits
  <1>4. Hooks' /\ Done'
    BY <1>1, <1>2 DEF IInv, Hooks, Done, Carried, Unhooked, Hooked, Loaded, Questions
  <1>5. Undoing'
    BY <1>1, <1>2, Lists DEF Undoing, Carried
  <1>6. Kept'
    BY <1>1 DEF IInv, Kept, Carried, Questions
  <1> QED BY <1>1, <1>3, <1>4, <1>5, <1>6 DEF IInv, Carried

LEMMA CheckKeeps == IInv /\ Check => IInv'
  <1> SUFFICES ASSUME IInv, Check PROVE IInv'
    OBVIOUS
  <1> TypeInv
    BY DEF IInv
  <1>0. /\ UNCHANGED <<config, unit, host, faults>> /\ run.at = "check"
        /\ run.kind = "install" /\ run.hooks = <<>> /\ ~run.wrote /\ ~run.enabled
    BY DEF Check, Files, World, IInv, PlaceOf, Hooks, Done, Unhooked, Edits, TypeInv, Run,
           Commands
  <1>1. /\ run' \in Run /\ Passed /\ run'.at = IF Installed THEN "over" ELSE "provider"
    BY DEF Check, TypeInv, Run, Passed, Carried, Spots
  <1>2. CASE ~Installed
    BY <1>0, <1>1, <1>2, Asking1 DEF Questions
  <1>3. CASE Installed
    <2>1. TypeInv' /\ PlaceOf'
      BY <1>0, <1>1, <1>3 DEF TypeInv, PlaceOf, Passed, Carried, Edits
    <2>2. Hooks' /\ Done'
      BY <1>0, <1>1, <1>3
      DEF IInv, Hooks, Done, Passed, Carried, Unhooked, Hooked, Loaded, Questions
    <2>3. Undoing' /\ Kept'
      BY <1>0, <1>1, <1>3 DEF IInv, Undoing, Kept, Passed, Carried
    <2> QED BY <1>0, <1>1, <2>1, <2>2, <2>3 DEF IInv, Passed, Carried
  <1> QED BY <1>2, <1>3

LEMMA AskKeeps == IInv /\ Ask => IInv'
  <1> SUFFICES ASSUME IInv, Ask PROVE IInv'
    OBVIOUS
  <1> TypeInv
    BY DEF IInv
  <1>1. run.at \in Questions /\ UNCHANGED <<config, unit, host, faults>>
    BY DEF Ask, UseOverride, AutoDetect, SetupCloud, SetupOpenAICompat, SetupOllama,
           PickLanOllama, SetupCustom, PickModel, PickWriter, PickAutostart, PickStartNow,
           Confirm, Asked, Files, World, Questions
  <1>2. run.kind = "install"
    BY <1>1 DEF IInv, PlaceOf, TypeInv, Run, Commands, Edits, Questions
  <1>3. CASE Fail
    BY <1>1, <1>2, <1>3, FailKeeps
  <1>4. CASE ~Fail
    <2>1. run' \in Run /\ Passed /\ run'.at \in Questions \cup {"write"}
      <3>1. \/ \E how \in {"probed", "taken"} : Agree(how)
            \/ \E place \in Questions \cup {"write"} : Go(place)
            \/ \E yes \in BOOLEAN : run' = [run EXCEPT !.at = "startnow", !.autostart = yes]
            \/ run' = [run EXCEPT !.at = IF run.input THEN "confirm" ELSE "write",
                                  !.input = FALSE]
        BY <1>4
        DEF Ask, UseOverride, AutoDetect, SetupCloud, SetupOpenAICompat, SetupOllama,
                    PickLanOllama, SetupCustom, PickModel, PickWriter, PickAutostart,
                    PickStartNow, Confirm, Questions
      <3>2. CASE \E how \in {"probed", "taken"} : Agree(how)
        BY <3>2 DEF Agree, TypeInv, Run, Passed, Carried, Questions, Spots, Answers
      <3>3. CASE \E place \in Questions \cup {"write"} : Go(place)
        BY <3>3 DEF Go, TypeInv, Run, Passed, Carried, Questions, Spots
      <3>4. CASE \E yes \in BOOLEAN : run' = [run EXCEPT !.at = "startnow", !.autostart = yes]
        BY <3>4 DEF TypeInv, Run, Passed, Carried, Questions, Spots, Answers
      <3>5. CASE run' = [run EXCEPT !.at = IF run.input THEN "confirm" ELSE "write",
                                    !.input = FALSE]
        BY <3>5 DEF TypeInv, Run, Passed, Carried, Questions, Spots, Answers
      <3> QED BY <3>1, <3>2, <3>3, <3>4, <3>5
    <2> QED BY <1>1, <1>2, <2>1, Asking1 DEF Questions
  <1> QED BY <1>3, <1>4
-----------------------------------------------------------------------------
(* The steps of an install that do not fail.                               *)

\* A text that loads is one more that goes on loading when it is written, and
\* where a written one loads, none does.
LEMMA LoadsFacts ==
    ASSUME UNCHANGED host
    PROVE  /\ config' = config => (Loads' <=> Loads)
           /\ Loads /\ config = "good" /\ config' = "none" => Loads'
  BY DEF Loads, LoadsInMode, Builds

\* Places between the questions and the end.
Busy == {"write", "text", "register", "start", "clear", "panel"} \cup Hooked

LEMMA Forward ==
    ASSUME IInv, run.kind = "install", run.at \in Busy,
           config' \in Texts \cup {"none"}, unit' \in UnitState, faults' \in Nat,
           run' \in Run, run'.kind = run.kind, run'.began = run.began,
           run'.at \in Busy \ {"write"}, Hooks', Done'
    PROVE  IInv'
  <1>1. TypeInv'
    BY DEF TypeInv
  <1>2. PlaceOf'
    BY DEF PlaceOf, Busy, Edits
  <1>3. ~(run.began.loads /\ run.began.config # "none")
    BY DEF IInv, Kept, Busy, Hooked
  <1>4. Kept'
    BY <1>3 DEF Kept
  <1>5. run'.at # "rollback" /\ run'.at # "over"
    BY DEF Busy, Hooked
  <1>6. run'.enabled /\ unit'.file /\ "probe" \notin run'.missed => config' # "none"
    BY DEF Done, Undone, Busy, Hooked
  <1>7. Undoing'
    BY <1>5, <1>6 DEF Undoing
  <1> QED BY <1>1, <1>2, <1>4, <1>7 DEF IInv

\* Where an install is by the place of its command.
LEMMA InstallPlaces ==
    ASSUME IInv, run.at \in {"unit", "reload", "enable", "registerUnit", "provider", "lan",
                             "model", "writer", "autostart", "startnow", "confirm", "rollback"}
    PROVE  run.kind = "install"
  BY DEF IInv, TypeInv, Run, PlaceOf, Commands, Edits

LEMMA ApplyFileKeeps ==
    ASSUME IInv, WriteYaml \/ WriteText \/ RegisterRemove \/ Embed \/ InitStore
    PROVE  IInv'
  <1> TypeInv /\ run \in Run
    BY DEF IInv, TypeInv
  <1>0. /\ run.kind = "install" /\ UNCHANGED <<unit, host, faults>>
        /\ unit \in UnitState /\ faults \in Nat
        /\ config \in Texts \cup {"none"} /\ "good" \in Texts /\ "torn" \in Texts
    BY DEF TypeInv, WriteYaml, WriteText, RegisterRemove, Embed, InitStore, Installing, Files, World,
        Texts
  <1>1. CASE WriteYaml
    <2>1. /\ run.at = "write" /\ config' = "torn"
          /\ run' = [run EXCEPT !.at = "text", !.wrote = TRUE]
      BY <1>1 DEF WriteYaml, Installing
    <2>2. run' \in Run
      BY <2>1 DEF Run, Spots
    <2>3. /\ run'.at = "text" /\ run'.kind = run.kind /\ run'.began = run.began
          /\ run'.hooks = run.hooks /\ run'.enabled = run.enabled
          /\ run'.failed = run.failed /\ run'.missed = run.missed
      BY <2>1 DEF Run
    <2>4. /\ run.hooks = <<>> /\ ~run.enabled /\ ~run.failed
          /\ unit.enabled => run.began.unit.enabled \/ "enable" \in run.missed
      BY <1>0, <2>1 DEF IInv, Hooks, Done, Unhooked
    <2>5. Hooks' /\ Done'
      BY <1>0, <2>1, <2>3, <2>4 DEF Hooks, Done, Unhooked, Hooked, Loaded, Questions
    <2> QED BY <1>0, <2>1, <2>2, <2>3, <2>5, Forward DEF Busy
  <1>2. CASE RegisterRemove
    <2>1. /\ run.at = "register" /\ config' = config /\ config = "good"
          /\ run.hooks = <<>> /\ ~run.enabled /\ ~run.failed
          /\ unit.enabled => run.began.unit.enabled \/ "enable" \in run.missed
      BY <1>0, <1>2 DEF RegisterRemove, Installing, Files, IInv, Hooks, Done
    <2>2. run' = [run EXCEPT !.at = "embed", !.hooks = One]
      BY <1>2, <2>1, Lists DEF RegisterRemove
    <2>3. run' \in Run
      BY <2>2 DEF Run, Spots, HookLists
    <2>4. /\ run'.at = "embed" /\ run'.kind = run.kind /\ run'.began = run.began
          /\ run'.hooks = One /\ run'.enabled = run.enabled
          /\ run'.failed = run.failed /\ run'.missed = run.missed
      BY <2>2 DEF Run
    <2>5. Hooks' /\ Done'
      BY <1>0, <2>1, <2>4 DEF Hooks, Done, Unhooked, Hooked, Loaded, Questions
    <2>6. run.at \in Busy /\ run'.at \in Busy \ {"write"}
      BY <2>1, <2>4 DEF Busy, Hooked
    <2>7. config' \in Texts \cup {"none"} /\ unit' \in UnitState /\ faults' \in Nat
      BY <1>0, <2>1
    <2> QED BY <1>0, <2>3, <2>4, <2>5, <2>6, <2>7, Forward
  <1>3. ASSUME Fail, run.at \in {"embed", "store"}, config' = config
        PROVE  IInv'
    BY <1>0, <1>3, FailKeeps
  <1>4. ASSUME run.at = "embed", config' = config, Go("store")
        PROVE  IInv'
    <2>1. run' \in Run
      BY <1>4 DEF Go, Run, Spots
    <2>2. /\ run'.at = "store" /\ run'.kind = run.kind /\ run'.began = run.began
          /\ run'.hooks = run.hooks /\ run'.enabled = run.enabled
          /\ run'.failed = run.failed /\ run'.missed = run.missed
      BY <1>4 DEF Go, Run
    <2>3. /\ config = "good" /\ run.hooks = One /\ ~run.enabled /\ ~run.failed
          /\ unit.enabled => run.began.unit.enabled \/ "enable" \in run.missed
      BY <1>0, <1>4 DEF IInv, Hooks, Done, Hooked
    <2>4. Hooks' /\ Done'
      BY <1>0, <1>4, <2>2, <2>3 DEF Hooks, Done, Unhooked, Hooked, Loaded, Questions
    <2> QED BY <1>0, <1>4, <2>1, <2>2, <2>4, Forward DEF Busy, Hooked
  <1>5. ASSUME run.at = "store", config' = config, Loads,
               NEW place \in {"unit", "status"}, Go(place)
        PROVE  IInv'
    <2>1. run' \in Run
      BY <1>5 DEF Go, Run, Spots
    <2>2. /\ run'.at = place /\ run'.kind = run.kind /\ run'.began = run.began
          /\ run'.hooks = run.hooks /\ run'.enabled = run.enabled
          /\ run'.failed = run.failed /\ run'.missed = run.missed
      BY <1>5 DEF Go, Run
    <2>3. /\ config = "good" /\ run.hooks = One /\ ~run.enabled /\ ~run.failed /\ Loads'
          /\ unit.enabled => run.began.unit.enabled \/ "enable" \in run.missed
      BY <1>0, <1>5, LoadsFacts DEF IInv, Hooks, Done, Hooked
    <2>4. Hooks' /\ Done'
      BY <1>0, <1>5, <2>2, <2>3 DEF Hooks, Done, Unhooked, Hooked, Loaded, Questions
    <2> QED BY <1>0, <1>5, <2>1, <2>2, <2>4, Forward DEF Busy, Hooked
  <1>8. CASE WriteText
    <2>1. /\ run.at = "text" /\ run.hooks = <<>> /\ ~run.enabled /\ ~run.failed
          /\ unit.enabled => run.began.unit.enabled \/ "enable" \in run.missed
      BY <1>0, <1>8 DEF WriteText, Installing, IInv, Hooks, Done
    <2>2. CASE config' = "good" /\ Go("register")
      <3>1. run' \in Run
        BY <2>2 DEF Go, Run, Spots
      <3>2. /\ run'.at = "register" /\ run'.kind = run.kind /\ run'.began = run.began
            /\ run'.hooks = run.hooks /\ run'.enabled = run.enabled
            /\ run'.failed = run.failed /\ run'.missed = run.missed
        BY <2>2 DEF Go, Run
      <3>3. Hooks' /\ Done'
        BY <1>0, <2>1, <2>2, <3>2 DEF Hooks, Done, Unhooked, Hooked, Loaded, Questions
      <3> QED BY <1>0, <2>1, <2>2, <3>1, <3>2, <3>3, Forward DEF Busy
    <2>3. CASE /\ run' = [run EXCEPT !.at = "rollback", !.failed = TRUE,
                                     !.todo = Reverse(run.hooks), !.cut = @ \cup {"text"}]
               /\ config' = config
      <3>1. run' = [run EXCEPT !.at = "rollback", !.failed = TRUE, !.todo = <<>>,
                              !.cut = @ \cup {"text"}]
        BY <2>1, <2>3, Lists
      <3>2. run' \in Run
        BY <3>1 DEF Run, Spots, Causes, UndoLists
      <3>3. Carried /\ run'.at = "rollback" /\ run'.todo = <<>> /\ "text" \in run'.cut
        BY <3>1 DEF Run, Carried
      <3>4. TypeInv' /\ PlaceOf'
        BY <1>0, <2>3, <3>2, <3>3 DEF TypeInv, PlaceOf, Carried, Edits
      <3>5. Hooks' /\ Done'
        BY <1>0, <2>1, <3>3 DEF Hooks, Done, Carried, Unhooked, Hooked, Loaded, Questions
      <3>6. Undoing'
        BY <2>1, <3>3, Lists DEF Undoing, Clean, Carried
      <3>7. ~(run.began.loads /\ run.began.config # "none")
        BY <1>0, <2>1 DEF IInv, Kept
      <3>8. Kept'
        BY <3>3, <3>7 DEF Kept, Carried
      <3> QED BY <1>0, <3>3, <3>4, <3>5, <3>6, <3>8 DEF IInv, Carried
    <2> QED BY <1>8, <2>2, <2>3 DEF WriteText
  <1>6. CASE Embed
    BY <1>6, <1>3, <1>4 DEF Embed, Installing, Files
  <1>7. CASE InitStore
    <2>1. CASE Fail
      BY <2>1, <1>7, <1>3 DEF InitStore, Installing
    <2>2. CASE ~Fail
      <3>1. /\ run.at = "store" /\ config' = config /\ Loads
            /\ Go(IF run.autostart THEN "unit" ELSE "status")
        BY <2>2, <1>7 DEF InitStore, Installing
      <3>2. CASE run.autostart
        BY <3>1, <3>2, <1>5
      <3>3. CASE ~run.autostart
        BY <3>1, <3>3, <1>5
      <3> QED BY <3>2, <3>3
    <2> QED BY <2>1, <2>2
  <1> QED BY <1>1, <1>2, <1>6, <1>7, <1>8

\* What the steps between the store and the end start from.
LEMMA LoadedFacts ==
    ASSUME IInv, run.kind = "install", run.at \in Loaded
    PROVE  /\ ~run.failed /\ Loads
           /\ ~run.enabled /\ unit.enabled => run.began.unit.enabled \/ "enable" \in run.missed
           /\ run.at \in Hooked => config = "good" /\ run.hooks = One
           /\ run.at \in Hooked \ {"registerUnit"} => ~run.enabled
  BY DEF IInv, Hooks, Done, Loaded, Hooked

\* What disable_autostart makes of a unit.
LEMMA StoppedFacts ==
    ASSUME NEW call \in Calls \cup {"none"}, unit \in UnitState, NEW u \in Stopped(call)
    PROVE  /\ u \in UnitState /\ (u.enabled => unit.enabled) /\ u.file = unit.file
           /\ unit.file /\ call = "none" => ~u.enabled
  <1>1. CASE call = "probe" \/ ~unit.file
    BY <1>1 DEF Stopped, Calls
  <1>2. CASE ~(call = "probe" \/ ~unit.file)
    <2>1. PICK on \in {FALSE, unit.enabled /\ call = "disable"} :
             u = [unit EXCEPT !.enabled = on]
      BY <1>2 DEF Stopped
    <2>2. on \in BOOLEAN /\ (on => unit.enabled) /\ (call = "none" => ~on)
      BY <2>1 DEF UnitState
    <2> QED BY <2>1, <2>2 DEF UnitState
  <1> QED BY <1>1, <1>2

LEMMA DisabledFacts ==
    ASSUME NEW call \in Disabling, unit \in UnitState, NEW u \in Disabled(call)
    PROVE  /\ call \in Calls \cup {"none"}
           /\ u \in UnitState /\ (u.enabled => unit.enabled)
           /\ call # "probe" => ~u.file
           /\ call = "none" => ~u.enabled \/ ~unit.file
  <1>1. call \in Calls \cup {"none"}
    BY DEF Disabling, Calls
  <1>2. CASE call = "probe"
    BY <1>1, <1>2 DEF Disabled
  <1>3. CASE call # "probe"
    <2>1. PICK v \in Stopped(call) : u = [v EXCEPT !.file = FALSE]
      BY <1>3 DEF Disabled
    <2>2. /\ v \in UnitState /\ (v.enabled => unit.enabled)
          /\ unit.file /\ call = "none" => ~v.enabled
      BY <1>1, <2>1, StoppedFacts
    <2>3. u \in UnitState /\ ~u.file /\ u.enabled = v.enabled
      BY <2>1, <2>2 DEF UnitState
    <2> QED BY <1>1, <1>3, <2>2, <2>3
  <1> QED BY <1>2, <1>3

LEMMA ApplyUnitKeeps ==
    ASSUME IInv, run.kind = "install",
           WriteUnit \/ DaemonReload \/ EnableNow \/ RegisterDisable \/ AutostartStatus
           \/ DisableNow \/ UnlinkUnit
    PROVE  IInv'
  <1> TypeInv /\ run \in Run /\ unit \in UnitState
    BY DEF IInv, TypeInv
  <1>0. /\ UNCHANGED <<config, host>> /\ faults' \in Nat
        /\ run.at \in Loaded /\ run.at \in Hooked
        /\ config \in Texts \cup {"none"} /\ (Loads' <=> Loads)
    <2>1. UNCHANGED <<config, host>> /\ run.at \in Loaded /\ run.at \in Hooked
      BY DEF WriteUnit, DaemonReload, EnableNow, RegisterDisable, AutostartStatus,
             DisableNow, UnlinkUnit, Files, World, Loaded, Hooked
    <2>2. faults' = faults \/ faults' = faults + 1
      BY DEF WriteUnit, DaemonReload, EnableNow, RegisterDisable, AutostartStatus,
             DisableNow, UnlinkUnit, Files, World, Systemctl
    <2> QED BY <2>1, <2>2, LoadsFacts DEF TypeInv
  <1>1. /\ ~run.failed /\ Loads /\ config = "good" /\ run.hooks = One
        /\ ~run.enabled /\ unit.enabled => run.began.unit.enabled \/ "enable" \in run.missed
        /\ run.at # "registerUnit" => ~run.enabled
    BY <1>0, LoadedFacts
  <1>2. ASSUME unit' \in UnitState, run' \in Run, Carried, run'.failed = run.failed,
               run'.at \in (Hooked \ {"registerUnit"}) \cup {"start"}, run'.at \in Loaded,
               ~run.enabled, unit'.enabled => unit.enabled \/ "enable" \in run'.missed,
               run'.at \in {"reload", "enable"} => unit'.file
        PROVE  IInv'
    <2>1. Hooks'
      BY <1>1, <1>2 DEF Hooks, Carried, Hooked, Unhooked, Questions
    <2>2. Done'
      BY <1>0, <1>1, <1>2 DEF Done, Carried, Hooked, Unhooked, Questions
    <2>3. run.at \in Busy /\ run'.at \in Busy \ {"write"}
      BY <1>0, <1>2 DEF Busy, Hooked
    <2>4. run'.kind = run.kind /\ run'.began = run.began /\ config' \in Texts \cup {"none"}
      BY <1>0, <1>2 DEF Carried
    <2> QED BY <1>0, <1>2, <2>1, <2>2, <2>3, <2>4, Forward
  <1>3. ASSUME NEW place \in {"reload", "enable", "disable", "unlink", "start"}, Go(place)
        PROVE  /\ run' \in Run /\ Carried /\ run'.failed = run.failed /\ run'.at = place
               /\ run'.at \in (Hooked \ {"registerUnit"}) \cup {"start"} /\ run'.at \in Loaded
    <2>1. run' \in Run
      BY <1>3 DEF Go, Run, Spots
    <2>2. Carried /\ run'.failed = run.failed /\ run'.at = place
      BY <1>3 DEF Go, Run, Carried
    <2> QED BY <2>1, <2>2 DEF Hooked, Loaded
  <1>4. ASSUME NEW place \in {"disable", "unlink", "start"}, NEW call \in Calls \cup {"none"},
               GoOn(place, call)
        PROVE  /\ run' \in Run /\ Carried /\ run'.failed = run.failed /\ run'.at = place
               /\ run'.at \in (Hooked \ {"registerUnit"}) \cup {"start"} /\ run'.at \in Loaded
               /\ call # "none" => call \in run'.missed
    <2>1. Missing(call) \in SUBSET Calls
      BY DEF Run, Missing
    <2>2. run' = [run EXCEPT !.at = place, !.missed = Missing(call)]
      BY <1>4 DEF GoOn
    <2>3. run' \in Run
      BY <2>1, <2>2 DEF Run, Spots
    <2>4. Carried /\ run'.failed = run.failed /\ run'.at = place
          /\ run'.missed = Missing(call)
      BY <2>2 DEF Run, Carried, Missing
    <2> QED BY <2>3, <2>4 DEF Hooked, Loaded, Missing
  <1>12. {"none", "probe", "reload", "enable", "is-enabled", "disable"} = Calls \cup {"none"}
    BY DEF Calls
  <1>5. CASE WriteUnit
    <2>1. run.at = "unit"
      BY <1>5 DEF WriteUnit
    <2>2. CASE unit' = [unit EXCEPT !.file = TRUE] /\ Go("reload")
      <3>1. unit' \in UnitState /\ unit'.file /\ unit'.enabled = unit.enabled
        BY <2>2 DEF UnitState
      <3> QED BY <2>1, <2>2, <3>1, <1>1, <1>2, <1>3
    <2>3. CASE unit' = unit /\ GoOn("start", "probe")
      BY <2>1, <2>3, <1>1, <1>2, <1>4, <1>12
    <2> QED BY <1>5, <2>2, <2>3 DEF WriteUnit, Skip
  <1>6. CASE DaemonReload
    <2>1. run.at = "reload" /\ unit' = unit /\ unit.file
          /\ (Go("enable") \/ GoOn("start", "reload"))
      BY <1>6 DEF DaemonReload, Skip, Files, IInv, Done
    <2>2. CASE Go("enable")
      BY <2>1, <2>2, <1>1, <1>2, <1>3
    <2>3. CASE GoOn("start", "reload")
      BY <2>1, <2>3, <1>1, <1>2, <1>4, <1>12
    <2> QED BY <2>1, <2>2, <2>3
  <1>7. CASE EnableNow
    <2>1. run.at = "enable" /\ unit.file
      BY <1>7 DEF EnableNow, IInv, Done
    <2>2. CASE /\ GoOn("start", "enable")
               /\ \E took \in BOOLEAN : unit' = [unit EXCEPT !.enabled = unit.enabled \/ took]
      <3>1. unit' \in UnitState
        BY <2>2 DEF UnitState
      <3>2. "enable" \in run'.missed
        BY <2>2, <1>4, <1>12
      <3> QED BY <2>1, <2>2, <3>1, <3>2, <1>1, <1>2, <1>4, <1>12
    <2>3. CASE /\ run' = [run EXCEPT !.at = "registerUnit", !.enabled = TRUE]
               /\ unit' = [unit EXCEPT !.enabled = TRUE]
      <3>1. run' \in Run
        BY <2>3 DEF Run, Spots
      <3>2. /\ run'.at = "registerUnit" /\ run'.enabled /\ run'.kind = run.kind
            /\ run'.began = run.began /\ run'.hooks = run.hooks /\ run'.failed = run.failed
        BY <2>3 DEF Run
      <3>3. unit' \in UnitState /\ unit'.file
        BY <2>1, <2>3 DEF UnitState
      <3>4. Hooks'
        BY <3>2, <1>1 DEF Hooks, Hooked, Unhooked, Questions
      <3>5. Done'
        BY <3>2, <3>3, <1>0, <1>1 DEF Done, Hooked, Unhooked, Questions, Loaded
      <3> QED BY <3>1, <3>2, <3>3, <3>4, <3>5, <1>0, Forward DEF Busy, Hooked
    <2> QED BY <2>2, <2>3, <1>7 DEF EnableNow, Skip
  <1>8. CASE RegisterDisable
    <2>1. run.at = "registerUnit" /\ unit' = unit /\ run.enabled /\ unit.file
      BY <1>8 DEF RegisterDisable, Files, IInv, Done
    <2>2. run' = [run EXCEPT !.at = "start", !.hooks = Both]
      BY <1>1, <1>8, Lists DEF RegisterDisable
    <2>3. run' \in Run
      BY <2>2 DEF Run, Spots, HookLists
    <2>4. /\ run'.at = "start" /\ run'.enabled = run.enabled /\ run'.kind = run.kind
          /\ run'.began = run.began /\ run'.hooks = Both /\ run'.failed = run.failed
      BY <2>2 DEF Run
    <2>5. Hooks'
      BY <2>1, <2>4, <1>1 DEF Hooks, Hooked, Unhooked, Questions
    <2>6. Done'
      BY <2>1, <2>4, <1>0, <1>1 DEF Done, Hooked, Unhooked, Questions, Loaded
    <2> QED BY <2>1, <2>3, <2>4, <2>5, <2>6, <1>0, Forward DEF Busy, Hooked
  <1>9. CASE AutostartStatus
    <2>1. PICK call \in Calls \cup {"none"} :
             /\ unit' = unit
             /\ GoOn("disable", call) \/ GoOn("start", call)
      BY <1>9, <1>12 DEF AutostartStatus, Files
    <2>2. run.at = "status"
      BY <1>9 DEF AutostartStatus
    <2>3. CASE GoOn("disable", call)
      BY <2>1, <2>2, <2>3, <1>1, <1>2, <1>4
    <2>4. CASE GoOn("start", call)
      BY <2>1, <2>2, <2>4, <1>1, <1>2, <1>4
    <2> QED BY <2>1, <2>3, <2>4
  <1>10. CASE DisableNow
    <2>1. PICK call \in Calls \cup {"none"} :
             /\ unit' \in Stopped(call)
             /\ GoOn("unlink", call) \/ GoOn("start", call)
      BY <1>10, <1>12 DEF DisableNow, Disabling
    <2>2. run.at = "disable"
      BY <1>10 DEF DisableNow
    <2>3. unit' \in UnitState /\ (unit'.enabled => unit.enabled)
      BY <2>1, StoppedFacts
    <2>4. CASE GoOn("unlink", call)
      BY <2>2, <2>3, <2>4, <1>1, <1>2, <1>4
    <2>5. CASE GoOn("start", call)
      BY <2>2, <2>3, <2>5, <1>1, <1>2, <1>4
    <2> QED BY <2>1, <2>4, <2>5
  <1>11. CASE UnlinkUnit
    <2>1. run.at = "unlink" /\ unit' = [unit EXCEPT !.file = FALSE] /\ Go("start")
      BY <1>11 DEF UnlinkUnit
    <2>2. unit' \in UnitState /\ unit'.enabled = unit.enabled
      BY <2>1 DEF UnitState
    <2> QED BY <2>1, <2>2, <1>1, <1>2, <1>3
  <1> QED BY <1>5, <1>6, <1>7, <1>8, <1>9, <1>10, <1>11

LEMMA ApplyEndKeeps == ASSUME IInv, StartNow \/ ClearHooks \/ ReadyPanel PROVE IInv'
  <1> TypeInv /\ run \in Run
    BY DEF IInv, TypeInv
  <1>0. /\ run.kind = "install" /\ UNCHANGED <<config, unit, host, faults>>
        /\ run.at \in Loaded
    BY DEF StartNow, ClearHooks, ReadyPanel, Installing, Files, World, Loaded
  <1>1. /\ ~run.failed /\ Loads /\ (Loads' <=> Loads)
        /\ ~run.enabled /\ unit.enabled => run.began.unit.enabled \/ "enable" \in run.missed
    BY <1>0, LoadedFacts, LoadsFacts
  <1>2. CASE StartNow
    <2>1. run.at = "start" /\ Go("clear")
      BY <1>2 DEF StartNow, Installing
    <2>2. run' \in Run
      BY <2>1 DEF Go, Run, Spots
    <2>3. Carried /\ run'.failed = run.failed /\ run'.at = "clear"
      BY <2>1 DEF Go, Run, Carried
    <2>4. Hooks'
      BY <2>1, <2>3, <1>0 DEF IInv, Hooks, Carried, Hooked, Unhooked, Questions
    <2>5. config = "good" /\ (run.enabled => unit.file)
      BY <2>1, <1>0 DEF IInv, Done
    <2>6. Done'
      BY <2>3, <2>5, <1>0, <1>1 DEF Done, Carried, Hooked, Unhooked, Questions
    <2> QED BY <2>1, <2>2, <2>3, <2>4, <2>6, <1>0, Forward DEF Busy, Carried, TypeInv
  <1>3. CASE ClearHooks
    <2>1. run.at = "clear" /\ run' = [run EXCEPT !.at = "panel", !.hooks = <<>>]
      BY <1>3 DEF ClearHooks, Installing
    <2>2. run' \in Run
      BY <2>1 DEF Run, Spots, HookLists
    <2>3. /\ run'.at = "panel" /\ run'.enabled = run.enabled /\ run'.kind = run.kind
          /\ run'.began = run.began /\ run'.hooks = <<>> /\ run'.failed = run.failed
          /\ run'.missed = run.missed
      BY <2>1 DEF Run
    <2>4. Hooks'
      BY <2>3 DEF Hooks, Hooked, Unhooked
    <2>5. \/ config = "good" /\ (run.enabled => unit.file)
          \/ config = "none" /\ (run.enabled => Undone)
      BY <2>1, <1>0 DEF IInv, Done
    <2>6. Done'
      BY <2>3, <2>5, <1>0, <1>1 DEF Done, Undone, Hooked, Unhooked, Questions
    <2> QED BY <2>1, <2>2, <2>3, <2>4, <2>6, <1>0, Forward DEF Busy, TypeInv
  <1>4. CASE ReadyPanel
    <2>1. run.at = "panel" /\ Go("over")
      BY <1>1, <1>4 DEF ReadyPanel, Installing
    <2>2. run' \in Run
      BY <2>1 DEF Go, Run, Spots
    <2>3. /\ run'.at = "over" /\ ~run'.failed /\ run'.kind = run.kind
          /\ run'.enabled = run.enabled /\ run'.began = run.began
          /\ run'.missed = run.missed
      BY <2>1, <1>1 DEF Go, Run
    <2>4. run.enabled /\ unit.file /\ "probe" \notin run.missed => config # "none"
      BY <2>1, <1>0 DEF IInv, Done, Undone
    <2>5. ~(run.began.loads /\ run.began.config # "none")
      BY <2>1, <1>0 DEF IInv, Kept
    <2>6. TypeInv' /\ PlaceOf'
      BY <2>2, <2>3, <1>0 DEF TypeInv, PlaceOf, Edits
    <2>7. Hooks' /\ Done'
      BY <2>3, <1>0, <1>1 DEF Hooks, Done, Unhooked, Hooked, Loaded, Questions
    <2>8. Undoing' /\ Kept'
      BY <2>3, <2>4, <2>5, <1>0 DEF Undoing, Kept
    <2> QED BY <2>3, <2>6, <2>7, <2>8, <1>0 DEF IInv
  <1> QED BY <1>2, <1>3, <1>4

LEMMA ApplyKeeps == ASSUME IInv, Apply, run.kind = "install" PROVE IInv'
  BY ApplyFileKeeps, ApplyUnitKeeps, ApplyEndKeeps DEF Apply

-----------------------------------------------------------------------------
(* The rollback, and what leads to it or ends an install from outside.     *)

LEMMA RollbackKeeps == ASSUME IInv, Rollback PROVE IInv'
  <1> TypeInv /\ run \in Run /\ unit \in UnitState /\ faults \in Nat
    BY DEF IInv, TypeInv
  <1>0. run.at = "rollback" /\ UNCHANGED host /\ run.todo \in UndoLists
    BY DEF Rollback, World, Run
  <1>1. run.kind = "install" /\ Done /\ Undoing /\ Kept /\ config \in Texts \cup {"none"}
    BY <1>0, InstallPlaces DEF IInv, TypeInv
  <1>2. run' \in Run /\ Carried /\ run'.cut = run.cut /\ run'.at \in {"rollback", "over"}
        => Hooks' /\ PlaceOf'
    BY <1>1 DEF Hooks, PlaceOf, Carried, Unhooked, Hooked, Edits, Questions
  <1>3. (~run.enabled /\ unit.enabled => run.began.unit.enabled \/ "enable" \in run.missed)
        /\ (unit'.enabled => unit.enabled)
        /\ run'.at \in {"rollback", "over"} /\ Carried => Done'
    BY DEF Done, Carried, Unhooked, Hooked, Loaded, Questions
  <1>4. ~run.enabled /\ unit.enabled => run.began.unit.enabled \/ "enable" \in run.missed
    BY <1>1 DEF Done
  <1>5. CASE run.todo = <<>>
    <2>1. Go("over") /\ UNCHANGED <<config, unit, faults>>
      BY <1>5 DEF Rollback
    <2>2. run' \in Run
      BY <2>1 DEF Go, Run, Spots
    <2>3. Carried /\ run'.cut = run.cut /\ run'.at = "over" /\ run'.todo = run.todo
          /\ run'.missed = run.missed
      BY <2>1 DEF Go, Run, Carried
    <2>4. Hooks' /\ PlaceOf' /\ Done' /\ TypeInv'
      BY <2>1, <2>2, <2>3, <1>1, <1>2, <1>3, <1>4 DEF TypeInv
    <2>5. Undoing'
      BY <2>1, <2>3, <1>0, <1>1, <1>5, Lists DEF Undoing, Clean, Carried, Undone
    <2>6. Kept'
      BY <2>1, <2>3, <1>1 DEF Kept, Carried
    <2> QED BY <2>3, <2>4, <2>5, <2>6, <1>1 DEF IInv, Carried
  <1>6. CASE run.todo = One
    <2>1. /\ run' = [run EXCEPT !.todo = <<>>] /\ config' = "none"
          /\ UNCHANGED <<unit, faults>>
      BY <1>6, Lists DEF Rollback
    <2>2. run' \in Run
      BY <2>1 DEF Run, UndoLists
    <2>3. Carried /\ run'.cut = run.cut /\ run'.at = "rollback" /\ run'.todo = <<>>
          /\ run'.missed = run.missed
      BY <2>1, <1>0 DEF Run, Carried
    <2>4. Hooks' /\ PlaceOf' /\ Done' /\ TypeInv'
      BY <2>1, <2>2, <2>3, <1>1, <1>2, <1>3, <1>4 DEF TypeInv
    <2>5. Undoing'
      BY <2>1, <2>3, <1>0, <1>1, <1>6, Lists DEF Undoing, Clean, Carried, Undone
    <2>6. Kept'
      BY <2>3, <1>1, <1>6, Lists DEF Kept, Carried
    <2> QED BY <2>3, <2>4, <2>5, <2>6, <1>1 DEF IInv, Carried
  <1>7. CASE run.todo = Back
    <2>1. PICK call \in Disabling :
             /\ run' = [run EXCEPT !.todo = One, !.missed = Missing(call)]
             /\ config' = config
             /\ Systemctl(call) /\ unit' \in Disabled(call)
      BY <1>7, Lists DEF Rollback
    <2>9. /\ call \in Calls \cup {"none"}
          /\ unit' \in UnitState /\ (unit'.enabled => unit.enabled)
          /\ call # "probe" => ~unit'.file
          /\ call = "none" => ~unit'.enabled \/ ~unit.file
      BY <2>1, DisabledFacts
    <2>2. run' \in Run
      <3>1. Missing(call) \in SUBSET Calls
        BY <2>9 DEF Missing, Run
      <3> QED BY <2>1, <3>1 DEF Run, UndoLists
    <2>3. Carried /\ run'.cut = run.cut /\ run'.at = "rollback" /\ run'.todo = One
          /\ run'.missed = Missing(call) /\ run'.failed = run.failed
      BY <2>1, <1>0 DEF Run, Carried, Missing
    <2>4. /\ call # "none" => call \in run'.missed
          /\ run.missed \subseteq run'.missed
          /\ call \in {"none", "probe", "disable"}
      BY <2>1, <2>3 DEF Missing, Disabling
    <2>5. faults' \in Nat
      BY <2>1 DEF Systemctl
    <2>10. unit.file \/ Undone => Undone'
      BY <2>4, <2>9 DEF Undone
    <2>6. Hooks' /\ PlaceOf' /\ Done' /\ TypeInv'
      BY <2>1, <2>2, <2>3, <2>5, <2>9, <1>1, <1>2, <1>3, <1>4 DEF TypeInv
    <2>7. Undoing'
      <3>1. unit'.file => "probe" \in run'.missed
        BY <2>4, <2>9
      <3>2. Clean' /\ run.enabled => Undone'
        BY <2>3, <2>10, <1>0, <1>1, <1>7 DEF Undoing, Clean
      <3> QED BY <2>3, <3>1, <3>2, <1>0, Lists DEF Undoing, Carried
    <2>8. Kept'
      BY <2>3, <1>1, <1>7, Lists DEF Kept, Carried
    <2> QED BY <2>3, <2>6, <2>7, <2>8, <1>1 DEF IInv, Carried
  <1> QED BY <1>0, <1>5, <1>6, <1>7 DEF UndoLists

\* Where a signal finds an install, seen from what it leaves to be undone.
LEMMA CutFacts ==
    ASSUME IInv, run.kind = "install", run.at \notin {"idle", "over"}
    PROVE  /\ run.wrote /\ run.at \notin {"text", "register", "panel", "rollback"}
              => run.hooks \in {One, Both}
           /\ run.enabled /\ run.at \notin {"registerUnit", "panel", "rollback"}
              => /\ run.hooks = Both
                 /\ unit.file \/ Undone
                 /\ unit.file /\ "probe" \notin run.missed => config # "none"
           /\ run.enabled /\ run.at = "panel"
              => /\ run.hooks = <<>>
                 /\ unit.file /\ "probe" \notin run.missed => config # "none"
           /\ run.began.loads /\ run.began.config # "none"
              => run.hooks = <<>> /\ ~run.wrote /\ ~run.enabled
                 /\ config = run.began.config /\ unit = run.began.unit
           /\ ~run.enabled /\ unit.enabled => run.began.unit.enabled \/ "enable" \in run.missed
           /\ run.hooks = Both /\ run.at # "rollback" => run.enabled
  BY Lists DEF IInv, PlaceOf, Hooks, Done, Undone, Kept, Unhooked, Hooked, Loaded, Questions

LEMMA CutKeeps ==
    ASSUME IInv, run.kind = "install", config' = config,
           NEW place \in {"rollback", "over"}, NEW how \in SUBSET {"kill"}, Cut(place, how),
           place = "over" => run.at = "rollback" \/ how = {"kill"}
    PROVE  IInv'
  <1> DEFINE todo == IF place = "rollback" THEN Reverse(run.hooks) ELSE <<>>
             cut == run.cut \cup {run.at} \cup how
  <1> TypeInv /\ run \in Run
    BY DEF IInv, TypeInv
  <1>0. /\ run.at \notin {"idle", "over"} /\ UNCHANGED <<config, unit, host, faults>>
        /\ run' = [run EXCEPT !.at = place, !.cut = cut, !.failed = TRUE, !.todo = todo]
    BY DEF Cut
  <1>1. cut \in SUBSET Causes
    BY DEF Run, Causes
  <1>2. todo \in UndoLists
    <2>1. <<>> \in UndoLists /\ run.hooks \in HookLists
      BY DEF UndoLists, Run
    <2> QED BY <2>1, ReverseHooks
  <1>3. /\ place = "rollback" /\ run.hooks \in {One, Both} => todo # <<>>
        /\ place = "rollback" /\ run.hooks = Both => todo = Back
        /\ todo = Back => run.hooks = Both
        /\ run.hooks = <<>> => todo = <<>>
        /\ todo = One => run.hooks = One
    <2>1. run.hooks \in HookLists
      BY DEF Run
    <2> QED BY <2>1, Lists DEF HookLists
  <1>4. run.at \in cut /\ (how = {"kill"} => "kill" \in cut)
    OBVIOUS
  <1> HIDE DEF todo, cut
  <1>5. run' \in Run
    BY <1>0, <1>1, <1>2 DEF Run, Spots
  <1>6. Carried /\ run'.at = place /\ run'.cut = cut /\ run'.todo = todo
        /\ run'.missed = run.missed
    BY <1>0 DEF Run, Carried
  <1>7. TypeInv' /\ PlaceOf'
    BY <1>0, <1>5, <1>6 DEF TypeInv, PlaceOf, Carried, Edits
  <1>8. Hooks' /\ Done'
    BY <1>0, <1>6, CutFacts DEF Hooks, Done, Carried, Unhooked, Hooked, Loaded, Questions
  <1>9. Kept'
    BY <1>0, <1>3, <1>6, CutFacts DEF Kept, Carried
  <1>10. Clean' => /\ run.at \notin {"text", "register", "registerUnit", "rollback", "panel"}
                   /\ "kill" \notin cut
    BY <1>4, <1>6 DEF Clean
  <1>11. run'.cut \cap {"registerUnit", "rollback"} = {}
            => run.at \notin {"registerUnit", "rollback"}
    BY <1>4, <1>6
  <1>12. Undoing'
    <2>1. place = "rollback" /\ Clean' =>
            /\ run.wrote => todo # <<>>
            /\ run.enabled => todo = Back
      BY <1>0, <1>3, <1>10, CutFacts
    <2>2. place = "rollback" /\ Clean' /\ todo = Back => unit.file \/ Undone
      BY <1>0, <1>3, <1>10, CutFacts
    <2>3. run'.cut \cap {"registerUnit", "rollback"} = {} /\ run.enabled /\ unit.file
          /\ "probe" \notin run.missed =>
            todo # One /\ config # "none"
      BY <1>0, <1>3, <1>11, CutFacts, Lists
    <2>4. place = "over" => ~Clean'
      BY <1>4, <1>10
    <2>5. Undone' <=> Undone
      BY <1>0, <1>6 DEF Undone
    <2> QED BY <1>0, <1>6, <2>1, <2>2, <2>3, <2>4, <2>5 DEF Undoing, Carried
  <1> QED BY <1>6, <1>7, <1>8, <1>9, <1>12 DEF IInv, Carried

\* SIGTERM in the start step: what was written is gone, the hooks are not.
LEMMA TermInStart ==
    ASSUME IInv, run.kind = "install", run.at = "start", UNCHANGED host, config' = "none",
           NEW call \in IF run.enabled THEN Disabling ELSE {"none"}, Systemctl(call),
           unit' \in IF run.enabled THEN Disabled(call) ELSE {unit},
           run' = [run EXCEPT !.at = "clear", !.cut = @ \cup {"start"},
                             !.missed = Missing(call)]
    PROVE  IInv'
  <1> TypeInv /\ run \in Run /\ unit \in UnitState
    BY DEF IInv, TypeInv
  <1>0. call \in Calls \cup {"none"}
    BY DEF Calls, Disabling
  <1>1. run' \in Run
    <2>1. Missing(call) \in SUBSET Calls
      BY <1>0 DEF Missing, Run
    <2> QED BY <2>1 DEF Run, Spots, Causes
  <1>2. Carried /\ run'.failed = run.failed /\ run'.at = "clear"
        /\ run'.missed = Missing(call)
    BY DEF Run, Carried, Missing
  <1>3. /\ ~run.failed /\ Loads /\ config = "good"
        /\ ~run.enabled /\ unit.enabled => run.began.unit.enabled \/ "enable" \in run.missed
        /\ run.enabled => unit.file
        /\ run.hooks = IF run.enabled THEN Both ELSE One
    BY DEF IInv, Hooks, Done, Loaded, Hooked
  <1>4. Loads'
    BY <1>3, LoadsFacts
  <1>5. unit' \in UnitState /\ (run.enabled => Undone') /\ (~run.enabled => unit' = unit)
    <2>1. CASE run.enabled
      <3>1. /\ unit' \in UnitState
            /\ call # "probe" => ~unit'.file
            /\ call = "none" => ~unit'.enabled \/ ~unit.file
        BY <2>1, DisabledFacts
      <3>2. (call # "none" => call \in run'.missed) /\ call \in {"none", "probe", "disable"}
        BY <2>1, <1>2 DEF Missing, Disabling
      <3> QED BY <2>1, <3>1, <3>2, <1>3 DEF Undone
    <2>2. CASE ~run.enabled
      BY <2>2
    <2> QED BY <2>1, <2>2
  <1>6. Hooks'
    BY <1>2, <1>3 DEF Hooks, Carried, Hooked, Unhooked, Questions
  <1>7. Done'
    BY <1>2, <1>3, <1>4, <1>5 DEF Done, Carried, Hooked, Unhooked, Questions
  <1>8. run.at \in Busy /\ run'.at \in Busy \ {"write"}
    BY <1>2 DEF Busy, Hooked
  <1>9. faults' \in Nat
    BY DEF TypeInv, Systemctl
  <1> QED BY <1>1, <1>2, <1>5, <1>6, <1>7, <1>8, <1>9, Forward DEF Carried

LEMMA HitInstallKeeps ==
    ASSUME IInv, run.kind = "install", Interrupt \/ Term \/ Kill
    PROVE  IInv'
  <1>1. CASE Interrupt
    <2>1. config' = config
      BY <1>1 DEF Interrupt
    <2>2. CASE run.at \notin {"rollback", "start"}
      BY <1>1, <2>1, <2>2, CutKeeps DEF Interrupt
    <2>3. CASE run.at \in {"rollback", "start"}
      <3>1. run.at = "rollback" /\ Cut("over", {})
        BY <1>1, <2>3 DEF Interrupt
      <3> QED BY <2>1, <3>1, CutKeeps
    <2> QED BY <2>2, <2>3
  <1>2. CASE Term
    <2>1. CASE run.at = "start"
      BY <1>2, <2>1, TermInStart DEF Term
    <2>2. CASE run.at # "start"
      BY <1>2, <2>2, CutKeeps DEF Term
    <2> QED BY <2>1, <2>2
  <1>3. CASE Kill
    <2>1. run.at # "wipe"
      BY DEF IInv, PlaceOf, Unhooked, Hooked, Questions
    <2>2. Cut("over", {"kill"}) /\ config' = config
      BY <1>3, <2>1 DEF Kill
    <2> QED BY <2>2, CutKeeps
  <1> QED BY <1>1, <1>2, <1>3

-----------------------------------------------------------------------------
(* The other commands.                                                     *)

\* A step of them: it enables nothing, and makes no configuration go while a
\* unit file is there.
LEMMA OtherKeeps ==
    ASSUME IInv, run.kind # "install",
           run' \in Run, run'.kind = run.kind, run'.began = run.began,
           config' \in Texts \cup {"none"}, unit' \in UnitState, faults' \in Nat,
           PlaceOf',
           unit'.file => unit.file, unit'.enabled => unit.enabled,
           config' = "none" /\ unit'.file => config = "none" \/ run.began.config = "none",
           run'.at = "wipe" => ~unit'.file
    PROVE  IInv'
  <1>1. TypeInv'
    BY DEF TypeInv
  <1>2. Others'
    BY DEF IInv, Others
  <1> QED BY <1>1, <1>2 DEF IInv

LEMMA OtherPlaces ==
    ASSUME IInv, run.kind # "install"
    PROVE  /\ run.kind \in {"uninstall", "init"} \cup Edits
           /\ run.kind = "uninstall"
              => run.at \in {"status", "disable", "unlink", "wipe", "over"}
           /\ run.kind = "init" => run.at \in {"embed", "write", "text", "store", "over"}
           /\ run.kind \in Edits
              => run.at \in Edits \cup {"truncate", "raw", "validate", "over"}
  BY DEF IInv, TypeInv, Run, Commands, PlaceOf, Edits

\* Only the place changes, or the place and whether the command failed.
LEMMA GoFacts ==
    ASSUME run \in Run, NEW place \in Spots, NEW failed \in BOOLEAN,
           Go(place) \/ run' = [run EXCEPT !.at = place, !.failed = failed]
    PROVE  /\ run' \in Run /\ run'.kind = run.kind /\ run'.began = run.began
           /\ run'.at = place
  BY DEF Go, Run

LEMMA InitialiseKeeps == ASSUME IInv, Initialise PROVE IInv'
  <1> TypeInv /\ run \in Run
    BY DEF IInv, TypeInv
  <1>1. /\ run.kind = "init" /\ UNCHANGED <<unit, faults>>
        /\ unit \in UnitState /\ faults \in Nat
    BY DEF Initialise, InitEmbed, InitWrite, InitText, InitReady, Initialising, TypeInv, Files, World
  <1>2. config' \in Texts \cup {"none"} /\ (config' = "none" => config = "none")
    BY DEF Initialise, InitEmbed, InitWrite, InitText, InitReady, TypeInv, Texts, Files
  <1>3. PICK place \in {"write", "text", "store", "over"} :
           Go(place) \/ run' = [run EXCEPT !.at = place, !.failed = TRUE]
    BY DEF Initialise, InitEmbed, InitWrite, InitText, InitReady, Stop
  <1>4. /\ run' \in Run /\ run'.kind = run.kind /\ run'.began = run.began
        /\ run'.at = place
    <2>1. place \in Spots
      BY DEF Spots
    <2> QED BY <1>3, <2>1, GoFacts
  <1>5. PlaceOf'
    BY <1>1, <1>4 DEF PlaceOf, Edits
  <1> QED BY <1>1, <1>2, <1>4, <1>5, OtherKeeps

LEMMA EditKeeps == ASSUME IInv, Edit PROVE IInv'
  <1> TypeInv /\ run \in Run
    BY DEF IInv, TypeInv
  <1>1. /\ UNCHANGED <<unit, faults>> /\ unit \in UnitState /\ faults \in Nat
        /\ run.at \in Edits \cup {"truncate", "raw", "validate"}
    BY DEF Edit, ConfigSet, ConfigReset, Truncate, WriteRaw, ConfigEdit, Validate, TypeInv,
           Files, World, Edits
  <1>2. run.kind \in Edits
    BY <1>1 DEF IInv, TypeInv, Run, Commands, PlaceOf, Edits, Unhooked, Hooked, Questions
  <1>3. /\ config' \in Texts \cup {"none"}
        /\ config' = "none" => config = "none" \/ run.began.config = "none"
    BY DEF Edit, ConfigSet, ConfigReset, Truncate, WriteRaw, ConfigEdit, Validate, TypeInv,
           Files, Texts, Run
  <1>4. PICK place \in {"truncate", "raw", "validate", "over"} :
           Go(place) \/ run' = [run EXCEPT !.at = place, !.failed = TRUE]
    BY DEF Edit, ConfigSet, ConfigReset, Truncate, WriteRaw, ConfigEdit, Validate, Stop
  <1>5. /\ run' \in Run /\ run'.kind = run.kind /\ run'.began = run.began
        /\ run'.at = place
    <2>1. place \in Spots
      BY DEF Spots
    <2> QED BY <1>4, <2>1, GoFacts
  <1>6. PlaceOf'
    BY <1>2, <1>5 DEF PlaceOf, Edits
  <1>7. run.kind # "install"
    BY <1>2 DEF Edits
  <1> QED BY <1>1, <1>3, <1>5, <1>6, <1>7, OtherKeeps

LEMMA UninstallKeeps ==
    ASSUME IInv, run.kind # "install", Apply \/ Wipe
    PROVE  IInv'
  <1> TypeInv /\ run \in Run /\ unit \in UnitState
    BY DEF IInv, TypeInv
  <1>0. config \in Texts \cup {"none"} /\ faults \in Nat
    BY DEF TypeInv
  <1>1. run.at \notin {"unit", "reload", "enable", "registerUnit"}
    BY InstallPlaces
  <1>2. CASE AutostartStatus \/ DisableNow \/ UnlinkUnit
    <2>1. run.at \in {"status", "disable", "unlink"} /\ config' = config
      BY <1>2 DEF AutostartStatus, DisableNow, UnlinkUnit, Files
    <2>2. run.kind = "uninstall"
      BY <2>1, OtherPlaces DEF Edits
    <2>3. faults' \in Nat
      <3>1. faults' = faults \/ faults' = faults + 1
        BY <1>2 DEF AutostartStatus, DisableNow, UnlinkUnit, World, Systemctl
      <3> QED BY <3>1, <1>0
    <2>11. {"none", "probe", "is-enabled", "disable"} \subseteq Calls \cup {"none"}
      BY DEF Calls
    <2>4. \/ unit' = unit
          \/ \E call \in Calls \cup {"none"} : unit' \in Stopped(call)
          \/ unit' = [unit EXCEPT !.file = FALSE]
      BY <1>2, <2>11 DEF AutostartStatus, DisableNow, Disabling, UnlinkUnit, Files
    <2>5. /\ unit' \in UnitState
          /\ unit'.file => unit.file
          /\ unit'.enabled => unit.enabled
      <3>1. CASE \E call \in Calls \cup {"none"} : unit' \in Stopped(call)
        BY <3>1, StoppedFacts
      <3>2. CASE unit' = unit \/ unit' = [unit EXCEPT !.file = FALSE]
        BY <3>2 DEF UnitState
      <3> QED BY <2>4, <3>1, <3>2
    <2>6. \/ \E place \in {"disable", "unlink"}, call \in Calls \cup {"none"} : GoOn(place, call)
          \/ Go("wipe") /\ unit' = [unit EXCEPT !.file = FALSE]
      BY <1>2, <2>2, <2>11 DEF AutostartStatus, DisableNow, Disabling, UnlinkUnit
    <2>7. /\ run' \in Run /\ run'.kind = run.kind /\ run'.began = run.began
          /\ run'.at \in {"disable", "unlink", "wipe"}
          /\ run'.at = "wipe" => unit' = [unit EXCEPT !.file = FALSE]
      <3>1. CASE Go("wipe") /\ unit' = [unit EXCEPT !.file = FALSE]
        <4>1. "wipe" \in Spots
          BY DEF Spots
        <4> QED BY <3>1, <4>1, GoFacts
      <3>2. ASSUME NEW place \in {"disable", "unlink"}, NEW call \in Calls \cup {"none"},
                   GoOn(place, call)
            PROVE  /\ run' \in Run /\ run'.kind = run.kind /\ run'.began = run.began
                   /\ run'.at = place
        <4>1. Missing(call) \in SUBSET Calls /\ place \in Spots
          BY DEF Missing, Run, Spots
        <4>2. run' = [run EXCEPT !.at = place, !.missed = Missing(call)]
          BY <3>2 DEF GoOn
        <4> QED BY <4>1, <4>2 DEF Run
      <3> QED BY <2>6, <3>1, <3>2
    <2>8. run'.at = "wipe" => ~unit'.file
      BY <2>7 DEF UnitState
    <2>9. PlaceOf'
      BY <2>2, <2>7 DEF PlaceOf, Edits
    <2>10. config' \in Texts \cup {"none"} /\ (config' = "none" => config = "none")
      BY <1>0, <2>1
    <2> QED BY <2>3, <2>5, <2>7, <2>8, <2>9, <2>10, OtherKeeps
  <1>3. CASE Wipe
    <2>1. /\ run.at = "wipe" /\ config' = "none" /\ UNCHANGED <<unit, faults>> /\ Go("over")
      BY <1>3 DEF Wipe
    <2>2. ~unit.file
      BY <2>1 DEF IInv, Others
    <2>3. /\ run' \in Run /\ run'.kind = run.kind /\ run'.began = run.began
          /\ run'.at = "over"
      <3>1. "over" \in Spots
        BY DEF Spots
      <3> QED BY <2>1, <3>1, GoFacts
    <2>4. PlaceOf'
      BY <2>3, OtherPlaces DEF PlaceOf, Edits
    <2>5. config' \in Texts \cup {"none"} /\ faults' \in Nat /\ unit' \in UnitState
      BY <1>0, <2>1
    <2>6. unit' = unit /\ run'.at # "wipe"
      BY <2>1, <2>3
    <2> QED BY <2>2, <2>3, <2>4, <2>5, <2>6, OtherKeeps
  <1> QED BY <1>1, <1>2, <1>3
          DEF Apply, WriteYaml, WriteText, RegisterRemove, Embed, InitStore, WriteUnit, DaemonReload,
              EnableNow, RegisterDisable, StartNow, ClearHooks, ReadyPanel, Installing

LEMMA HitOtherKeeps ==
    ASSUME IInv, run.kind # "install", Interrupt \/ Term \/ Kill
    PROVE  IInv'
  <1> TypeInv /\ run \in Run /\ unit \in UnitState
    BY DEF IInv, TypeInv
  <1>0. config \in Texts \cup {"none"} /\ faults \in Nat
    BY DEF TypeInv
  <1>1. PICK how \in SUBSET {"kill"} : Cut("over", how)
    BY DEF Interrupt, Term, Kill
  <1>2. /\ UNCHANGED <<unit, faults>>
        /\ run' = [run EXCEPT !.at = "over", !.cut = @ \cup {run.at} \cup how, !.failed = TRUE,
                             !.todo = <<>>]
    BY <1>1 DEF Cut
  <1>3. run' \in Run
    <2>1. run.cut \cup {run.at} \cup how \in SUBSET Causes
      BY DEF Run, Causes
    <2>2. <<>> \in UndoLists
      BY DEF UndoLists
    <2> QED BY <1>2, <2>1, <2>2 DEF Run, Spots
  <1>4. run'.kind = run.kind /\ run'.began = run.began /\ run'.at = "over"
    BY <1>2 DEF Run
  <1>5. config' = config \/ (run.at = "wipe" /\ config' = "none")
    BY DEF Interrupt, Term, Kill
  <1>6. run.at = "wipe" => ~unit.file
    BY DEF IInv, Others
  <1>7. PlaceOf'
    BY <1>4, OtherPlaces DEF PlaceOf, Edits
  <1> QED BY <1>0, <1>2, <1>3, <1>4, <1>5, <1>6, <1>7, OtherKeeps

-----------------------------------------------------------------------------
LEMMA Invariance == Spec => []IInv
  <1>1. IInv /\ [Next]_vars => IInv'
    <2> SUFFICES ASSUME IInv, [Next]_vars PROVE IInv'
      OBVIOUS
    <2>1. CASE UNCHANGED vars
      <3>1. UNCHANGED <<config, unit, host, run, faults>>
        BY <2>1 DEF vars
      <3>2. Loads' <=> Loads
        BY <3>1, LoadsFacts
      <3>3. TypeInv' /\ PlaceOf'
        BY <3>1 DEF IInv, TypeInv, PlaceOf
      <3>4. Hooks => Hooks'
        BY <3>1 DEF Hooks
      <3>5. Done => Done'
        BY <3>1, <3>2 DEF Done, Undone
      <3>6. Undoing => Undoing'
        BY <3>1 DEF Undoing, Clean, Undone
      <3>7. (Kept => Kept') /\ (Others => Others')
        BY <3>1 DEF Kept, Others
      <3> QED BY <3>1, <3>3, <3>4, <3>5, <3>6, <3>7 DEF IInv
    <2>2. CASE \E kind \in Commands : Begin(kind)
      BY <2>2, BeginKeeps
    <2>3. CASE Step
      <3>1. CASE Apply \/ Wipe
        <4>1. Wipe => run.kind # "install"
          BY DEF Wipe, IInv, PlaceOf, Unhooked, Hooked, Questions
        <4> QED BY <3>1, <4>1, ApplyKeeps, UninstallKeeps
      <3>2. CASE Check \/ Ask \/ Rollback \/ Initialise \/ Edit
        BY <3>2, CheckKeeps, AskKeeps, RollbackKeeps, InitialiseKeeps, EditKeeps
      <3> QED BY <2>3, <3>1, <3>2 DEF Step
    <2>4. CASE Interrupt \/ Term \/ Kill
      BY <2>4, HitInstallKeeps, HitOtherKeeps
    <2> QED BY <2>1, <2>2, <2>3, <2>4 DEF Next
  <1> QED BY <1>1, InitIInv, PTL DEF Spec

\* An install that fails or is cancelled has undone what it did, unless a signal
\* hit it in one of the windows that RolledBack names.
THEOREM RolledBackAlways == Spec => []RolledBack
  <1>1. IInv => RolledBack
    BY DEF IInv, Done, Undoing, Clean, Undone, RolledBack
  <1> QED BY <1>1, Invariance, PTL

\* An installer that finds a configuration that loads changes nothing, whatever
\* happens to it.
THEOREM ValidConfigKeptAlways == Spec => []ValidConfigKept
  <1>1. IInv => ValidConfigKept
    BY DEF IInv, Kept, ValidConfigKept
  <1> QED BY <1>1, Invariance, PTL

\* No command leaves a service enabled where there is no configuration, with the
\* exceptions that NoServiceWithoutConfig names.
THEOREM NoServiceWithoutConfigAlways == Spec => []NoServiceWithoutConfig
  <1>1. IInv => NoServiceWithoutConfig
    <2> SUFFICES ASSUME IInv, unit.file, unit.enabled, config = "none"
                 PROVE  \/ /\ run.began.unit.enabled
                           /\ run.began.config = "none" \/ run.kind = "install"
                        \/ run.cut \cap {"registerUnit", "rollback"} # {}
                        \/ run.missed \cap {"enable", "probe"} # {}
      BY DEF NoServiceWithoutConfig
    <2>1. CASE run.kind = "install"
      BY <2>1 DEF IInv, Done, Undoing
    <2>2. CASE run.kind # "install"
      BY <2>2 DEF IInv, Others
    <2> QED BY <2>1, <2>2
  <1> QED BY <1>1, Invariance, PTL
=============================================================================
