----------------------------- MODULE Benchmark -----------------------------
(***************************************************************************)
(* `sieve benchmark` and `sieve demo` (cli.py, cli_benchmark.py,           *)
(* _grader.py): what they ask before they start, the store they empty, the *)
(* passes over a script of turns, and the numbers they report, while the   *)
(* proxy under test goes on writing facts in the background.               *)
(*                                                                         *)
(* A fact is the run that wrote it; 0 is the user.  The commands run       *)
(* against a sandbox, whose store goes with it, or the user's own store.   *)
(*                                                                         *)
(* BenchmarkInit, BenchmarkNext, ...: the plain names are those of         *)
(* Sandbox, and CommandProofs extends both.                                *)
(***************************************************************************)
EXTENDS Naturals, Sequences, FiniteSetsExt, Functions

CONSTANTS
    Messages,    \* the phases of BENCHMARK_MESSAGES
    Expected,    \* the positions of RECALL_EXPECTATIONS
    AskedTurns,  \* what --turns and the wizard may be given
    AskedRuns,   \* what --runs and the wizard may be given, up to a bound
    Windows,     \* context windows the endpoint may report; 0 is none
    Errors,      \* how many turns fail
    ResetFaults  \* how many resets of the store fail

Phases == {"introduce", "retrieve", "deep", "update", "trap"}

ASSUME BenchmarkAssumption ==
    /\ Messages \in Seq(Phases)
    /\ Expected \subseteq 1..Len(Messages)
    /\ \A i \in Expected : Messages[i] \in {"retrieve", "update"}
    /\ AskedTurns \subseteq Nat /\ AskedRuns \subseteq Nat \ {0} /\ Windows \subseteq Nat
    /\ \E most \in AskedRuns : \A n \in AskedRuns : n <= most
    /\ Errors \in Nat /\ ResetFaults \in Nat

VARIABLES
    pc,         \* where the command stands
    plan,       \* what has been asked for and agreed to
    patched,    \* build_agent_payload is the chosen fixture's
    facts,      \* per store: how many facts of each run are in it
    writes,     \* per run: extractions of the proxy under test not yet stored
    stale,      \* the last reset of the store failed
    pass,       \* the pass under way
    results,    \* the CompareSummary of each run
    demo,       \* the counters of the demo
    exit,       \* the exit code; 99 while the command runs
    errors, resetFaults

benchmarkVars == <<pc, plan, patched, facts, writes, stale, pass, results, demo, exit, errors,
                   resetFaults>>

Owners == 0..Max(AskedRuns)
Empty == [o \in Owners |-> 0]
Store == IF plan.main THEN "main" ELSE "sandbox"

Total(rows) ==
    LET upTo[o \in Owners] == rows[o] + IF o = 0 THEN 0 ELSE upTo[o - 1]
    IN  upTo[Max(AskedRuns)]

\* facts_count of store.stats: every row, of whatever status.
Count == Total(facts[Store])

---------------------------------------------------------------------------
(* The script and its grading.                                             *)

(* The first n-1 messages that are not the trap, deep ones again when they *)
(* run out, and the trap.                                                  *)
Script(n) ==
    LET size == Max({3, n})
        body == SelectSeq(Messages, LAMBDA m : m # "trap")
        deep == SelectSeq(Messages, LAMBDA m : m = "deep")
    IN  [i \in 1..size |-> IF i = size THEN "trap"
                           ELSE IF i <= Len(body) THEN body[i]
                           ELSE deep[1 + ((i - Len(body) - 1) % Len(deep))]]

(* The recall grader goes by the position in the script: without a hint    *)
(* there it says None.  The model's verdict, or the keywords' when the     *)
(* model gives none, is `right`.                                           *)
Graded(i) == i \in Expected

(* `late` is for the properties only: what waits to be written when a pass *)
(* begins.                                                                 *)
NewPass(run, kind) ==
    [run |-> run, kind |-> kind, turn |-> 1, graded |-> 0, correct |-> 0, failed |-> FALSE,
     late |-> writes]

---------------------------------------------------------------------------
(* What is asked before anything runs.                                     *)

Fixtures == <<"small", "medium", "large", "xlarge">>

\* 1.8 times the tokens of the system prompt and the tools.
Peak == [small |-> 131, medium |-> 23250, large |-> 112744, xlarge |-> 311956]
Overhead == 2048

Smaller(fixture) ==
    LET at == CHOOSE i \in DOMAIN Fixtures : Fixtures[i] = fixture
    IN  Fixtures[Max({1, at - 1})]

Untouched == <<facts, writes, stale, pass, results, demo, errors, resetFaults>>
Continue(place) == pc' = place
End(code) == pc' = "over" /\ exit' = code

(* Flags suppress the wizard; so does --no-input, and an input that is not *)
(* a terminal.                                                             *)
Command ==
    /\ pc = "start"
    /\ \E noInput, flags, terminal, main, local \in BOOLEAN, window \in Windows,
          fixture \in Range(Fixtures), turns \in AskedTurns, runs \in AskedRuns :
         /\ ~flags => fixture = "medium"
         /\ plan' = [main |-> main, asks |-> ~noInput, local |-> local, window |-> window,
                     fixture |-> fixture, turns |-> turns, runs |-> runs,
                     warned |-> FALSE, skipped |-> FALSE, agreed |-> FALSE]
         /\ Continue(IF ~noInput /\ ~flags /\ terminal THEN "wizard" ELSE "heavy")
    /\ UNCHANGED <<patched, exit, Untouched>>

(* The wizard hides the small fixture.                                     *)
Wizard ==
    /\ pc = "wizard"
    /\ \E fixture \in Range(Fixtures) \ {"small"}, turns \in AskedTurns, runs \in AskedRuns :
         plan' = [plan EXCEPT !.fixture = fixture, !.turns = Max({3, turns}), !.runs = runs]
    /\ Continue("heavy")
    /\ UNCHANGED <<patched, exit, Untouched>>

(* A large fixture on what looks like a local endpoint.                    *)
HeavyFixture ==
    /\ pc = "heavy"
    /\ IF plan.fixture \in {"large", "xlarge"} /\ plan.local
       THEN \/ plan' = [plan EXCEPT !.warned = TRUE]
            \/ plan.asks /\ plan' = [plan EXCEPT !.fixture = "medium", !.skipped = TRUE]
       ELSE UNCHANGED plan
    /\ Continue("preflight")
    /\ UNCHANGED <<patched, exit, Untouched>>

BaselineFits == plan.window = 0 \/ plan.window >= Peak[plan.fixture]
SieveFits == plan.window >= Overhead

Prepared == IF plan.main THEN "consent" ELSE "sandbox"

FitsAll ==
    /\ pc = "preflight" /\ BaselineFits
    /\ Continue(Prepared)
    /\ UNCHANGED <<plan, patched, exit, Untouched>>

(* Run it all the same: the report says what to expect.                    *)
RunAnyway ==
    /\ pc = "preflight" /\ ~BaselineFits
    /\ plan' = [plan EXCEPT !.warned = TRUE]
    /\ Continue(Prepared)
    /\ UNCHANGED <<patched, exit, Untouched>>

DropFixture ==
    /\ pc = "preflight" /\ ~BaselineFits /\ SieveFits /\ plan.asks
    /\ plan' = [plan EXCEPT !.fixture = Smaller(plan.fixture), !.warned = TRUE]
    /\ Continue(Prepared)
    /\ UNCHANGED <<patched, exit, Untouched>>

CancelRun ==
    /\ pc = "preflight" /\ ~BaselineFits /\ plan.asks
    /\ End(0)
    /\ UNCHANGED <<plan, patched, Untouched>>

(* Ctrl-C, the end of the input, or three answers the picker cannot read.  *)
AbortPrompt ==
    /\ \/ pc \in {"wizard", "consent"}
       \/ pc \in {"heavy", "preflight"} /\ plan.asks
    /\ End(1)
    /\ UNCHANGED <<plan, patched, Untouched>>

(* --use-main-store: a proxy must run, the user must say yes, and there    *)
(* must be a store.                                                        *)
Consent ==
    /\ pc = "consent"
    /\ \/ plan' = [plan EXCEPT !.agreed = TRUE] /\ Continue("patch") /\ UNCHANGED exit
       \/ \E code \in {0, 1} : End(code) /\ UNCHANGED plan
    /\ UNCHANGED <<patched, Untouched>>

(* The sandbox may not come up.                                            *)
OpenSandbox ==
    /\ pc = "sandbox"
    /\ \/ Continue("patch") /\ UNCHANGED exit
       \/ End(1)
    /\ UNCHANGED <<plan, patched, Untouched>>

---------------------------------------------------------------------------
(* The passes: for every run the baseline, straight to the model, and then *)
(* Sieve, each over the whole script.                                      *)

Asked == <<plan, demo, errors, exit>>

(* What was asked for no longer matters; the payload builder is patched.   *)
Patch ==
    /\ pc = "patch"
    /\ patched' = TRUE
    /\ plan' = [plan EXCEPT !.window = 0, !.fixture = "medium", !.local = FALSE,
                            !.asks = FALSE, !.warned = FALSE, !.skipped = FALSE]
    /\ pass' = NewPass(1, "baseline")
    /\ Continue("reset")
    /\ UNCHANGED <<facts, writes, stale, results, demo, exit, errors, resetFaults>>

(* Every table is emptied in one transaction; a DELETE that fails, on a    *)
(* store the proxy has locked, is passed over.                             *)
ResetStore ==
    /\ pc = "reset"
    /\ \/ /\ facts' = [facts EXCEPT ![Store] = Empty]
          /\ stale' = FALSE
          /\ UNCHANGED resetFaults
       \/ /\ resetFaults < ResetFaults /\ resetFaults' = resetFaults + 1
          /\ stale' = TRUE
          /\ UNCHANGED facts
    /\ Continue("turn")
    /\ UNCHANGED <<Asked, patched, writes, pass, results>>

GradeTurn(right) ==
    [pass EXCEPT !.turn = @ + 1,
                 !.graded = @ + IF Graded(pass.turn) THEN 1 ELSE 0,
                 !.correct = @ + IF Graded(pass.turn) /\ right THEN 1 ELSE 0]

(* Through Sieve, what the user says may be stored, some time later.       *)
MayLearn(run, phase) ==
    \E n \in IF phase \in {"introduce", "update"} THEN 0..1 ELSE {0} :
        writes' = [writes EXCEPT ![run] = @ + n]

AnswerTurn ==
    /\ pc = "turn" /\ pass.turn <= Len(Script(plan.turns))
    /\ \E right \in BOOLEAN : pass' = GradeTurn(right)
    /\ IF pass.kind = "sieve"
       THEN MayLearn(pass.run, Script(plan.turns)[pass.turn])
       ELSE UNCHANGED writes
    /\ UNCHANGED <<Asked, pc, patched, facts, stale, results, resetFaults>>

(* An error of the model, or of the way to it, where the proxy may have    *)
(* been reached all the same.                                              *)
FailTurn ==
    /\ pc = "turn" /\ pass.turn <= Len(Script(plan.turns))
    /\ errors < Errors /\ errors' = errors + 1
    /\ pass' = [pass EXCEPT !.turn = @ + 1, !.failed = TRUE]
    /\ IF pass.kind = "sieve"
       THEN MayLearn(pass.run, Script(plan.turns)[pass.turn])
       ELSE UNCHANGED writes
    /\ UNCHANGED <<plan, demo, exit, pc, patched, facts, stale, results, resetFaults>>

(* Mutant: the store is emptied before a run only.                         *)
BeginningOnce(kind) == IF kind = "baseline" THEN "reset" ELSE "turn"

(* Where a pass begins: with the store emptied.                            *)
Beginning(kind) == "reset"

(* The benchmark is over, or the next pass begins; neither waits for what  *)
(* the proxy has still to write.                                           *)
EndPass ==
    /\ pc = "turn" /\ pass.turn > Len(Script(plan.turns))
    /\ results' = Append(results, [graded |-> pass.graded, correct |-> pass.correct,
                                   failed |-> pass.failed])
    /\ IF pass.kind = "baseline"
       THEN pass' = NewPass(pass.run, "sieve") /\ Continue(Beginning("sieve")) /\ UNCHANGED patched
       ELSE IF pass.run < plan.runs
       THEN pass' = NewPass(pass.run + 1, "baseline") /\ Continue(Beginning("baseline"))
            /\ UNCHANGED patched
       ELSE Continue("report") /\ patched' = FALSE /\ UNCHANGED pass
    /\ UNCHANGED <<Asked, facts, writes, stale, resetFaults>>

SievePass(run) == results[2 * run]
Reported == 1..(Len(results) \div 2)

(* Mutant: from its baseline.                                              *)
GradableOfBaseline == results[1].graded

(* The aggregate takes the number of questions from the first run.         *)
GradableRecalls == SievePass(1).graded

AllRecallsPerfect ==
    GradableRecalls > 0 /\ \A run \in Reported : SievePass(run).correct = GradableRecalls

(* The sandbox, its store and its proxy go; a main proxy stays.            *)
CleanUp ==
    IF plan.main THEN UNCHANGED <<facts, writes>>
    ELSE facts' = [facts EXCEPT !["sandbox"] = Empty] /\ writes' = Empty

(* The report is written, or could not be: that is only logged.            *)
Report ==
    /\ pc = "report"
    /\ End(0)
    /\ CleanUp
    /\ UNCHANGED <<plan, patched, stale, pass, results, demo, errors, resetFaults>>

(* Ctrl-C, or an exception no turn catches.                                *)
BreakOff ==
    /\ pc \in {"sandbox", "patch", "reset", "turn", "report", "begin", "ask", "wait"}
    /\ \/ End(1)
       \/ ~plan.main /\ End(130)
    /\ patched' = FALSE
    /\ CleanUp
    /\ UNCHANGED <<plan, stale, pass, results, demo, errors, resetFaults>>

(* The proxy stores what it extracted.                                     *)
WriteLands ==
    /\ \E run \in Owners :
         /\ writes[run] > 0
         /\ writes' = [writes EXCEPT ![run] = @ - 1]
         /\ facts' = [facts EXCEPT ![Store][run] = @ + 1]
    /\ UNCHANGED <<Asked, pc, patched, stale, pass, results, resetFaults>>

---------------------------------------------------------------------------
(* The demo: six messages, the first three of them to be remembered.       *)

DemoMessages == 6
Shares == 1..3

\* Without a store to poll every count is 0.
FactCount == IF demo.polls THEN Count ELSE 0

NewDemo(polls) ==
    [turn |-> 1, polls |-> polls, start |-> 0, before |-> 0,
     streak |-> 0, done |-> 0, learned |-> 0]

(* The endpoint must answer, and with --use-main-store a proxy must run.   *)
DemoCommand ==
    /\ pc = "start"
    /\ \/ End(1) /\ UNCHANGED <<plan, demo>>
       \/ \E main, polls \in BOOLEAN :
            /\ plan' = [plan EXCEPT !.main = main]
            /\ demo' = NewDemo(polls)
            /\ Continue("begin") /\ UNCHANGED exit
    /\ UNCHANGED <<patched, facts, writes, stale, pass, results, errors, resetFaults>>

Apart == <<plan, patched, facts, stale, pass, results, resetFaults>>

(* The store has been opened.                                              *)
DemoBegin ==
    /\ pc = "begin"
    /\ demo' = [demo EXCEPT !.start = FactCount]
    /\ Continue("ask")
    /\ UNCHANGED <<Apart, writes, exit, errors>>

DemoLearn ==
    \E n \in IF demo.turn \in Shares THEN 0..1 ELSE {0} :
        writes' = [writes EXCEPT ![1] = @ + n]

(* Mutant: growth is measured from where the demo began.                   *)
DemoAskFromStart ==
    /\ pc = "ask"
    /\ demo' = [demo EXCEPT !.before = demo.start, !.streak = 0, !.done = @ + 1]
    /\ DemoLearn
    /\ Continue("wait")
    /\ UNCHANGED <<Apart, exit, errors>>

(* A message is answered.                                                  *)
DemoAsk ==
    /\ pc = "ask"
    /\ demo' = [demo EXCEPT !.before = FactCount, !.streak = 0, !.done = @ + 1]
    /\ DemoLearn
    /\ Continue("wait")
    /\ UNCHANGED <<Apart, exit, errors>>

(* It fails; the second failure in a row ends the demo, with exit code 0.  *)
(* An answer that is not JSON has cleared the streak first.                *)
DemoFail ==
    /\ pc = "ask" /\ errors < Errors /\ errors' = errors + 1
    /\ \E streak \in {1, demo.streak + 1} :
         /\ demo' = [demo EXCEPT !.before = FactCount, !.streak = streak]
         /\ IF streak >= 2 THEN End(0) /\ CleanUp
            ELSE /\ Continue("wait") /\ DemoLearn
                 /\ UNCHANGED <<facts, exit>>
    /\ UNCHANGED <<plan, patched, stale, pass, results, resetFaults>>

(* The growth has shown, or the wait is over; the last message shows the   *)
(* summary when all were answered.                                         *)
DemoCount ==
    /\ pc = "wait"
    /\ demo' = [demo EXCEPT
         !.learned = @ + IF demo.turn \in Shares THEN Max({0, FactCount - demo.before}) ELSE 0,
         !.turn = @ + 1]
    /\ IF demo.turn < DemoMessages
       THEN Continue("ask") /\ UNCHANGED <<facts, writes, exit>>
       ELSE End(0) /\ CleanUp
    /\ UNCHANGED <<plan, patched, stale, pass, results, errors, resetFaults>>

---------------------------------------------------------------------------
BenchmarkInit ==
    /\ pc = "start" /\ exit = 99 /\ patched = FALSE
    /\ plan = [main |-> FALSE, asks |-> FALSE, local |-> FALSE, window |-> 0,
               fixture |-> "medium", turns |-> 15, runs |-> 3,
               warned |-> FALSE, skipped |-> FALSE, agreed |-> FALSE]
    /\ facts = [main |-> [Empty EXCEPT ![0] = 1], sandbox |-> Empty]
    /\ writes = Empty /\ stale = FALSE
    /\ pass = NewPass(0, "baseline") /\ results = <<>>
    /\ demo = NewDemo(FALSE)
    /\ errors = 0 /\ resetFaults = 0

Ask == Command \/ Wizard \/ HeavyFixture \/ FitsAll \/ RunAnyway \/ DropFixture
       \/ CancelRun \/ AbortPrompt \/ Consent \/ OpenSandbox
Measure == Patch \/ ResetStore \/ AnswerTurn \/ FailTurn \/ EndPass \/ Report
Demonstrate == DemoCommand \/ DemoBegin \/ DemoAsk \/ DemoFail \/ DemoCount

BenchmarkNext == Ask \/ Measure \/ Demonstrate \/ BreakOff \/ WriteLands

BenchmarkSpec == BenchmarkInit /\ [][BenchmarkNext]_benchmarkVars

---------------------------------------------------------------------------
(* While the Sieve pass of a run is measured, the store holds none of the  *)
(* facts of the user, and of the runs before no more than what they left   *)
(* to be written when the pass began: those land after the reset, and are  *)
(* counted for this run.  Unless the reset failed, which the code only     *)
(* logs.                                                                   *)
CleanStart ==
    pc = "turn" /\ pass.kind = "sieve" /\ ~stale
        => /\ facts[Store][0] = 0
           /\ \A o \in Owners \ {pass.run} : facts[Store][o] <= pass.late[o]

(* No more right answers are reported than questions, and a perfect recall *)
(* only when every run answered all of its questions, provided every turn  *)
(* of the first Sieve pass was answered.                                   *)
HeadlineSound ==
    pc = "report" /\ ~SievePass(1).failed
        => \A run \in Reported :
             /\ SievePass(run).correct <= GradableRecalls
             /\ AllRecallsPerfect => SievePass(run).correct = SievePass(run).graded

(* The demo reports no more new facts than the store has gained since it   *)
(* began: a fact that is late counts for one message.                      *)
DemoCountsOnce ==
    pc \in {"ask", "wait"} /\ demo.polls => demo.learned <= Count - demo.start

=============================================================================
