------------------------------- MODULE Build -------------------------------
(***************************************************************************)
(* The red-to-green workflow of ProperC, ProperDS, ProperInterview,        *)
(* ProperMachine, ProperNet and ProperOS, whose Makefiles are the same: a  *)
(* reader replaces the stubs of src/<module>.c and runs make, in one       *)
(* window, while the editor stays open in another.                         *)
(*                                                                         *)
(* A file is what the compiler and the tests tell apart: the routines that *)
(* do not compile yet (TODO, which is a failing _Static_assert) and the    *)
(* ones that compile but fail their section of the test.  Time stamps are  *)
(* modelled by what make asks of them: is the source newer than the        *)
(* binary?  The compiler reads its files when it starts and writes the     *)
(* binary when it ends.                                                    *)
(*                                                                         *)
(* A definition named Bug... is a plausible slip, no part of Spec.         *)
(***************************************************************************)
EXTENDS Integers, Sequences

CONSTANTS
  Module, Routine,
  Suite,       \* the lists make may be given as MODULES
  Todo, Wrong, \* module -> its routines that do not compile, or are wrong, as shipped
  Portion(_),  \* the parts of a set of routines a reader deals with in one edit
  San,         \* the values make may be given as SAN
  MaxEdits     \* bound: how often a file is saved

ASSUME SuiteAssumption == Suite \subseteq Seq(Module)
ASSUME StubAssumption == /\ Todo \in [Module -> SUBSET Routine]
                         /\ Wrong \in [Module -> SUBSET Routine]
                         /\ MaxEdits \in Nat

VARIABLES
  mods,     \* MODULES
  todo, wrong,    \* the sources, src/<m>.c
  newer,    \* the modules whose source is newer than their binary, or that have none
  raced,    \* those whose source was saved while it was last being compiled
  late,     \* those whose source was saved since make was last started
  bin,      \* what the binary was compiled from, and how
  goals,    \* what the running make still has to do
  run,      \* it also runs the tests (make test), or only builds (make all)
  san,      \* its SAN
  phase,    \* "idle", or where make is with the first of its goals
  snap,     \* what the compiler has read
  asked,    \* the modules it was given
  verdict,  \* of the last make: "none", "passed" or "failed"
  edits

source == <<todo, wrong>>
stamps == <<newer, raced, late>>
make   == <<goals, run, san, phase, snap, asked, verdict>>
vars   == <<mods, source, stamps, bin, make, edits>>

NoBinary == [todo |-> {}, wrong |-> {}, san |-> "none"]

Init == /\ mods \in Suite
        /\ todo = Todo /\ wrong = Wrong
        /\ newer = Module /\ raced = {} /\ late = {}
        /\ bin = [m \in Module |-> NoBinary]
        /\ goals = <<>> /\ run = FALSE /\ san \in San /\ phase = "idle"
        /\ snap = NoBinary /\ asked = {} /\ verdict = "none"
        /\ edits = 0

Goal == Head(goals)
Members(list) == {list[x] : x \in DOMAIN list}

-----------------------------------------------------------------------------
(* The reader *)

Save(m) == /\ edits < MaxEdits /\ edits' = edits + 1
           /\ newer' = newer \cup {m} /\ late' = late \cup {m}
           /\ raced' = IF phase = "compile" /\ m = Goal THEN raced \cup {m} ELSE raced
           /\ UNCHANGED <<mods, bin, make>>

\* Some TODO lines are replaced by code, right or wrong.
Write(m) == \E done \in Portion(todo[m]) :
              /\ done # {} /\ done \subseteq todo[m]
              /\ todo' = [todo EXCEPT ![m] = @ \ done]
              /\ \E slips \in {{}, done} : wrong' = [wrong EXCEPT ![m] = @ \cup slips]
              /\ Save(m)

Debug(m) == /\ wrong[m] # {}
            /\ wrong' = [wrong EXCEPT ![m] = {}]
            /\ UNCHANGED todo /\ Save(m)

Reader == \E m \in Members(mods) : Write(m) \/ Debug(m)

-----------------------------------------------------------------------------
(* make *)

Begin(list, tests) == /\ phase = "idle"
                      /\ goals' = list /\ run' = tests /\ phase' = "look"
                      /\ san' \in San
                      /\ asked' = Members(list) /\ verdict' = "none" /\ late' = {}
                      /\ UNCHANGED <<mods, source, newer, raced, bin, snap, edits>>

MakeTest == Begin(mods, TRUE)
MakeOne  == \E m \in Members(mods) : Begin(<<m>>, TRUE)
MakeAll  == Begin(mods, FALSE)

MakeClean == /\ phase = "idle" /\ bin # [m \in Module |-> NoBinary]
             /\ newer' = Module /\ raced' = {} /\ late' = {}
             /\ bin' = [m \in Module |-> NoBinary]
             /\ asked' = {} /\ verdict' = "none"
             /\ UNCHANGED <<mods, source, goals, run, san, phase, snap, edits>>

\* A bug: only what is missing is built.
BugNeeded(m) == bin[m] = NoBinary

\* The rule for build/test_<m>: src/<m>.c counts (and tests/test_<m>.c, which nobody
\* edits), the headers and SAN do not.
Needed(m) == m \in newer

Look == /\ phase = "look" /\ goals # <<>>
        /\ IF Needed(Goal)
           THEN /\ phase' = "compile" /\ raced' = raced \ {Goal}
                /\ snap' = [todo |-> todo[Goal], wrong |-> wrong[Goal], san |-> san]
           ELSE phase' = "run" /\ UNCHANGED <<snap, raced>>
        /\ UNCHANGED <<mods, source, newer, late, bin, goals, run, san, asked, verdict, edits>>

Stop(v) == phase' = "idle" /\ verdict' = v /\ goals' = <<>>

\* A bug: a TODO is only a warning.
BugCompiles(text) == TRUE

Compiles(text) == text.todo = {}

\* On an error the old binary stays where it is.
Compile == /\ phase = "compile"
           /\ IF Compiles(snap)
              THEN /\ bin' = [bin EXCEPT ![Goal] = snap] /\ newer' = newer \ {Goal}
                   /\ phase' = "run" /\ UNCHANGED <<goals, verdict>>
              ELSE Stop("failed") /\ UNCHANGED <<bin, newer>>
           /\ UNCHANGED <<mods, source, raced, late, run, san, snap, asked, edits>>

\* A bug: the loop goes on without set -e.
BugTest == /\ phase = "run"
           /\ goals' = Tail(goals) /\ phase' = "look" /\ UNCHANGED verdict
           /\ UNCHANGED <<mods, source, stamps, bin, run, san, snap, asked, edits>>

\* The binary ends with 0 when none of its sections fails; set -e ends the loop.
Test == /\ phase = "run"
        /\ IF run => bin[Goal].wrong = {}
           THEN /\ goals' = Tail(goals) /\ phase' = "look" /\ UNCHANGED verdict
           ELSE Stop("failed")
        /\ UNCHANGED <<mods, source, stamps, bin, run, san, snap, asked, edits>>

\* It prints ALL MODULES PASSED.
Finish == /\ phase = "look" /\ goals = <<>>
          /\ Stop("passed")
          /\ UNCHANGED <<mods, source, stamps, bin, run, san, snap, asked, edits>>

Next == Reader \/ MakeTest \/ MakeOne \/ MakeAll \/ MakeClean
        \/ Look \/ Compile \/ Test \/ Finish

Spec == Init /\ [][Next]_vars

-----------------------------------------------------------------------------
Text == [todo : SUBSET Routine, wrong : SUBSET Routine, san : San \cup {"none"}]

TypeOK == /\ mods \in Suite
          /\ todo \in [Module -> SUBSET Routine] /\ wrong \in [Module -> SUBSET Routine]
          /\ newer \subseteq Module /\ raced \subseteq Module /\ late \subseteq Module
          /\ bin \in [Module -> Text] /\ snap \in Text
          /\ goals \in Seq(Module) /\ run \in BOOLEAN /\ san \in San
          /\ phase \in {"idle", "look", "compile", "run"}
          /\ phase \in {"compile", "run"} => goals # <<>>
          /\ asked \subseteq Module /\ verdict \in {"none", "passed", "failed"}
          /\ edits \in 0 .. MaxEdits

\* A binary that make holds for up to date is the one of the source as it stands,
\* unless the source was saved while the compiler was at work: that edit is the only
\* one make overlooks for good.
UpToDate == \A m \in Module \ (newer \cup raced) :
              todo[m] = {} /\ bin[m].todo = {} /\ bin[m].wrong = wrong[m]

\* After ALL MODULES PASSED (Makefile:44) none of the modules make was given
\* has anything left to do or anything wrong, but for what was saved after make began,
\* or while the binary was being compiled: none was passed over, and a module that was
\* edited before is not passed on its older binary.
GreenIsEarned ==
  verdict = "passed" /\ run =>
    \A m \in asked \ (late \cup raced) : todo[m] = {} /\ wrong[m] = {}

\* A make that fails does so on a module that is not done, but for what was saved after
\* it began or while the binary was being compiled: no old binary fails a new source.
FailsForCause ==
  [][verdict = "none" /\ verdict' = "failed" =>
       todo[Goal] # {} \/ wrong[Goal] # {} \/ Goal \in late \cup raced]_vars

\* `make test SAN=undefined     # UBSan only' (Makefile:5), `make test SAN=thread
\* # TSan (use for threads/atomics modules)' (ProperOS/Makefile:6): the tests that
\* run were compiled the way this make was told to.
SanHonoured == phase = "run" /\ run => bin[Goal].san = san
=============================================================================
