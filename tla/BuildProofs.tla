---------------------------- MODULE BuildProofs ----------------------------
(***************************************************************************)
(* What make promises its reader, for any set of modules and any number of *)
(* edits: theorems about Build.                                            *)
(***************************************************************************)
EXTENDS Build, TLAPS

-----------------------------------------------------------------------------
(* Lists of goals *)

LEMMA HeadAndTail ==
  ASSUME NEW list \in Seq(Module), list # <<>>
  PROVE  /\ Head(list) \in Members(list) /\ Head(list) \in Module
         /\ Tail(list) \in Seq(Module)
         /\ Members(list) \subseteq Members(Tail(list)) \cup {Head(list)}
<1>1. Len(list) \in Nat /\ Len(list) > 0 /\ DOMAIN list = 1 .. Len(list)
  OBVIOUS
<1>2. Head(list) = list[1] /\ 1 \in DOMAIN list /\ list[1] \in Module
  BY <1>1
<1>3. /\ Tail(list) \in Seq(Module)
      /\ DOMAIN Tail(list) = 1 .. Len(list) - 1
      /\ \A x \in 1 .. Len(list) - 1 : Tail(list)[x] = list[x + 1]
  BY <1>1
<1>4. ASSUME NEW x \in DOMAIN list, x # 1
      PROVE  list[x] \in Members(Tail(list))
  <2>1. x - 1 \in DOMAIN Tail(list) /\ Tail(list)[x - 1] = list[x]
    BY <1>1, <1>3, <1>4
  <2> QED BY <2>1 DEF Members
<1> QED BY <1>2, <1>3, <1>4 DEF Members

LEMMA MembersType ==
  ASSUME NEW list \in Seq(Module)
  PROVE  Members(list) \subseteq Module
BY DEF Members

-----------------------------------------------------------------------------
(* Types *)

\* Make begins at rest, with nothing compiled.
THEOREM TypeInit == Init => TypeOK
<1> SUFFICES ASSUME Init PROVE TypeOK
  OBVIOUS
<1>1. NoBinary \in Text /\ <<>> \in Seq(Module)
  BY DEF NoBinary, Text
<1>2. bin \in [Module -> Text] /\ snap \in Text
  BY <1>1 DEF Init
<1>3. goals \in Seq(Module) /\ phase = "idle" /\ run \in BOOLEAN
  BY <1>1 DEF Init
<1>4. edits \in 0 .. MaxEdits
  BY StubAssumption DEF Init
<1> QED BY <1>2, <1>3, <1>4, StubAssumption DEF Init, TypeOK

LEMMA SaveTyped ==
  ASSUME TypeOK, NEW m \in Module, Save(m)
  PROVE  /\ mods' \in Suite
         /\ newer' \subseteq Module /\ raced' \subseteq Module /\ late' \subseteq Module
         /\ bin' \in [Module -> Text] /\ snap' \in Text
         /\ goals' \in Seq(Module) /\ run' \in BOOLEAN /\ san' \in San
         /\ phase' \in {"idle", "look", "compile", "run"}
         /\ phase' \in {"compile", "run"} => goals' # <<>>
         /\ asked' \subseteq Module /\ verdict' \in {"none", "passed", "failed"}
         /\ edits' \in 0 .. MaxEdits
BY StubAssumption DEF TypeOK, Save, make

LEMMA BeginTyped ==
  ASSUME TypeOK, NEW list \in Seq(Module), NEW tests \in BOOLEAN, Begin(list, tests)
  PROVE  TypeOK'
BY MembersType DEF TypeOK, Begin, source

LEMMA TypeStep == TypeOK /\ [Next]_vars => TypeOK'
<1> SUFFICES ASSUME TypeOK, [Next]_vars PROVE TypeOK'
  OBVIOUS
<1>m. mods \in Seq(Module) /\ Members(mods) \subseteq Module
  BY MembersType, SuiteAssumption DEF TypeOK
<1>1. ASSUME NEW m \in Members(mods), Write(m) PROVE TypeOK'
  <2>1. m \in Module
    BY <1>m
  <2>2. PICK done \in Portion(todo[m]) :
          /\ done \subseteq todo[m]
          /\ todo' = [todo EXCEPT ![m] = @ \ done]
          /\ \E slips \in {{}, done} : wrong' = [wrong EXCEPT ![m] = @ \cup slips]
          /\ Save(m)
    BY <1>1 DEF Write
  <2>3. todo' \in [Module -> SUBSET Routine] /\ wrong' \in [Module -> SUBSET Routine]
    BY <2>1, <2>2 DEF TypeOK
  <2> QED BY <2>1, <2>2, <2>3, SaveTyped DEF TypeOK
<1>2. ASSUME NEW m \in Members(mods), Debug(m) PROVE TypeOK'
  <2>1. m \in Module
    BY <1>m
  <2>2. todo' \in [Module -> SUBSET Routine] /\ wrong' \in [Module -> SUBSET Routine]
    BY <1>2, <2>1 DEF TypeOK, Debug
  <2> QED BY <1>2, <2>1, <2>2, SaveTyped DEF TypeOK, Debug
<1>3. CASE MakeTest
  BY <1>3, <1>m, BeginTyped DEF MakeTest
<1>4. CASE MakeOne
  <2>1. PICK m \in Members(mods) : Begin(<<m>>, TRUE)
    BY <1>4 DEF MakeOne
  <2>2. <<m>> \in Seq(Module)
    BY <1>m
  <2> QED BY <2>1, <2>2, BeginTyped
<1>5. CASE MakeAll
  BY <1>5, <1>m, BeginTyped DEF MakeAll
<1>6. CASE MakeClean
  <2>1. NoBinary \in Text
    BY DEF NoBinary, Text
  <2> QED BY <1>6, <2>1 DEF TypeOK, MakeClean, source
<1>7. CASE Look
  <2>1. Goal \in Module
    BY <1>7, HeadAndTail DEF Look, Goal, TypeOK
  <2>2. [todo |-> todo[Goal], wrong |-> wrong[Goal], san |-> san] \in Text
    BY <2>1 DEF TypeOK, Text
  <2> QED BY <1>7, <2>2 DEF TypeOK, Look, source
<1>8. CASE Compile
  <2>1. Goal \in Module
    BY <1>8, HeadAndTail DEF Compile, Goal, TypeOK
  <2>2. <<>> \in Seq(Module)
    OBVIOUS
  <2>3. bin' \in [Module -> Text] /\ newer' \subseteq Module
    BY <1>8, <2>1 DEF TypeOK, Compile
  <2>4. goals' \in Seq(Module) /\ (phase' = "run" => goals' # <<>>) /\ phase' \in {"idle", "run"}
    <3>1. CASE Compiles(snap)
      BY <1>8, <3>1 DEF TypeOK, Compile
    <3>2. CASE ~Compiles(snap)
      BY <1>8, <2>2, <3>2 DEF TypeOK, Compile, Stop
    <3> QED BY <3>1, <3>2
  <2>5. verdict' \in {"none", "passed", "failed"}
    BY <1>8 DEF TypeOK, Compile, Stop
  <2> QED BY <1>8, <2>3, <2>4, <2>5 DEF TypeOK, Compile, source
<1>9. CASE Test
  <2>1. Tail(goals) \in Seq(Module) /\ <<>> \in Seq(Module)
    BY <1>9, HeadAndTail DEF Test, TypeOK
  <2> QED BY <1>9, <2>1 DEF TypeOK, Test, Stop, source, stamps
<1>10. CASE Finish
  BY <1>10 DEF TypeOK, Finish, Stop, source, stamps
<1>11. CASE UNCHANGED vars
  BY <1>11 DEF TypeOK, vars, source, stamps, make
<1> QED BY <1>1, <1>2, <1>3, <1>4, <1>5, <1>6, <1>7, <1>8, <1>9, <1>10, <1>11
        DEF Next, Reader

\* Every variable keeps to its type, and make is never at a goal it does not have.
THEOREM TypeCorrect == Spec => []TypeOK
BY TypeInit, TypeStep, PTL DEF Spec

-----------------------------------------------------------------------------
(* The invariant *)

\* What the compiler works on needed it, and is the source unless that was saved since.
Compiling == phase = "compile" =>
               /\ Goal \in newer
               /\ Goal \notin raced => snap.todo = todo[Goal] /\ snap.wrong = wrong[Goal]

\* A binary that is about to be run is up to date but for a save since make began.
Running == phase = "run" => Goal \notin newer \ late

\* What a make that tests has left behind it is done.
Behind == phase # "idle" /\ run =>
            \A m \in asked \ (Members(goals) \cup late \cup raced) :
              todo[m] = {} /\ wrong[m] = {}

\* There is no verdict while make is at work.
Pending == phase # "idle" => verdict = "none"

Inv == /\ TypeOK /\ UpToDate /\ GreenIsEarned
       /\ Compiling /\ Running /\ Behind /\ Pending

LEMMA InvInit == Init => Inv
<1> SUFFICES ASSUME Init PROVE Inv
  OBVIOUS
<1> QED BY TypeInit DEF Init, Inv, UpToDate, GreenIsEarned, Compiling, Running, Behind, Pending

\* An edit of m, whatever it writes, leaves the other modules alone.
LEMMA EditStep ==
  ASSUME Inv, NEW m \in Module, Save(m),
         \A x \in Module \ {m} : todo'[x] = todo[x] /\ wrong'[x] = wrong[x]
  PROVE  UpToDate' /\ GreenIsEarned' /\ Compiling' /\ Running' /\ Behind' /\ Pending'
<1> USE DEF Inv, Save, make
<1>g. phase \in {"compile", "run"} => Goal \in Module
  BY HeadAndTail DEF Goal, TypeOK
<1>u. Goal' = Goal /\ Members(goals') = Members(goals)
  BY DEF Goal, Members
<1>1. UpToDate'
  BY DEF UpToDate
<1>2. GreenIsEarned'
  BY DEF GreenIsEarned, TypeOK
<1>3. Compiling'
  <2>1. CASE m = Goal
    BY <1>u, <2>1 DEF Compiling
  <2>2. CASE m # Goal
    BY <1>u, <1>g, <2>2 DEF Compiling
  <2> QED BY <2>1, <2>2
<1>4. Running'
  BY <1>u DEF Running
<1>5. Behind'
  <2> SUFFICES ASSUME phase' # "idle", run',
                      NEW x \in asked' \ (Members(goals') \cup late' \cup raced')
               PROVE  todo'[x] = {} /\ wrong'[x] = {}
    BY DEF Behind
  <2>1. x # m /\ x \in Module /\ x \in asked \ (Members(goals) \cup late \cup raced)
    BY <1>u DEF TypeOK
  <2> QED BY <2>1 DEF Behind
<1>6. Pending'
  BY DEF Pending
<1> QED BY <1>1, <1>2, <1>3, <1>4, <1>5, <1>6

LEMMA BeginStep ==
  ASSUME Inv, NEW list \in Seq(Module), NEW tests \in BOOLEAN, Begin(list, tests)
  PROVE  UpToDate' /\ GreenIsEarned' /\ Compiling' /\ Running' /\ Behind' /\ Pending'
<1> USE DEF Inv, Begin, source
<1>1. UpToDate'
  BY DEF UpToDate
<1>2. Behind'
  BY DEF Behind
<1> QED BY <1>1, <1>2 DEF GreenIsEarned, Compiling, Running, Pending

LEMMA LookStep ==
  ASSUME Inv, Look
  PROVE  UpToDate' /\ GreenIsEarned' /\ Compiling' /\ Running' /\ Behind' /\ Pending'
<1> USE DEF Inv, Look, Needed, source
<1>g. Goal \in Module /\ Goal \in Members(goals) /\ Goal' = Goal
  BY HeadAndTail DEF Goal, TypeOK
<1>1. UpToDate'
  BY DEF UpToDate
<1>2. Compiling'
  BY <1>g DEF Compiling
<1>3. Running'
  BY <1>g DEF Running
<1>4. Behind'
  <2> SUFFICES ASSUME phase' # "idle", run',
                      NEW x \in asked' \ (Members(goals') \cup late' \cup raced')
               PROVE  todo'[x] = {} /\ wrong'[x] = {}
    BY DEF Behind
  <2>1. x \notin Members(goals) /\ x # Goal
    BY <1>g DEF Members
  <2>2. x \in asked \ (Members(goals) \cup late \cup raced)
    BY <2>1
  <2> QED BY <2>2 DEF Behind
<1>5. GreenIsEarned' /\ Pending'
  BY DEF GreenIsEarned, Pending
<1> QED BY <1>1, <1>2, <1>3, <1>4, <1>5

LEMMA CompileStep ==
  ASSUME Inv, Compile
  PROVE  UpToDate' /\ GreenIsEarned' /\ Compiling' /\ Running' /\ Behind' /\ Pending'
<1> USE DEF Inv, Compile, Compiles, Stop, source
<1>g. Goal \in Module
  BY HeadAndTail DEF Goal, TypeOK
<1>1. UpToDate'
  BY <1>g DEF UpToDate, Compiling, TypeOK
<1>2. Running'
  BY DEF Running, Goal
<1>3. Behind'
  BY DEF Behind, Members
<1>4. GreenIsEarned' /\ Compiling' /\ Pending'
  BY DEF GreenIsEarned, Compiling, Pending
<1> QED BY <1>1, <1>2, <1>3, <1>4

\* A binary that passes is the one of a source with nothing to do and nothing wrong.
LEMMA RunsCurrent ==
  ASSUME Inv, phase = "run", Goal \notin late \cup raced
  PROVE  Goal \in Module /\ todo[Goal] = {} /\ wrong[Goal] = bin[Goal].wrong
<1>1. Goal \in Module
  BY HeadAndTail DEF Inv, Goal, TypeOK
<1> QED BY <1>1 DEF Inv, Running, UpToDate

LEMMA TestStep ==
  ASSUME Inv, Test
  PROVE  UpToDate' /\ GreenIsEarned' /\ Compiling' /\ Running' /\ Behind' /\ Pending'
<1> USE DEF Inv, Test, Stop, source, stamps
<1>1. Behind'
  <2> SUFFICES ASSUME phase' # "idle", run',
                      NEW x \in asked' \ (Members(goals') \cup late' \cup raced')
               PROVE  todo'[x] = {} /\ wrong'[x] = {}
    BY DEF Behind
  <2>1. run /\ bin[Goal].wrong = {} /\ goals' = Tail(goals)
    OBVIOUS
  <2>2. x \in Members(goals) => x = Goal
    BY <2>1, HeadAndTail DEF Goal, TypeOK
  <2>3. CASE x = Goal
    BY <2>1, <2>3, RunsCurrent
  <2>4. CASE x # Goal
    BY <2>1, <2>2, <2>4 DEF Behind
  <2> QED BY <2>3, <2>4
<1>2. UpToDate'
  BY DEF UpToDate
<1>3. GreenIsEarned' /\ Compiling' /\ Running' /\ Pending'
  BY DEF GreenIsEarned, Compiling, Running, Pending
<1> QED BY <1>1, <1>2, <1>3

LEMMA FinishStep ==
  ASSUME Inv, Finish
  PROVE  UpToDate' /\ GreenIsEarned' /\ Compiling' /\ Running' /\ Behind' /\ Pending'
<1> USE DEF Inv, Finish, Stop, source, stamps
<1>1. GreenIsEarned'
  BY DEF GreenIsEarned, Behind, Members
<1>2. UpToDate'
  BY DEF UpToDate
<1> QED BY <1>1, <1>2 DEF Compiling, Running, Behind, Pending

LEMMA InvStep == Inv /\ [Next]_vars => Inv'
<1> SUFFICES ASSUME Inv, [Next]_vars PROVE Inv'
  OBVIOUS
<1>t. TypeOK'
  BY TypeStep DEF Inv
<1>m. mods \in Seq(Module) /\ Members(mods) \subseteq Module
  BY MembersType, SuiteAssumption DEF Inv, TypeOK
<1> DEFINE Kept == UpToDate /\ GreenIsEarned /\ Compiling /\ Running /\ Behind /\ Pending
<1> SUFFICES Kept'
  BY <1>t DEF Inv
<1>1. ASSUME NEW m \in Members(mods), Write(m) \/ Debug(m) PROVE Kept'
  <2>1. /\ m \in Module /\ Save(m)
        /\ \A x \in Module \ {m} : todo'[x] = todo[x] /\ wrong'[x] = wrong[x]
    BY <1>1, <1>m DEF Write, Debug, Inv, TypeOK
  <2> QED BY <2>1, EditStep
<1>2. CASE MakeTest
  BY <1>2, <1>m, BeginStep DEF MakeTest
<1>3. CASE MakeOne
  <2>1. PICK m \in Members(mods) : Begin(<<m>>, TRUE)
    BY <1>3 DEF MakeOne
  <2>2. <<m>> \in Seq(Module)
    BY <1>m
  <2> QED BY <2>1, <2>2, BeginStep
<1>4. CASE MakeAll
  BY <1>4, <1>m, BeginStep DEF MakeAll
<1>5. CASE MakeClean
  BY <1>5 DEF MakeClean, UpToDate, GreenIsEarned, Compiling, Running, Behind, Pending
<1>6. CASE UNCHANGED vars
  BY <1>6 DEF vars, source, stamps, make, Inv, UpToDate, GreenIsEarned, Compiling, Running,
              Behind, Pending, Goal, Members
<1> QED BY <1>1, <1>2, <1>3, <1>4, <1>5, <1>6, LookStep, CompileStep, TestStep, FinishStep
        DEF Next, Reader

LEMMA InvHolds == Spec => []Inv
BY InvInit, InvStep, PTL DEF Spec

-----------------------------------------------------------------------------
\* What make leaves alone (Makefile:32) it may: the binary is that of the source, except
\* where the source was saved while the compiler was at work.
THEOREM Fresh == Spec => []UpToDate
<1>1. Inv => UpToDate
  BY DEF Inv
<1> QED BY <1>1, InvHolds, PTL

\* ALL MODULES PASSED (Makefile:44) is true, when it is printed and until the next save,
\* of every module make was given, except of one saved after make began and of one whose
\* binary was compiled while its source was saved: this one passes on its older binary
\* now and in every later make, until it is saved again.
THEOREM Earned == Spec => []GreenIsEarned
<1>1. Inv => GreenIsEarned
  BY DEF Inv
<1> QED BY <1>1, InvHolds, PTL

\* A make that stops at a module (set -e, Makefile:41) stops because of that module,
\* with the same two exceptions.
THEOREM Cause == Spec => FailsForCause
<1> DEFINE Because == verdict = "none" /\ verdict' = "failed" =>
                        todo[Goal] # {} \/ wrong[Goal] # {} \/ Goal \in late \cup raced
<1>1. Inv /\ [Next]_vars => [Because]_vars
  <2> SUFFICES ASSUME Inv, Next, verdict = "none", verdict' = "failed"
               PROVE  todo[Goal] # {} \/ wrong[Goal] # {} \/ Goal \in late \cup raced
    OBVIOUS
  <2>1. CASE Compile
    BY <2>1 DEF Compile, Compiles, Stop, Inv, Compiling
  <2>2. CASE Test
    BY <2>2, RunsCurrent DEF Test, Stop
  <2>3. ~(\E m \in Members(mods) : Write(m) \/ Debug(m))
    BY DEF Write, Debug, Save, make
  <2>4. ~(MakeTest \/ MakeOne \/ MakeAll \/ MakeClean \/ Look \/ Finish)
    BY DEF MakeTest, MakeOne, MakeAll, MakeClean, Begin, Look, Finish, Stop
  <2> QED BY <2>1, <2>2, <2>3, <2>4 DEF Next, Reader
<1>2. [][Because]_vars <=> FailsForCause
  BY PTL DEF FailsForCause
<1> QED BY <1>1, <1>2, InvHolds, PTL DEF Spec
=============================================================================
