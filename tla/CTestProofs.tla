---------------------------- MODULE CTestProofs ----------------------------
(***************************************************************************)
(* What CTest promises for every set of sections, timeout, room in the     *)
(* list of failed sections and length of program.                          *)
(***************************************************************************)
EXTENDS CTest, TLAPS

\* How many of n sections the list has room for.
Room(n) == IF n < MaxFailed THEN n ELSE MaxFailed

\* The counter and the history agree on whether anything went wrong, and a
\* section is aborted only after one of its checks was false: so what an aborted
\* section evaluates without looking adds nothing to either.
Counted == (failed = 0) <=> (wrong = <<>>)
AbortedIsWrong == aborted = 1 => Listed(wrong, section)

IInv == TypeOK /\ SummaryExact /\ Counted /\ AbortedIsWrong /\ VerdictExact

-----------------------------------------------------------------------------
\* The part of a list of n entries that ctest_failed_sections has room for.
LEMMA RoomFact == ASSUME NEW n \in Nat
                  PROVE  /\ Room(n) \in Nat
                         /\ Room(n) <= n /\ Room(n) <= MaxFailed
                         /\ n < MaxFailed => Room(n) = n
                         /\ n >= MaxFailed => Room(n) = MaxFailed
BY CTestAssumption DEF Room

\* A prefix, and what it holds.
LEMMA PrefixFact == ASSUME NEW S, NEW w \in Seq(S), NEW n \in 0..Len(w)
                    PROVE  /\ SubSeq(w, 1, n) \in Seq(S)
                           /\ Len(SubSeq(w, 1, n)) = n
                           /\ \A i \in 1..n : SubSeq(w, 1, n)[i] = w[i]
OBVIOUS

\* Appending changes no prefix of what was there.
LEMMA PrefixOfAppend ==
  ASSUME NEW S, NEW w \in Seq(S), NEW x \in S, NEW n \in 0..Len(w)
  PROVE  SubSeq(Append(w, x), 1, n) = SubSeq(w, 1, n)
OBVIOUS

\* The whole of a list with one more entry.
LEMMA WholeOfAppend ==
  ASSUME NEW S, NEW w \in Seq(S), NEW x \in S
  PROVE  SubSeq(Append(w, x), 1, Len(w) + 1) = Append(SubSeq(w, 1, Len(w)), x)
OBVIOUS

-----------------------------------------------------------------------------
\* SummaryExact with its bound named.
LEMMA SummaryAsPrefix == SummaryExact <=> failedSections = SubSeq(wrong, 1, Room(Len(wrong)))
BY DEF SummaryExact, Room

\* A program that starts has failed nothing.
LEMMA InitIInv == Init => IInv
<1> SUFFICES ASSUME Init PROVE IInv
  OBVIOUS
<1>1. TypeOK
  BY CTestAssumption DEF Init, TypeOK
<1>2. SummaryExact
  <2>1. Len(wrong) = 0 /\ wrong = <<>> /\ failedSections = <<>>
    BY DEF Init
  <2>2. SubSeq(<<>>, 1, 0) = <<>>
    OBVIOUS
  <2> QED BY <2>1, <2>2, CTestAssumption DEF SummaryExact
<1>3. Counted /\ AbortedIsWrong /\ VerdictExact
  BY DEF Init, Counted, AbortedIsWrong, VerdictExact
<1> QED BY <1>1, <1>2, <1>3 DEF IInv

\* The heart of it: a first failure is entered in the list and in the history
\* together; a repeated one in neither; and a section the list had no room for
\* finds it still full.
LEMMA NoteFailKeepsSummary ==
  ASSUME TypeOK, SummaryExact, NoteFail,
         wrong' = IF Listed(wrong, section) THEN wrong ELSE Append(wrong, section)
  PROVE  SummaryExact'
<1> DEFINE n == Room(Len(wrong))
           Name == Section \cup {TopLevel}
<1>0. wrong \in Seq(Name) /\ section \in Name
  BY Zenon DEF TypeOK
<1>1. wrong \in Seq(Name) /\ section \in Name /\ Len(wrong) \in Nat
  BY <1>0
<1>2. /\ n \in 0..Len(wrong) /\ n <= MaxFailed
      /\ Len(wrong) < MaxFailed => n = Len(wrong)
      /\ Len(wrong) >= MaxFailed => n = MaxFailed
  BY <1>1, RoomFact
<1>3. failedSections = SubSeq(wrong, 1, n)
  BY SummaryAsPrefix
<1>4. /\ Len(failedSections) = n
      /\ \A i \in 1..n : failedSections[i] = wrong[i]
  BY <1>1, <1>2, <1>3, PrefixFact
<1>5. SummaryExact' <=> failedSections' = SubSeq(wrong', 1, Room(Len(wrong')))
  BY DEF SummaryExact, Room
<1>6. DOMAIN failedSections = 1..n /\ DOMAIN wrong = 1..Len(wrong)
  <2>1. failedSections \in Seq(Name)
    BY DEF TypeOK
  <2> QED BY <1>1, <1>4, <2>1
<1> HIDE DEF n
<1>7. Listed(failedSections, section) => Listed(wrong, section)
  <2> SUFFICES ASSUME NEW i \in 1..n, failedSections[i] = section
               PROVE  \E j \in 1..Len(wrong) : wrong[j] = section
    BY <1>6 DEF Listed
  <2>1. i \in 1..Len(wrong)
    BY <1>1, <1>2
  <2> QED BY <1>4, <2>1
<1>8. CASE Listed(wrong, section)
  <2>1. wrong' = wrong
    BY <1>8
  <2>2. Listed(failedSections, section) \/ Len(failedSections) = MaxFailed
    <3>1. PICK i \in 1..Len(wrong) : wrong[i] = section
      BY <1>6, <1>8 DEF Listed
    <3>2. CASE i <= n
      <4>1. i \in 1..n
        BY <3>1, <3>2, <1>1, <1>2
      <4>2. failedSections[i] = section
        BY <4>1, <3>1, <1>4
      <4> QED BY <4>1, <4>2, <1>6 DEF Listed
    <3>3. CASE i > n
      BY <3>1, <3>3, <1>1, <1>2, <1>4, CTestAssumption
    <3> QED BY <3>1, <3>2, <3>3, <1>2
  <2>3. failedSections' = failedSections
    BY <2>2 DEF NoteFail
  <2> QED BY <2>1, <2>3, <1>3, <1>5 DEF n
<1>9. CASE ~Listed(wrong, section)
  <2>1. wrong' = Append(wrong, section)
    BY <1>9
  <2>2. Len(wrong') = Len(wrong) + 1
    BY <1>1, <2>1
  <2>3. CASE Len(wrong) < MaxFailed
    <3>1. failedSections' = Append(failedSections, section)
      BY <1>2, <1>4, <1>7, <1>9, <2>3, <1>1, CTestAssumption DEF NoteFail
    <3>2. Room(Len(wrong) + 1) = Len(wrong) + 1
      BY <2>3, <1>1, CTestAssumption DEF Room
    <3>3. failedSections = SubSeq(wrong, 1, Len(wrong))
      BY <1>2, <1>3, <2>3 DEF n
    <3>4. SubSeq(Append(wrong, section), 1, Len(wrong) + 1)
            = Append(SubSeq(wrong, 1, Len(wrong)), section)
      BY <1>1, WholeOfAppend
    <3> QED BY <1>5, <2>1, <2>2, <3>1, <3>2, <3>3, <3>4
  <2>4. CASE Len(wrong) >= MaxFailed
    <3>1. failedSections' = failedSections
      BY <1>2, <1>4, <2>4 DEF NoteFail
    <3>2. Room(Len(wrong) + 1) = n
      BY <1>1, <1>2, <2>4, CTestAssumption DEF Room
    <3>3. SubSeq(Append(wrong, section), 1, n) = SubSeq(wrong, 1, n)
      BY <1>1, <1>2, PrefixOfAppend
    <3> QED BY <1>3, <1>5, <2>1, <2>2, <3>1, <3>2, <3>3
  <2> QED BY <2>3, <2>4, <1>1, CTestAssumption
<1> QED BY <1>8, <1>9

\* Types, kept by every statement of the program and every tick.
LEMMA StepTypeOK == ASSUME TypeOK, [Next]_vars PROVE TypeOK'
<1> USE CTestAssumption
<1>1. ASSUME NEW s \in Section, BeginSection(s) PROVE TypeOK'
  BY <1>1 DEF TypeOK, BeginSection, NextStatement, Label
<1>2. CASE EndSection
  BY <1>2 DEF TypeOK, EndSection, Arm, statics
<1>3. CASE BeginCheck
  BY <1>3 DEF TypeOK, BeginCheck, NextStatement, Arm, statics
<1>4. ASSUME NEW ok \in BOOLEAN, EndCheck(ok) PROVE TypeOK'
  <2>1. wrong' \in Seq(Section \cup {TopLevel})
    BY <1>4 DEF TypeOK, EndCheck
  <2>2. /\ passed' \in Nat /\ failed' \in Nat
        /\ section' \in Section \cup {TopLevel} /\ aborted' \in {0, 1}
        /\ failedSections' \in Seq(Section \cup {TopLevel})
    <3>1. CASE UNCHANGED statics
      BY <3>1 DEF TypeOK, statics
    <3>2. CASE passed' = passed + 1 /\ UNCHANGED <<failed, section, aborted, failedSections>>
      BY <3>2 DEF TypeOK
    <3>3. CASE NoteFail /\ UNCHANGED <<passed, section>>
      <4>1. failedSections' = failedSections \/ failedSections' = Append(failedSections, section)
        BY <3>3, Zenon DEF NoteFail
      <4>2. failed' = failed + 1 /\ aborted' = 1
        BY <3>3, Zenon DEF NoteFail
      <4> QED BY <3>3, <4>1, <4>2 DEF TypeOK
    <3> QED BY <1>4, <3>1, <3>2, <3>3 DEF EndCheck
  <2> QED BY <1>4, <2>1, <2>2 DEF TypeOK, EndCheck
<1>5. CASE End
  <2>1. /\ UNCHANGED <<statics, statements, wrong, entered, spent>>
        /\ alarm' = 0 /\ at' = "exited"
        /\ status' = "exit_0" \/ status' = "exit_1"
    BY <1>5, Zenon DEF End, ExitStatus
  <2> QED BY <2>1 DEF TypeOK, statics
<1>6. CASE Tick
  <2>1. /\ UNCHANGED <<statics, statements, wrong, entered>>
        /\ alarm > 0 /\ alarm' = alarm - 1 /\ spent' = spent + 1
        /\ status = "running"
    BY <1>6, Zenon DEF Tick
  <2>2. CASE alarm = 1 /\ status' = "exit_124" /\ at' = "exited"
    BY <2>1, <2>2 DEF TypeOK, statics
  <2>3. CASE alarm > 1 /\ UNCHANGED <<at, status>>
    BY <2>1, <2>3 DEF TypeOK, statics
  <2> QED BY <1>6, <2>2, <2>3, Zenon DEF Tick, OnTimeout
<1>7. CASE UNCHANGED vars
  BY <1>7 DEF TypeOK, vars, statics
<1> QED BY <1>1, <1>2, <1>3, <1>4, <1>5, <1>6, <1>7 DEF Next

\* Every statement and every tick keeps the invariant.
LEMMA StepIInv == ASSUME IInv, [Next]_vars PROVE IInv'
<1> USE DEF IInv
<1>1. TypeOK'
  BY StepTypeOK
<1>2. ASSUME UNCHANGED <<failed, section, aborted, failedSections, wrong>>
      PROVE  SummaryExact' /\ Counted' /\ AbortedIsWrong'
  BY <1>2 DEF SummaryExact, Counted, AbortedIsWrong, Listed
<1>3. ASSUME NEW s \in Section, BeginSection(s) PROVE IInv'
  <2>1. SummaryExact' /\ Counted' /\ AbortedIsWrong'
    BY <1>3 DEF BeginSection, Label, SummaryExact, Counted, AbortedIsWrong
  <2>2. VerdictExact'
    BY <1>3 DEF BeginSection, VerdictExact
  <2> QED BY <1>1, <2>1, <2>2
<1>4. CASE EndSection
  <2>1. VerdictExact'
    BY <1>4 DEF EndSection, VerdictExact
  <2> QED BY <1>1, <1>2, <1>4, <2>1 DEF EndSection, statics
<1>5. CASE BeginCheck
  <2>1. VerdictExact'
    BY <1>5 DEF BeginCheck, VerdictExact
  <2> QED BY <1>1, <1>2, <1>5, <2>1 DEF BeginCheck, statics
<1>6. ASSUME NEW ok \in BOOLEAN, EndCheck(ok) PROVE IInv'
  <2>1. VerdictExact'
    <3>1. status = "running" /\ status' = status
      BY <1>6 DEF EndCheck, TypeOK
    <3> QED BY <3>1 DEF VerdictExact
  <2>2. CASE aborted = 1 \/ ok
    <3>1. UNCHANGED <<failed, section, aborted, failedSections, wrong>>
      BY <1>6, <2>2 DEF EndCheck, statics, AbortedIsWrong
    <3> QED BY <1>1, <1>2, <2>1, <3>1
  <2>3. CASE aborted = 0 /\ ~ok
    <3>1. /\ NoteFail /\ section' = section
          /\ wrong' = IF Listed(wrong, section) THEN wrong ELSE Append(wrong, section)
      BY <1>6, <2>3 DEF EndCheck
    <3>2. SummaryExact'
      BY <3>1, NoteFailKeepsSummary
    <3>3. wrong \in Seq(Section \cup {TopLevel}) /\ section \in Section \cup {TopLevel}
      BY DEF TypeOK
    <3>4. Listed(wrong', section) /\ wrong' # <<>>
      <4>1. CASE Listed(wrong, section)
        BY <3>1, <3>3, <4>1 DEF Listed
      <4>2. CASE ~Listed(wrong, section)
        <5>1. wrong' = Append(wrong, section)
          BY <3>1, <4>2
        <5>2. Len(wrong) + 1 \in DOMAIN wrong' /\ wrong'[Len(wrong) + 1] = section
          BY <3>3, <5>1
        <5> QED BY <5>1, <5>2, <3>3 DEF Listed
      <4> QED BY <4>1, <4>2
    <3>5. failed' # 0
      <4>1. failed' = failed + 1
        BY <3>1, Zenon DEF NoteFail
      <4>2. failed \in Nat
        BY Zenon DEF TypeOK
      <4> QED BY <4>1, <4>2
    <3> QED BY <1>1, <2>1, <3>1, <3>2, <3>4, <3>5 DEF Counted, AbortedIsWrong
  <2> QED BY <2>2, <2>3 DEF TypeOK
<1>7. CASE End
  <2>1. VerdictExact'
    <3>1. failed \in Nat
      BY Zenon DEF TypeOK
    <3>2. /\ status' = IF failed > 0 THEN "exit_1" ELSE "exit_0"
          /\ wrong' = wrong
      BY <1>7, Zenon DEF End, ExitStatus
    <3> QED BY <3>1, <3>2 DEF VerdictExact, Counted
  <2> QED BY <1>1, <1>2, <1>7, <2>1 DEF End, statics
<1>8. CASE Tick
  <2>1. VerdictExact'
    BY <1>8 DEF Tick, OnTimeout, VerdictExact
  <2> QED BY <1>1, <1>2, <1>8, <2>1 DEF Tick, statics
<1>9. CASE UNCHANGED vars
  BY <1>1, <1>2, <1>9 DEF vars, statics, VerdictExact
<1> QED BY <1>3, <1>4, <1>5, <1>6, <1>7, <1>8, <1>9 DEF Next

\* The strengthened invariant, from which the theorems below follow.
THEOREM Invariance == Spec => []IInv
<1>1. Init => IInv
  BY InitIInv
<1>2. IInv /\ [Next]_vars => IInv'
  BY StepIInv
<1> QED BY <1>1, <1>2, PTL DEF Spec

\* Types; a check that is running has the watchdog behind it (ctest_arm).
THEOREM TypeCorrect == Spec => []TypeOK
<1>1. IInv => TypeOK
  BY DEF IInv
<1> QED BY <1>1, Invariance, PTL

\* CTEST_END's exit status: 0 exactly when no check that was evaluated is false.
THEOREM Verdict == Spec => []VerdictExact
<1>1. IInv => VerdictExact
  BY DEF IInv
<1> QED BY <1>1, Invariance, PTL

\* CTEST_END's summary: the failed sections, once each, in order, up to its room.
THEOREM Summary == Spec => []SummaryExact
<1>1. IInv => SummaryExact
  BY DEF IInv
<1> QED BY <1>1, Invariance, PTL

-----------------------------------------------------------------------------
\* What a section that is not aborted still has to its name, and what the
\* watchdog still has to run.
Blocks == failed <= entered /\ (aborted = 0 => failed < entered)
Budget == (alarm > 0 => alarm + spent >= Timeout) /\ FreshBudget

\* A section can fail once more only after it was entered again.
LEMMA StepBlocks == ASSUME TypeOK, Blocks, [Next]_vars PROVE Blocks'
<1>0. failed \in Nat /\ entered \in Nat /\ aborted \in {0, 1}
  BY DEF TypeOK
<1>1. ASSUME NEW s \in Section, BeginSection(s) PROVE Blocks'
  BY <1>0, <1>1 DEF Blocks, BeginSection, Label
<1>2. ASSUME NEW ok \in BOOLEAN, EndCheck(ok) PROVE Blocks'
  <2>1. CASE aborted = 0 /\ NoteFail
    <3>1. failed' = failed + 1 /\ aborted' = 1 /\ entered' = entered
      BY <1>2, <2>1 DEF EndCheck, NoteFail
    <3> QED BY <1>0, <2>1, <3>1 DEF Blocks
  <2>2. CASE UNCHANGED <<failed, aborted>>
    BY <1>2, <2>2 DEF EndCheck, Blocks
  <2> QED BY <1>2, <2>1, <2>2 DEF EndCheck, statics
<1>3. ASSUME UNCHANGED <<failed, aborted, entered>> PROVE Blocks'
  BY <1>3 DEF Blocks
<1>4. CASE EndSection \/ BeginCheck \/ End \/ Tick \/ UNCHANGED vars
  BY <1>3, <1>4 DEF EndSection, BeginCheck, End, Tick, vars, statics
<1> QED BY <1>1, <1>2, <1>4 DEF Next

\* The ticks left and the ticks spent never fall short of the whole budget.
LEMMA StepBudget == ASSUME TypeOK, Budget, [Next]_vars PROVE Budget'
<1>0. /\ alarm \in Nat /\ spent \in Nat /\ Timeout \in Nat
      /\ status = "exit_124" => at = "exited"
  BY CTestAssumption DEF TypeOK
<1>1. ASSUME UNCHANGED <<alarm, status, spent>> PROVE Budget'
  BY <1>1 DEF Budget, FreshBudget
<1>2. CASE EndSection \/ BeginCheck
  <2>1. alarm' = Timeout /\ spent' = 0 /\ status' = status /\ at # "exited"
    BY <1>2 DEF EndSection, BeginCheck, NextStatement, Arm
  <2> QED BY <1>0, <2>1 DEF Budget, FreshBudget
<1>3. CASE End
  <2>1. alarm' = 0 /\ status' # "exit_124"
    BY <1>3 DEF End, ExitStatus
  <2> QED BY <2>1 DEF Budget, FreshBudget
<1>4. CASE Tick
  <2>1. alarm > 0 /\ alarm' = alarm - 1 /\ spent' = spent + 1
    BY <1>4 DEF Tick
  <2>2. alarm' + spent' >= Timeout
    BY <1>0, <2>1 DEF Budget
  <2>3. CASE alarm = 1
    BY <1>0, <2>1, <2>2, <2>3 DEF Budget, FreshBudget
  <2>4. CASE alarm > 1 /\ status' = status
    <3>1. status = "running"
      BY <1>4 DEF Tick
    <3> QED BY <2>2, <2>4, <3>1 DEF Budget, FreshBudget
  <2> QED BY <1>4, <2>1, <2>3, <2>4 DEF Tick
<1>5. ASSUME NEW s \in Section, BeginSection(s) PROVE Budget'
  BY <1>1, <1>5 DEF BeginSection
<1>6. ASSUME NEW ok \in BOOLEAN, EndCheck(ok) PROVE Budget'
  BY <1>1, <1>6 DEF EndCheck
<1>7. CASE UNCHANGED vars
  BY <1>1, <1>7 DEF vars
<1> QED BY <1>2, <1>3, <1>4, <1>5, <1>6, <1>7 DEF Next

\* ctest_note_fail: one printed failure at most for each SECTION executed.
THEOREM OneBlock == Spec => []OneBlockPerEntry
<1>1. Init => Blocks
  BY DEF Init, Blocks
<1>2. TypeOK /\ Blocks /\ [Next]_vars => Blocks'
  BY StepBlocks
<1>3. Blocks => OneBlockPerEntry
  BY DEF Blocks, OneBlockPerEntry
<1> QED BY <1>1, <1>2, <1>3, TypeCorrect, PTL DEF Spec

\* ctest_arm: no check is cut off for the time that earlier ones took.
THEOREM Fresh == Spec => []FreshBudget
<1>1. Init => Budget
  BY DEF Init, Budget, FreshBudget
<1>2. TypeOK /\ Budget /\ [Next]_vars => Budget'
  BY StepBudget
<1>3. Budget => FreshBudget
  BY DEF Budget
<1> QED BY <1>1, <1>2, <1>3, TypeCorrect, PTL DEF Spec
=============================================================================
