------------------------------- MODULE CTest -------------------------------
(***************************************************************************)
(* tests/ctest.h, the harness of all six C projects (the same file in      *)
(* each): the counters, the sections with their abort on first failure,    *)
(* the watchdog, and the exit status of a test program.                    *)
(*                                                                         *)
(* The program under test is any sequence of SECTION, CHECK_* and plain    *)
(* code ending in CTEST_END, any of which may hang; a check's expression   *)
(* is true or false.  Time is the ticks of the kernel's alarm clock: the   *)
(* signal can come between any two steps, and SECTION is two steps.  A     *)
(* section's name is the pointer the code compares.  What is printed is    *)
(* left out, except what the summary and the timeout message name.         *)
(*                                                                         *)
(* Statements bounds the statements a program executes.  `wrong', `entered'*)
(* and `spent' are history, no part of the code.  A definition named Bug...*)
(* is a plausible slip, no part of Spec.                                   *)
(***************************************************************************)
EXTENDS Naturals, Sequences

CONSTANTS Section,      \* the names a program gives to SECTION
          TopLevel,     \* "(top level)", the name before the first
          Timeout,      \* CTEST_TIMEOUT_SECS, in ticks
          MaxFailed,    \* room in ctest_failed_sections
          Statements

ASSUME CTestAssumption == /\ TopLevel \notin Section
                          /\ Timeout \in Nat \ {0}
                          /\ MaxFailed \in Nat \ {0}
                          /\ Statements \in Nat

VARIABLES
  passed, failed, section, aborted, failedSections,   \* the statics
  alarm,      \* ticks until SIGALRM, 0 when no alarm is set
  at,         \* "code", "arming" (in SECTION), "check" (its expression), "exited"
  status,     \* the exit status, or "running"
  statements, \* executed so far
  wrong,      \* the sections with a false check, in the order of their first
  entered,    \* how often a section was entered, the top level included
  spent       \* ticks since the current check, or the code after it, began

statics == <<passed, failed, section, aborted, failedSections>>
vars == <<statics, alarm, at, status, statements, wrong, entered, spent>>

Init == /\ passed = 0 /\ failed = 0
        /\ section = TopLevel /\ aborted = 0
        /\ failedSections = <<>>
        /\ alarm = 0
        /\ at = "code" /\ status = "running"
        /\ statements = 0 /\ wrong = <<>> /\ entered = 1 /\ spent = 0

-----------------------------------------------------------------------------
BugArm == alarm' = IF alarm = 0 THEN Timeout ELSE alarm   \* armed once, like the handler
BugNoArm == UNCHANGED alarm                               \* never armed

\* ctest_arm: alarm() replaces what was left of the previous one.
Arm == alarm' = Timeout

NextStatement == /\ at = "code"
                 /\ statements < Statements
                 /\ statements' = statements + 1

BugLabel(s) == section' = s /\ UNCHANGED aborted   \* the next section stays aborted

Label(s) == section' = s /\ aborted' = 0

\* SECTION(s): the label, then the watchdog.
BeginSection(s) == /\ NextStatement
                   /\ Label(s)
                   /\ at' = "arming"
                   /\ entered' = entered + 1
                   /\ UNCHANGED <<passed, failed, failedSections, alarm, status, wrong, spent>>

EndSection == /\ at = "arming"
              /\ Arm
              /\ at' = "code" /\ spent' = 0
              /\ UNCHANGED <<statics, status, statements, wrong, entered>>

\* A CHECK_* macro arms the watchdog, then evaluates its arguments.
BeginCheck == /\ NextStatement
              /\ Arm
              /\ at' = "check" /\ spent' = 0
              /\ UNCHANGED <<statics, status, wrong, entered>>

Listed(list, s) == \E i \in DOMAIN list : list[i] = s

\* A bug: the abort flag is forgotten.
BugKeepGoing == /\ failed' = failed + 1
                /\ failedSections' = IF Listed(failedSections, section) \/ Len(failedSections) = MaxFailed
                                     THEN failedSections ELSE Append(failedSections, section)
                /\ UNCHANGED aborted

\* ctest_note_fail
NoteFail == /\ failed' = failed + 1
            /\ aborted' = 1
            /\ failedSections' = IF Listed(failedSections, section) \/ Len(failedSections) = MaxFailed
                                 THEN failedSections ELSE Append(failedSections, section)

\* The rest of the macro: in an aborted section the result is not looked at.
EndCheck(ok) == /\ at = "check"
                /\ \/ /\ aborted = 1
                      /\ UNCHANGED statics
                   \/ /\ aborted = 0 /\ ok
                      /\ passed' = passed + 1
                      /\ UNCHANGED <<failed, section, aborted, failedSections>>
                   \/ /\ aborted = 0 /\ ~ok
                      /\ NoteFail
                      /\ UNCHANGED <<passed, section>>
                /\ wrong' = IF ok \/ Listed(wrong, section) THEN wrong ELSE Append(wrong, section)
                /\ at' = "code"
                /\ UNCHANGED <<alarm, status, statements, entered, spent>>

BugEnd == status' = IF aborted = 1 THEN "exit_1" ELSE "exit_0"   \* the last section's result

ExitStatus == status' = IF failed > 0 THEN "exit_1" ELSE "exit_0"

\* CTEST_END, also the end of a test that returns before any check.
End == /\ at = "code"
       /\ alarm' = 0
       /\ ExitStatus
       /\ at' = "exited"
       /\ UNCHANGED <<statics, statements, wrong, entered, spent>>

BugTimeout == UNCHANGED <<at, status>>   \* the handler returns

\* ctest_on_timeout
OnTimeout == status' = "exit_124" /\ at' = "exited"

\* A tick of the clock, wherever the program is; the last one is SIGALRM.
Tick == /\ status = "running"
        /\ alarm > 0
        /\ alarm' = alarm - 1
        /\ spent' = spent + 1
        /\ \/ alarm = 1 /\ OnTimeout
           \/ alarm > 1 /\ UNCHANGED <<at, status>>
        /\ UNCHANGED <<statics, statements, wrong, entered>>

Next == \/ \E s \in Section : BeginSection(s)
        \/ EndSection
        \/ BeginCheck
        \/ \E ok \in BOOLEAN : EndCheck(ok)
        \/ End
        \/ Tick

\* Only the clock is sure to go on: the program may hang at any statement.
Spec == Init /\ [][Next]_vars /\ WF_vars(Tick)

-----------------------------------------------------------------------------
\* Types; a check that is running has the watchdog behind it.
TypeOK == /\ passed \in Nat /\ failed \in Nat
          /\ section \in Section \cup {TopLevel}
          /\ aborted \in {0, 1}
          /\ failedSections \in Seq(Section \cup {TopLevel})
          /\ alarm \in 0..Timeout
          /\ at \in {"code", "arming", "check", "exited"}
          /\ at = "check" => alarm > 0
          /\ status \in {"running", "exit_0", "exit_1", "exit_124"}
          /\ status = "running" <=> at # "exited"
          /\ statements \in 0..Statements
          /\ wrong \in Seq(Section \cup {TopLevel})
          /\ entered \in Nat \ {0}
          /\ spent \in Nat

\* `make test' halts on the first bad module: a program that reaches CTEST_END
\* exits 0 exactly when every check it evaluated held, those that an aborted
\* section evaluates without looking included.
VerdictExact == /\ status = "exit_0" => wrong = <<>>
                /\ status = "exit_1" => wrong # <<>>

\* The summary names the sections with a false check, each once, in the order
\* in which they first failed, as far as there is room, however often the
\* program goes back to a section.
SummaryExact ==
  failedSections = SubSeq(wrong, 1, IF Len(wrong) < MaxFailed THEN Len(wrong) ELSE MaxFailed)

\* "a fuzz loop that diverges shows ONE block, not thousands": at most one
\* failure is printed for each time a section is entered.
OneBlockPerEntry == failed <= entered

\* "each check/section gets a fresh budget": no check is cut off for the time
\* that earlier ones took.
FreshBudget == status = "exit_124" => spent >= Timeout

\* "an infinite loop [becomes] a message naming the culprit": from the first
\* SECTION or CHECK on, a program of finitely many statements always ends.
Caught == alarm > 0 ~> status # "running"
=============================================================================
