--------------------------- MODULE RunawayProcess ---------------------------
(***************************************************************************)
(* ProperInterview/linux/breakfix/06-runaway-process: setup.sh, check.sh   *)
(* and teardown.sh against the machine they act on, where cron starts      *)
(* spawner.sh and the player works at the same time.                       *)
(*                                                                         *)
(* One script runs at a time, command by command (`shell' is the command   *)
(* it is at).  A run of the spawner is in steps of its own, the last of    *)
(* them after the script has exited: the child it leaves behind becomes a  *)
(* hog or finds its file gone.  A command that only removes, copies or     *)
(* signals is one step, but while it runs its command line can be what     *)
(* another's pgrep -f or pkill -f matches.                                 *)
(*                                                                         *)
(* Three facts about time are used: a run, its child included, takes less  *)
(* than the ten seconds check.sh sleeps between two samples, and is over   *)
(* when its starter starts the next; a hog started by setup outlives       *)
(* setup.                                                                  *)
(*                                                                         *)
(* A definition named Bug... is a plausible slip, no part of Spec.         *)
(***************************************************************************)
EXTENDS Naturals

CONSTANT Samples   \* turns of the respawn watch

ASSUME SamplesAssumption == Samples \in Nat \ {0}

Spawner == {"cron", "setup"}   \* who started a run of spawner.sh

VARIABLES
  cronFile,   \* /etc/cron.d/mystery-maintenance exists
  payload,    \* /opt/breakfix-labs/hogspawn exists, with both scripts in it
  tmp,        \* /tmp/.sysd-cache exists
  hogs,       \* how many hogs run
  spawner,    \* the command each run of spawner.sh is at
  shell,      \* the command the operator's script is at
  verdict,    \* of the last check.sh since the last setup.sh
  failed,     \* check.sh's `fail'
  sample,     \* the watch's i
  unfinished, \* spawner runs begun before check.sh last went to sleep
  mistaken,   \* history: setup's run of the spawner took another command for the hog
  tornDown    \* teardown.sh has ended and setup.sh has not begun since

machine == <<cronFile, payload, tmp, hogs>>
checking == <<verdict, failed, sample>>
vars == <<machine, spawner, shell, checking, unfinished, mistaken, tornDown>>

Flying == {s \in Spawner : spawner[s] # "idle"}

Init == /\ cronFile = FALSE /\ payload = FALSE /\ tmp = FALSE /\ hogs = 0
        /\ spawner = [s \in Spawner |-> "idle"]
        /\ shell = "prompt" /\ verdict = "none" /\ failed = FALSE /\ sample = 0
        /\ unfinished = {} /\ mistaken = FALSE
        /\ tornDown = FALSE

-----------------------------------------------------------------------------
(* spawner.sh *)

\* Commands of the scripts that have sysd-cache in their arguments.
Naming == {"s_pkill", "s_rmpayload", "s_rmtmp", "t_pkill", "t_rmpayload", "t_rmtmp",
           "c_pgrep", "c_watch"}

\* What else than a hog the pgrep of run s may match: a command of the other run, or of
\* a script.  Whether it does depends on the moment: between two commands nothing
\* matches, nor does the child before its exec.
Passing(s) == (\E r \in Spawner \ {s} : spawner[r] # "idle") \/ shell \in Naming

\* pgrep -f sysd-cache, when other commands may be passing.
Looks(found, passing) == /\ hogs > 0 => found
                         /\ found => hogs > 0 \/ passing

\* One command of run s: from line a to line b of its script.
Run(s, a, b) == /\ spawner[s] = a
                /\ spawner' = [spawner EXCEPT ![s] = b]
                /\ unfinished' = IF b = "idle" THEN unfinished \ {s} ELSE unfinished
                /\ UNCHANGED <<shell, checking, tornDown>>

\* Bugs: the spawner does not look, or looks for the copy, not the process.
BugBlind(s) == Run(s, "pgrep", "copy") /\ UNCHANGED <<machine, mistaken>>
BugPgrep(s) == /\ Run(s, "pgrep", IF tmp THEN "idle" ELSE "copy")
               /\ UNCHANGED <<machine, mistaken>>

\* pgrep -f sysd-cache && exit 0
Pgrep(s) == \E found \in BOOLEAN :
              /\ Looks(found, Passing(s))
              /\ Run(s, "pgrep", IF found THEN "idle" ELSE "copy")
              /\ mistaken' = IF s = "setup" THEN found /\ hogs = 0 ELSE mistaken
              /\ UNCHANGED machine

\* cp, chmod and the `&': without set -e a failure goes on to the next line.  The script
\* exits; "child" is the setsid bash it leaves.
Copy(s) == /\ Run(s, "copy", "child")
           /\ tmp' = (tmp \/ payload)
           /\ UNCHANGED <<cronFile, payload, hogs, mistaken>>

\* bash /tmp/.sysd-cache: a hog, or nothing if the file is not there.
Launch(s) == /\ Run(s, "child", "idle")
             /\ hogs' = IF tmp THEN hogs + 1 ELSE hogs
             /\ UNCHANGED <<cronFile, payload, tmp, mistaken>>

SpawnerStep(s) == Pgrep(s) \/ Copy(s) \/ Launch(s)

\* cron's two-minute tick: it runs what /etc/cron.d names, if that is there.
CronFires == /\ cronFile
             /\ spawner["cron"] = "idle"
             /\ spawner' = [spawner EXCEPT !["cron"] = IF payload THEN "pgrep" ELSE "idle"]
             /\ UNCHANGED <<machine, shell, checking, unfinished, mistaken, tornDown>>

\* pkill -f sysd-cache, which ends what has that text in its command line: every hog, and
\* a command of a run if it comes at the right moment.  The run goes on to the next line:
\* a pgrep that was killed has found nothing, a cp has copied nothing.
Onward == [idle |-> "idle", pgrep |-> "copy", copy |-> "child", child |-> "idle"]

Killing == /\ hogs' = 0
           /\ \E hit \in SUBSET Spawner :
                spawner' = [s \in Spawner |-> IF s \in hit THEN Onward[spawner[s]]
                                                          ELSE spawner[s]]
           /\ unfinished' = {s \in unfinished : spawner'[s] # "idle"}
           /\ UNCHANGED <<cronFile, payload, tmp, checking, mistaken, tornDown>>

\* The hog's own 30-minute limit.
HogExpires == /\ hogs > 0
              /\ shell \notin {"s_rmcron", "s_pkill", "s_rmpayload", "s_rmtmp",
                               "s_payload", "s_cron", "s_spawn", "s_wait"}
              /\ hogs' = hogs - 1
              /\ UNCHANGED <<cronFile, payload, tmp, spawner, shell, checking,
                             unfinished, mistaken, tornDown>>

-----------------------------------------------------------------------------
(* The player, at another terminal while no script but check.sh runs.  He kills a hog   *)
(* that he has seen; his commands take no time that a pgrep could fall into.           *)

Idle == shell \in {"prompt", "c_cron", "c_payload", "c_pgrep", "c_watch"}

Elsewhere == Idle /\ UNCHANGED <<spawner, shell, checking, unfinished, mistaken, tornDown>>

Disarm  == cronFile /\ cronFile' = FALSE /\ UNCHANGED <<payload, tmp, hogs>> /\ Elsewhere
Cleanse == payload /\ payload' = FALSE /\ UNCHANGED <<cronFile, tmp, hogs>> /\ Elsewhere
Unmask  == tmp /\ tmp' = FALSE /\ UNCHANGED <<cronFile, payload, hogs>> /\ Elsewhere
Kill    == Idle /\ hogs > 0 /\ Killing /\ UNCHANGED shell

Fix == Disarm \/ Cleanse \/ Unmask \/ Kill

-----------------------------------------------------------------------------
(* The scripts.  Line(a, b): the shell goes from command a to command b. *)

Line(a, b) == shell = a /\ shell' = b

Quiet == UNCHANGED <<spawner, checking, unfinished, mistaken, tornDown>>

\* The three commands with which both setup.sh and teardown.sh clear the
\* machine; the rm -rf of two paths removes them one after the other.
RmCron(a, b)    == Line(a, b) /\ cronFile' = FALSE /\ UNCHANGED <<payload, tmp, hogs>> /\ Quiet
Pkill(a, b)     == Line(a, b) /\ Killing
RmPayload(a, b) == Line(a, b) /\ payload' = FALSE /\ UNCHANGED <<cronFile, tmp, hogs>> /\ Quiet
RmTmp(a, b)     == Line(a, b) /\ tmp' = FALSE /\ UNCHANGED <<cronFile, payload, hogs>> /\ Quiet

SetupBegin == /\ Line("prompt", "s_rmcron")
              /\ verdict' = "none" /\ tornDown' = FALSE
              /\ UNCHANGED <<machine, spawner, failed, sample, unfinished, mistaken>>

SetupClear == \/ RmCron("s_rmcron", "s_pkill")
              \/ Pkill("s_pkill", "s_rmpayload")
              \/ RmPayload("s_rmpayload", "s_rmtmp")
              \/ RmTmp("s_rmtmp", "s_payload")

SetupPayload == /\ Line("s_payload", "s_cron")
                /\ payload' = TRUE
                /\ UNCHANGED <<cronFile, tmp, hogs>> /\ Quiet

SetupCron == /\ Line("s_cron", "s_spawn")
             /\ cronFile' = TRUE
             /\ UNCHANGED <<payload, tmp, hogs>> /\ Quiet

\* A bug: setup leaves the first launch to cron.
BugSetupSpawn == Line("s_spawn", "s_wait") /\ UNCHANGED machine /\ Quiet

\* "$LAB_DIR/spawner.sh", in the foreground.
SetupSpawn == /\ Line("s_spawn", "s_wait")
              /\ spawner["setup"] = "idle"
              /\ spawner' = [spawner EXCEPT !["setup"] = "pgrep"]
              /\ mistaken' = FALSE
              /\ UNCHANGED <<machine, checking, unfinished, tornDown>>

\* The spawner has exited; its child may still be on its way.
SetupEnd == /\ Line("s_wait", "prompt")
            /\ spawner["setup"] \in {"idle", "child"}
            /\ UNCHANGED machine /\ Quiet

TeardownBegin == /\ Line("prompt", "t_rmcron")
                 /\ UNCHANGED machine /\ Quiet

\* A bug: the payload stays.
BugTeardownClear == \/ RmCron("t_rmcron", "t_pkill")
                    \/ Pkill("t_pkill", "t_rmtmp")
                    \/ RmTmp("t_rmtmp", "t_end")

TeardownClear == \/ RmCron("t_rmcron", "t_pkill")
                 \/ Pkill("t_pkill", "t_rmpayload")
                 \/ RmPayload("t_rmpayload", "t_rmtmp")
                 \/ RmTmp("t_rmtmp", "t_end")

TeardownEnd == /\ Line("t_end", "prompt")
               /\ tornDown' = TRUE
               /\ UNCHANGED <<machine, spawner, checking, unfinished, mistaken>>

CheckBegin == /\ Line("prompt", "c_cron")
              /\ failed' = FALSE /\ sample' = 0 /\ verdict' = "none"
              /\ UNCHANGED <<machine, spawner, unfinished, mistaken, tornDown>>

\* One of the three tests: it prints FAIL and goes on.
Test(a, b, bad) == /\ Line(a, b)
                   /\ failed' = (failed \/ bad)
                   /\ UNCHANGED <<machine, spawner, verdict, sample, unfinished, mistaken,
                                  tornDown>>

CheckSource == \/ Test("c_cron", "c_payload", cronFile)
               \/ Test("c_payload", "c_pgrep", payload)

Verdict(v) == shell' = "prompt" /\ verdict' = v

\* A bug: no watch.
BugCheckHog == /\ shell = "c_pgrep"
               /\ failed' = (failed \/ hogs > 0)
               /\ Verdict(IF failed' THEN "not_fixed" ELSE "fixed")
               /\ UNCHANGED <<machine, spawner, sample, unfinished, mistaken, tornDown>>

\* The third test, and what follows it: exit 1, or the watch's first sleep.
CheckHog == /\ shell = "c_pgrep"
            /\ \E found \in BOOLEAN : /\ Looks(found, Flying # {})
                                      /\ failed' = (failed \/ found)
            /\ \/ failed' /\ Verdict("not_fixed") /\ UNCHANGED unfinished
               \/ /\ ~failed'
                  /\ shell' = "c_watch"
                  /\ unfinished' = Flying
                  /\ UNCHANGED verdict
            /\ UNCHANGED <<machine, spawner, sample, mistaken, tornDown>>

\* The end of a `sleep 10' and the pgrep after it.
Watch == /\ shell = "c_watch"
         /\ unfinished = {}
         /\ sample' = sample + 1
         /\ \E found \in BOOLEAN :
              /\ Looks(found, Flying # {})
              /\ \/ found /\ Verdict("respawned") /\ UNCHANGED unfinished
                 \/ /\ ~found
                    /\ IF sample' = Samples THEN Verdict("fixed")
                                            ELSE UNCHANGED <<shell, verdict>>
                    /\ unfinished' = Flying
         /\ UNCHANGED <<machine, spawner, failed, mistaken, tornDown>>

Script == \/ SetupClear \/ SetupPayload \/ SetupCron \/ SetupSpawn \/ SetupEnd
          \/ TeardownClear \/ TeardownEnd
          \/ CheckSource \/ CheckHog \/ Watch

Next == \/ \E s \in Spawner : SpawnerStep(s)
        \/ CronFires \/ HogExpires \/ Fix
        \/ SetupBegin \/ TeardownBegin \/ CheckBegin
        \/ Script

Spec == Init /\ [][Next]_vars

\* Processes that can run do, cron keeps ticking, a hog's time runs out, and a
\* script that was started goes on.  Nobody has to start one, or to fix.
Fairness == /\ \A s \in Spawner : WF_vars(SpawnerStep(s))
            /\ WF_vars(CronFires)
            /\ WF_vars(HogExpires)
            /\ WF_vars(Script)

FairSpec == Spec /\ Fairness

-----------------------------------------------------------------------------
\* Types; and at most two hogs: cron's and setup's spawner cannot add a third
\* between one pkill and the next.
TypeOK == /\ cronFile \in BOOLEAN /\ payload \in BOOLEAN /\ tmp \in BOOLEAN
          /\ hogs \in 0..2
          /\ spawner \in [Spawner -> {"idle", "pgrep", "copy", "child"}]
          /\ verdict \in {"none", "not_fixed", "respawned", "fixed"}
          /\ failed \in BOOLEAN
          /\ sample \in 0..Samples
          /\ unfinished \subseteq Spawner
          /\ mistaken \in BOOLEAN /\ tornDown \in BOOLEAN

Gone == ~cronFile /\ ~payload /\ hogs = 0

\* "hog dead, source removed, and it stayed dead" (check.sh:49) is true when it
\* is printed and stays true until setup.sh is run again: no run of the spawner
\* that was already past its pgrep can still bring the hog back.
FixedStays == verdict = "fixed" => Gone /\ Flying = {}

\* "Don't make the player wait for cron's first tick" (setup.sh:51): when setup.sh ends
\* the source is in place and a hog runs, or the child of its own spawner is on the way to
\* its copy.  The exception is a spawner that took a command of cron's run for the hog,
\* which its pgrep cannot tell apart; the two may even take each other for it.
ArmedIsBroken ==
  [][SetupEnd => /\ cronFile /\ payload
                 /\ hogs > 0 \/ (spawner["setup"] = "child" /\ tmp) \/ mistaken]_vars

\* A run leaves because of a command that is no hog.
Mistake == \E s \in Spawner : /\ spawner[s] = "pgrep" /\ spawner'[s] = "idle"
                              /\ hogs = 0 /\ Passing(s)

\* A kill is no fix: while the source stays, the hog comes back, unless the
\* player keeps snatching the copy away before each launch, or each look for a hog
\* meets another command of that name.
Respawns ==
  \/ (cronFile /\ payload /\ hogs = 0) ~> (hogs > 0 \/ ~cronFile \/ ~payload)
  \/ []<><<Unmask>>_vars
  \/ []<><<Mistake>>_vars

\* What teardown.sh leaves behind ends by itself: the machine is as it was
\* before setup.sh, at the latest when the hog's own time is up.
ReversedInTheEnd == tornDown ~> ((Gone /\ ~tmp) \/ ~tornDown)

\* teardown.sh:2, "fully reverses setup, any state".
TeardownReverses == tornDown => Gone /\ ~tmp
=============================================================================
