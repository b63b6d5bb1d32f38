----------------------------- MODULE LabProofs -----------------------------
(***************************************************************************)
(* What the scripts of labs 03, 04, 06 and 08 say of the machine is so     *)
(* however cron, systemd, reboots, the player and the scripts interleave,  *)
(* and, in lab 06, however many samples the watch of check.sh takes.  The  *)
(* invariant of each lab says what each command of a script has            *)
(* established and nobody takes back before the script's last.             *)
(***************************************************************************)
EXTENDS MCLabs, TLAPS

-----------------------------------------------------------------------------
(* Lab 06 *)

\* A run of the spawner that has looked and found no hog.
Past(s) == IF spawner[s] \in {"copy", "child"} THEN 1 ELSE 0

\* A run gets past its pgrep only when there is no hog, so at that moment the
\* hogs to come are the two runs at most.
FewHogs == hogs + Past("cron") + Past("setup") <= 2

\* setup.sh waits for the script of its own run of the spawner, not for the child, and no
\* other script starts one.
SetupWaits == spawner["setup"] \in {"pgrep", "copy"} => shell = "s_wait"

\* setup.sh has withdrawn the verdict before it puts anything in place.
Arming      == {"s_rmcron", "s_pkill", "s_rmpayload", "s_rmtmp", "s_payload", "s_cron",
                "s_spawn", "s_wait"}
NoVerdict   == shell \in Arming => verdict = "none"

\* What each test of check.sh that has not failed has established, and keeps
\* established: nobody but setup.sh puts anything back.
CronGone    == shell \in {"c_payload", "c_pgrep"} /\ ~failed => ~cronFile
PayloadGone == shell = "c_pgrep" /\ ~failed => ~payload

\* With cron's file gone no new run begins, so the runs in flight during the
\* watch are among those that were in flight when it last looked.
Watching == shell = "c_watch" => /\ ~cronFile /\ ~payload
                                 /\ Flying \subseteq unfinished

\* The watch has samples left to take while it runs.
Counting == /\ shell \in {"c_cron", "c_payload", "c_pgrep"} => sample = 0
            /\ shell = "c_watch" => sample < Samples

IInv == /\ TypeOK /\ FewHogs /\ SetupWaits
        /\ NoVerdict /\ CronGone /\ PayloadGone /\ Watching /\ Counting
        /\ FixedStays

-----------------------------------------------------------------------------
\* A machine no script has touched.
LEMMA InitIInv == Init => IInv
<1> SUFFICES ASSUME Init PROVE IInv
  OBVIOUS
<1>1. TypeOK
  <2>1. hogs \in 0..2 /\ sample \in 0..Samples /\ unfinished \subseteq Spawner
    BY SamplesAssumption DEF Init
  <2>2. spawner \in [Spawner -> {"idle", "pgrep", "copy", "child"}]
    BY DEF Init
  <2>3. /\ cronFile \in BOOLEAN /\ payload \in BOOLEAN /\ tmp \in BOOLEAN
        /\ failed \in BOOLEAN /\ mistaken \in BOOLEAN /\ tornDown \in BOOLEAN /\ verdict = "none"
    BY DEF Init
  <2> QED BY <2>1, <2>2, <2>3 DEF TypeOK
<1>2. FewHogs
  BY DEF Init, FewHogs, Past, Spawner
<1>3. SetupWaits /\ NoVerdict /\ CronGone /\ PayloadGone /\ Watching /\ Counting /\ FixedStays
  BY DEF Init, SetupWaits, NoVerdict, Arming, CronGone, PayloadGone, Watching, Counting,
     FixedStays, Spawner
<1> QED BY <1>1, <1>2, <1>3 DEF IInv

\* The parts of IInv about the scripts: what a step needs to keep them when it
\* only removes things and begins no run of the spawner.
ScriptInv == NoVerdict /\ CronGone /\ PayloadGone /\ Watching /\ Counting /\ FixedStays

\* A step of the machine, not of a script: nothing is put back, no run begins
\* that was not in flight, and a run that ends is struck off the list.
LEMMA RemovingKeepsScriptInv ==
  ASSUME ScriptInv, UNCHANGED <<shell, verdict, failed, sample>>,
         (cronFile' => cronFile) /\ (payload' => payload),
         verdict = "fixed" => hogs' = 0,
         \A s \in Flying' : s \in Flying /\ (s \in unfinished => s \in unfinished')
  PROVE  ScriptInv'
<1>1. Flying' \subseteq Flying
  OBVIOUS
<1>2. NoVerdict' /\ CronGone' /\ PayloadGone' /\ Counting'
  BY DEF ScriptInv, NoVerdict, CronGone, PayloadGone, Counting
<1>3. Watching'
  BY <1>1 DEF ScriptInv, Watching
<1>4. FixedStays'
  BY <1>1 DEF ScriptInv, FixedStays, Gone
<1> QED BY <1>2, <1>3, <1>4 DEF ScriptInv

\* The lines of spawner.sh.
LEMMA RunStep ==
  ASSUME IInv, NEW s \in Spawner, SpawnerStep(s)
  PROVE  IInv'
<1> USE DEF IInv
<1>0. /\ spawner \in [Spawner -> {"idle", "pgrep", "copy", "child"}]
      /\ hogs \in 0..2 /\ spawner[s] \in {"pgrep", "copy", "child"}
      /\ UNCHANGED <<cronFile, shell, checking, tornDown, payload>>
      /\ s = "cron" \/ s = "setup"
  <2>1. spawner \in [Spawner -> {"idle", "pgrep", "copy", "child"}] /\ hogs \in 0..2
    BY DEF TypeOK
  <2>2. spawner[s] \in {"pgrep", "copy", "child"}
    BY DEF SpawnerStep, Pgrep, Copy, Launch, Run
  <2>3. UNCHANGED <<cronFile, shell, checking, tornDown, payload>>
    BY DEF SpawnerStep, Pgrep, Copy, Launch, Run, machine
  <2> QED BY <2>1, <2>2, <2>3 DEF Spawner
<1>1. /\ hogs' \in Nat /\ FewHogs'
  <2>1. CASE Pgrep(s)
    <3>1. /\ hogs' = hogs
          /\ \/ spawner' = [spawner EXCEPT ![s] = "idle"]
             \/ hogs = 0
      <4>1. PICK found \in BOOLEAN :
              /\ hogs > 0 => found
              /\ spawner' = [spawner EXCEPT ![s] = IF found THEN "idle" ELSE "copy"]
        BY <2>1, Zenon DEF Pgrep, Run, Looks
      <4>2. hogs' = hogs
        BY <2>1 DEF Pgrep, machine
      <4>3. CASE hogs > 0
        BY <4>1, <4>2, <4>3, Zenon
      <4>4. CASE ~(hogs > 0)
        BY <1>0, <4>2, <4>4
      <4> QED BY <4>3, <4>4
    <3>2. CASE spawner' = [spawner EXCEPT ![s] = "idle"]
      BY <1>0, <3>1, <3>2 DEF FewHogs, Past, Spawner
    <3>3. CASE hogs = 0
      BY <3>1, <3>3 DEF FewHogs, Past
    <3> QED BY <3>1, <3>2, <3>3
  <2>2. CASE Copy(s)
    BY <1>0, <2>2 DEF Copy, Run, FewHogs, Past, Spawner
  <2>3. CASE Launch(s)
    BY <1>0, <2>3 DEF Launch, Run, FewHogs, Past, Spawner
  <2> QED BY <2>1, <2>2, <2>3 DEF SpawnerStep
<1>2. PICK b \in {"idle", "copy", "child"} :
        /\ spawner' = [spawner EXCEPT ![s] = b]
        /\ unfinished' = IF b = "idle" THEN unfinished \ {s} ELSE unfinished
        /\ b = "copy" => spawner[s] = "pgrep"
  BY DEF SpawnerStep, Pgrep, Copy, Launch, Run
<1>3. TypeOK'
  <2>1. hogs' \in 0..2
    <3>1. Past("cron")' \in 0..1 /\ Past("setup")' \in 0..1
      BY DEF Past
    <3> QED BY <1>1, <3>1 DEF FewHogs
  <2>2. tmp' \in BOOLEAN
    <3>1. tmp' = tmp \/ tmp' = (tmp \/ payload)
      BY DEF SpawnerStep, Pgrep, Copy, Launch, machine
    <3>2. tmp \in BOOLEAN /\ payload \in BOOLEAN
      BY DEF TypeOK
    <3> QED BY <3>1, <3>2
  <2>3. mistaken' \in BOOLEAN
    <3>1. \/ mistaken' = mistaken
          \/ \E found \in BOOLEAN : mistaken' = (found /\ hogs = 0)
      BY DEF SpawnerStep, Pgrep, Copy, Launch
    <3> QED BY <3>1 DEF TypeOK
  <2> QED BY <1>0, <1>2, <2>1, <2>2, <2>3 DEF TypeOK, checking
<1>4. SetupWaits'
  BY <1>0, <1>2 DEF SetupWaits, Spawner
<1>5. ScriptInv'
  <2>1. \A r \in Flying' : r \in Flying /\ (r \in unfinished => r \in unfinished')
    BY <1>0, <1>2 DEF Flying
  <2>2. verdict # "fixed"
    BY <1>0 DEF FixedStays, Flying
  <2> QED BY <1>0, <2>1, <2>2, RemovingKeepsScriptInv DEF ScriptInv, checking
<1> QED BY <1>1, <1>3, <1>4, <1>5 DEF ScriptInv

\* cron only starts what its file names: with the file gone, nothing.
LEMMA CronStep ==
  ASSUME IInv, CronFires
  PROVE  IInv'
<1> USE DEF IInv
<1>0. /\ spawner \in [Spawner -> {"idle", "pgrep", "copy", "child"}]
      /\ spawner["cron"] = "idle" /\ cronFile
      /\ UNCHANGED <<machine, shell, checking, unfinished, mistaken, tornDown>>
      /\ spawner' = [spawner EXCEPT !["cron"] = IF payload THEN "pgrep" ELSE "idle"]
  BY DEF TypeOK, CronFires
<1>1. TypeOK' /\ SetupWaits' /\ FewHogs'
  BY <1>0 DEF TypeOK, SetupWaits, FewHogs, Past, machine, checking, Spawner
<1>2. verdict # "fixed" /\ shell # "c_watch"
  BY <1>0 DEF FixedStays, Gone, Watching
<1>3. ScriptInv'
  BY <1>0, <1>2 DEF ScriptInv, NoVerdict, CronGone, PayloadGone, Watching, Counting,
                   FixedStays, machine, checking
<1> QED BY <1>1, <1>3 DEF ScriptInv

\* A pkill: no hog is left, and no run begins.
LEMMA KillingKeeps ==
  ASSUME IInv, Killing
  PROVE  /\ hogs' = 0
         /\ spawner' \in [Spawner -> {"idle", "pgrep", "copy", "child"}]
         /\ unfinished' \subseteq Spawner
         /\ spawner'["setup"] \in {"pgrep", "copy"} => spawner["setup"] \in {"pgrep", "copy"}
         /\ \A s \in Flying' : s \in Flying /\ (s \in unfinished => s \in unfinished')
         /\ FewHogs'
<1>0. /\ spawner \in [Spawner -> {"idle", "pgrep", "copy", "child"}]
      /\ unfinished \subseteq Spawner
  BY DEF IInv, TypeOK
<1>1. /\ hogs' = 0
      /\ unfinished' = {s \in unfinished : spawner'[s] # "idle"}
  BY DEF Killing
<1>2. PICK hit \in SUBSET Spawner :
        spawner' = [s \in Spawner |-> IF s \in hit THEN Onward[spawner[s]] ELSE spawner[s]]
  BY DEF Killing
<1>3. ASSUME NEW s \in Spawner
      PROVE  /\ spawner'[s] \in {"idle", "pgrep", "copy", "child"}
             /\ spawner'[s] # "idle" => spawner[s] # "idle"
             /\ spawner'[s] \in {"pgrep", "copy"} => spawner[s] \in {"pgrep", "copy"}
  <2>1. \/ spawner'[s] = spawner[s]
        \/ spawner'[s] = Onward[spawner[s]]
    BY <1>2
  <2>2. spawner[s] \in {"idle", "pgrep", "copy", "child"}
    BY <1>0
  <2> QED BY <2>1, <2>2 DEF Onward
<1>4. spawner' \in [Spawner -> {"idle", "pgrep", "copy", "child"}]
  BY <1>2, <1>3
<1>5. \A s \in Flying' : s \in Flying /\ (s \in unfinished => s \in unfinished')
  BY <1>1, <1>3 DEF Flying
<1>6. FewHogs'
  <2>1. Past("cron")' \in 0..1 /\ Past("setup")' \in 0..1
    BY DEF Past
  <2> QED BY <1>1, <2>1 DEF FewHogs
<1> QED BY <1>0, <1>1, <1>3, <1>4, <1>5, <1>6 DEF Spawner

\* The player's rm and the hog's own clock only take things away.
LEMMA RemoveStep ==
  ASSUME IInv, Disarm \/ Cleanse \/ Unmask \/ HogExpires
  PROVE  IInv'
<1> USE DEF IInv
<1>0. /\ UNCHANGED <<spawner, shell, checking, unfinished, mistaken, tornDown>>
      /\ cronFile' \in BOOLEAN /\ payload' \in BOOLEAN /\ tmp' \in BOOLEAN
      /\ (cronFile' => cronFile) /\ (payload' => payload)
      /\ hogs \in 0..2 /\ hogs' \in 0..2 /\ hogs' <= hogs
  <2>1. /\ cronFile \in BOOLEAN /\ payload \in BOOLEAN /\ tmp \in BOOLEAN
        /\ hogs \in 0..2
    BY DEF TypeOK
  <2>2. UNCHANGED <<spawner, shell, checking, unfinished, mistaken, tornDown>>
    BY DEF Disarm, Cleanse, Unmask, Elsewhere, HogExpires
  <2>3. /\ cronFile' = cronFile \/ cronFile' = FALSE
        /\ payload' = payload \/ payload' = FALSE
        /\ tmp' = tmp \/ tmp' = FALSE
        /\ hogs' = hogs \/ hogs' = 0 \/ (hogs > 0 /\ hogs' = hogs - 1)
    BY DEF Disarm, Cleanse, Unmask, HogExpires
  <2>4. hogs' \in 0..2 /\ hogs' <= hogs
    BY <2>1, <2>3
  <2>5. /\ cronFile' \in BOOLEAN /\ payload' \in BOOLEAN /\ tmp' \in BOOLEAN
        /\ (cronFile' => cronFile) /\ (payload' => payload)
    <3>1. cronFile' \in BOOLEAN /\ (cronFile' => cronFile)
      <4>1. CASE cronFile' = cronFile
        BY <2>1, <4>1
      <4>2. CASE cronFile' = FALSE
        BY <4>2
      <4> QED BY <2>3, <4>1, <4>2
    <3>2. payload' \in BOOLEAN /\ (payload' => payload)
      <4>1. CASE payload' = payload
        BY <2>1, <4>1
      <4>2. CASE payload' = FALSE
        BY <4>2
      <4> QED BY <2>3, <4>1, <4>2
    <3>3. tmp' \in BOOLEAN
      BY <2>1, <2>3
    <3> QED BY <3>1, <3>2, <3>3
  <2> QED BY <2>1, <2>2, <2>4, <2>5
<1>1. TypeOK' /\ SetupWaits'
  BY <1>0 DEF TypeOK, SetupWaits, checking
<1>2. FewHogs'
  <2>1. Past("cron")' = Past("cron") /\ Past("setup")' = Past("setup")
    BY <1>0 DEF Past
  <2>2. Past("cron") \in 0..1 /\ Past("setup") \in 0..1
    BY DEF Past
  <2> QED BY <1>0, <2>1, <2>2 DEF FewHogs
<1>3. ScriptInv'
  <2>1. Flying' = Flying
    BY <1>0 DEF Flying
  <2>2. verdict = "fixed" => hogs' = 0
    BY <1>0 DEF FixedStays, Gone
  <2>3. ScriptInv /\ UNCHANGED <<shell, verdict, failed, sample, unfinished>>
    BY <1>0 DEF ScriptInv, checking
  <2>4. \A s \in Flying' : s \in Flying /\ (s \in unfinished => s \in unfinished')
    BY <2>1, <2>3
  <2>5. UNCHANGED <<shell, verdict, failed, sample>>
    BY <2>3
  <2>6. (cronFile' => cronFile) /\ (payload' => payload)
    BY <1>0
  <2> QED BY <2>2, <2>3, <2>4, <2>5, <2>6, RemovingKeepsScriptInv
<1> QED BY <1>1, <1>2, <1>3 DEF ScriptInv

\* The player's kill.
LEMMA KillStep == ASSUME IInv, Kill PROVE IInv'
<1>1. Killing /\ shell' = shell /\ shell # "s_wait"
  BY DEF Kill, Idle
<1>2. UNCHANGED <<cronFile, payload, tmp, verdict, failed, sample, mistaken, tornDown>>
  BY <1>1 DEF Killing, checking
<1>3. TypeOK' /\ SetupWaits' /\ FewHogs'
  BY <1>1, <1>2, KillingKeeps DEF IInv, TypeOK, SetupWaits
<1>4. ScriptInv'
  BY <1>1, <1>2, KillingKeeps, RemovingKeepsScriptInv DEF IInv, ScriptInv
<1> QED BY <1>3, <1>4 DEF IInv, ScriptInv

LEMMA FixStep == ASSUME IInv, Fix \/ HogExpires PROVE IInv'
BY RemoveStep, KillStep DEF Fix

-----------------------------------------------------------------------------
(* The scripts *)

\* The four commands that clear the machine.
Clearing(a, b) == RmCron(a, b) \/ Pkill(a, b) \/ RmPayload(a, b) \/ RmTmp(a, b)

\* They keep the types, the bound on hogs and a verdict that holds.
LEMMA ClearStep ==
  ASSUME IInv, NEW a, NEW b, Clearing(a, b), a # "s_wait"
  PROVE  /\ shell' = b
         /\ TypeOK' /\ FewHogs' /\ SetupWaits' /\ FixedStays'
         /\ UNCHANGED verdict
<1> USE DEF IInv
<1>0. /\ shell = a /\ shell' = b
      /\ UNCHANGED <<checking, mistaken, tornDown>>
      /\ \/ Killing /\ UNCHANGED <<cronFile, payload, tmp>>
         \/ UNCHANGED <<spawner, unfinished, hogs>>
  BY DEF Clearing, RmCron, Pkill, Killing, RmPayload, RmTmp, Line, Quiet
<1>1. /\ cronFile' = cronFile \/ cronFile' = FALSE
      /\ payload' = payload \/ payload' = FALSE
      /\ tmp' = tmp \/ tmp' = FALSE
  BY DEF Clearing, RmCron, Pkill, Killing, RmPayload, RmTmp
<1>2. /\ hogs' = hogs \/ hogs' = 0
      /\ spawner' \in [Spawner -> {"idle", "pgrep", "copy", "child"}]
      /\ unfinished' \subseteq Spawner
      /\ spawner'["setup"] \in {"pgrep", "copy"} => spawner["setup"] \in {"pgrep", "copy"}
      /\ Flying' \subseteq Flying
      /\ FewHogs'
  <2>1. CASE Killing
    BY <2>1, KillingKeeps
  <2>2. CASE UNCHANGED <<spawner, unfinished, hogs>>
    BY <2>2 DEF TypeOK, Flying, FewHogs, Past
  <2> QED BY <1>0, <2>1, <2>2
<1>3. TypeOK'
  <2>1. cronFile \in BOOLEAN /\ payload \in BOOLEAN /\ tmp \in BOOLEAN /\ hogs \in 0..2
    BY DEF TypeOK
  <2>2. cronFile' \in BOOLEAN
    BY <1>1, <2>1
  <2>3. payload' \in BOOLEAN
    BY <1>1, <2>1
  <2>4. tmp' \in BOOLEAN
    BY <1>1, <2>1
  <2>5. hogs' \in 0..2
    BY <1>2, <2>1
  <2> QED BY <1>0, <1>2, <2>2, <2>3, <2>4, <2>5 DEF TypeOK, checking
<1>4. SetupWaits'
  BY <1>0, <1>2 DEF SetupWaits
<1>5. FixedStays'
  <2>1. verdict' = verdict
    BY <1>0 DEF checking
  <2>2. Gone => Gone'
    <3> SUFFICES ASSUME Gone PROVE ~cronFile' /\ ~payload' /\ hogs' = 0
      BY DEF Gone
    <3>1. ~cronFile'
      BY <1>1 DEF Gone
    <3>2. ~payload'
      BY <1>1 DEF Gone
    <3> QED BY <1>2, <3>1, <3>2 DEF Gone
  <2> QED BY <1>2, <2>1, <2>2 DEF FixedStays
<1> QED BY <1>0, <1>2, <1>3, <1>4, <1>5 DEF checking

\* In setup.sh there is no verdict to keep and no test of check.sh to remember.
LEMMA ArmingStep ==
  ASSUME TypeOK', FewHogs', SetupWaits',
         shell' \in Arming \cup {"prompt"}, verdict' = "none"
  PROVE  IInv'
BY DEF IInv, Arming, NoVerdict, CronGone, PayloadGone, Watching, Counting, FixedStays

\* Nor is there in teardown.sh, but the verdict may still stand.
LEMMA TeardownStep ==
  ASSUME TypeOK', FewHogs', SetupWaits', FixedStays',
         shell' \in {"t_rmcron", "t_pkill", "t_rmpayload", "t_rmtmp", "t_end", "prompt"}
  PROVE  IInv'
BY DEF IInv, Arming, NoVerdict, CronGone, PayloadGone, Watching, Counting

\* The commands of setup.sh.
LEMMA SetupStep ==
  ASSUME IInv, SetupBegin \/ SetupClear \/ SetupPayload \/ SetupCron \/ SetupSpawn \/ SetupEnd
  PROVE  IInv'
<1> USE DEF IInv
<1>1. CASE SetupBegin
  <2>1. TypeOK' /\ FewHogs' /\ SetupWaits'
    BY <1>1 DEF SetupBegin, Line, TypeOK, FewHogs, Past, SetupWaits, machine
  <2> QED BY <1>1, <2>1, ArmingStep DEF SetupBegin, Line, Arming
<1>2. CASE SetupClear
  <2>1. PICK a \in {"s_rmcron", "s_pkill", "s_rmpayload", "s_rmtmp"},
             b \in {"s_pkill", "s_rmpayload", "s_rmtmp", "s_payload"} : Clearing(a, b) /\ shell = a
    BY <1>2 DEF SetupClear, Clearing, RmCron, Pkill, RmPayload, RmTmp, Line
  <2>2. verdict = "none"
    BY <2>1 DEF NoVerdict, Arming
  <2>3. shell' = b /\ TypeOK' /\ FewHogs' /\ SetupWaits' /\ verdict' = verdict
    BY <2>1, ClearStep
  <2> QED BY <2>1, <2>2, <2>3, ArmingStep DEF Arming
<1>3. CASE SetupPayload \/ SetupCron
  <2>1. /\ shell \in Arming /\ shell' \in Arming
        /\ cronFile' \in BOOLEAN /\ payload' \in BOOLEAN
        /\ UNCHANGED <<tmp, hogs, spawner, checking, unfinished, mistaken, tornDown>>
        /\ spawner["setup"] \notin {"pgrep", "copy"}
    BY <1>3 DEF SetupPayload, SetupCron, Line, Quiet, Arming, TypeOK, SetupWaits
  <2>2. TypeOK' /\ FewHogs' /\ SetupWaits'
    BY <2>1 DEF TypeOK, FewHogs, Past, SetupWaits, checking
  <2> QED BY <2>1, <2>2, ArmingStep DEF NoVerdict, checking
<1>4. CASE SetupSpawn
  <2>1. /\ shell \in Arming /\ shell' = "s_wait"
        /\ spawner["setup"] = "idle"
        /\ spawner' = [spawner EXCEPT !["setup"] = "pgrep"] /\ mistaken' = FALSE
        /\ UNCHANGED <<machine, checking, unfinished, tornDown>>
    BY <1>4 DEF SetupSpawn, Line, Arming, SetupWaits
  <2>2. TypeOK' /\ SetupWaits'
    BY <2>1 DEF TypeOK, SetupWaits, machine, checking, Spawner
  <2>3. FewHogs'
    BY <2>1 DEF TypeOK, FewHogs, Past, machine, Spawner
  <2> QED BY <2>1, <2>2, <2>3, ArmingStep DEF NoVerdict, checking, Arming
<1>5. CASE SetupEnd
  <2>1. TypeOK' /\ FewHogs' /\ SetupWaits'
    BY <1>5 DEF SetupEnd, Line, Quiet, TypeOK, FewHogs, Past, SetupWaits, machine, checking
  <2>2. verdict' = "none" /\ shell' = "prompt"
    BY <1>5 DEF SetupEnd, Line, Quiet, NoVerdict, Arming, checking
  <2> QED BY <2>1, <2>2, ArmingStep
<1> QED BY <1>1, <1>2, <1>3, <1>4, <1>5

\* The commands of teardown.sh.
LEMMA TeardownSteps ==
  ASSUME IInv, TeardownBegin \/ TeardownClear \/ TeardownEnd
  PROVE  IInv'
<1> USE DEF IInv
<1>1. CASE TeardownBegin \/ TeardownEnd
  <2>1. /\ shell # "s_wait" /\ shell' \in {"t_rmcron", "prompt"} /\ tornDown' \in BOOLEAN
        /\ UNCHANGED <<machine, spawner, checking, unfinished, mistaken>>
    BY <1>1 DEF TeardownBegin, TeardownEnd, Line, Quiet, TypeOK
  <2>2. TypeOK' /\ FewHogs' /\ SetupWaits'
    BY <2>1 DEF TypeOK, FewHogs, Past, SetupWaits, machine, checking
  <2>3. FixedStays'
    BY <2>1 DEF FixedStays, Gone, Flying, machine, checking
  <2> QED BY <2>1, <2>2, <2>3, TeardownStep
<1>2. CASE TeardownClear
  <2>1. PICK a \in {"t_rmcron", "t_pkill", "t_rmpayload", "t_rmtmp"},
             b \in {"t_pkill", "t_rmpayload", "t_rmtmp", "t_end"} : Clearing(a, b)
    BY <1>2 DEF TeardownClear, Clearing
  <2>2. shell' = b /\ TypeOK' /\ FewHogs' /\ SetupWaits' /\ FixedStays'
    BY <2>1, ClearStep
  <2> QED BY <2>1, <2>2, TeardownStep
<1> QED BY <1>1, <1>2

\* One test after the other establishes what the next one, or the watch, needs.
LEMMA CheckStep ==
  ASSUME IInv, CheckBegin \/ CheckSource \/ CheckHog
  PROVE  IInv'
<1> USE DEF IInv
<1>1. CASE CheckBegin
  <2>1. /\ shell = "prompt" /\ shell' = "c_cron" /\ verdict' = "none"
        /\ failed' = FALSE /\ sample' = 0
        /\ UNCHANGED <<machine, spawner, unfinished, mistaken, tornDown>>
    BY <1>1 DEF CheckBegin, Line
  <2>2. FewHogs' /\ SetupWaits'
    BY <2>1 DEF FewHogs, Past, SetupWaits, machine
  <2>3. sample' \in 0..Samples
    <3>1. sample' = 0
      BY <2>1
    <3> QED BY <3>1, SamplesAssumption
  <2>4. failed' \in BOOLEAN
    BY <2>1
  <2>5. TypeOK'
    BY <2>1, <2>3, <2>4 DEF TypeOK, machine
  <2> QED BY <2>1, <2>2, <2>5
          DEF NoVerdict, Arming, CronGone, PayloadGone, Watching, Counting, FixedStays
<1>2. ASSUME NEW a, NEW b, NEW bad \in BOOLEAN, Test(a, b, bad), a # "s_wait"
      PROVE  /\ TypeOK' /\ FewHogs' /\ SetupWaits' /\ FixedStays'
             /\ shell = a /\ shell' = b
             /\ ~failed' => ~failed /\ ~bad
             /\ UNCHANGED <<cronFile, payload, sample>>
  <2>1. /\ shell = a /\ shell' = b
        /\ failed' = (failed \/ bad)
        /\ UNCHANGED <<cronFile, payload, tmp, hogs, spawner, verdict, sample, unfinished,
                       mistaken, tornDown>>
    BY <1>2 DEF Test, Line, machine
  <2>2. failed \in BOOLEAN
    BY DEF TypeOK
  <2>3. failed' \in BOOLEAN /\ (~failed' => ~failed /\ ~bad)
    BY <2>1, <2>2, <1>2
  <2>4. TypeOK'
    BY <2>1, <2>3 DEF TypeOK
  <2>5. FewHogs' /\ SetupWaits'
    BY <2>1, <1>2 DEF FewHogs, Past, SetupWaits
  <2>6. FixedStays'
    BY <2>1 DEF FixedStays, Gone, Flying
  <2> QED BY <2>1, <2>3, <2>4, <2>5, <2>6
<1>3. CASE Test("c_cron", "c_payload", cronFile)
  <2>0. cronFile \in BOOLEAN
    BY DEF TypeOK
  <2>1. /\ TypeOK' /\ FewHogs' /\ SetupWaits' /\ FixedStays'
        /\ shell = "c_cron" /\ shell' = "c_payload"
        /\ (~failed' => ~cronFile) /\ UNCHANGED <<cronFile, sample>>
    BY <1>2, <1>3, <2>0
  <2> QED BY <2>1 DEF NoVerdict, Arming, CronGone, PayloadGone, Watching, Counting
<1>4. CASE Test("c_payload", "c_pgrep", payload)
  <2>0. payload \in BOOLEAN
    BY DEF TypeOK
  <2>1. /\ TypeOK' /\ FewHogs' /\ SetupWaits' /\ FixedStays'
        /\ shell = "c_payload" /\ shell' = "c_pgrep"
        /\ ~failed' => ~failed /\ ~payload
        /\ UNCHANGED <<cronFile, payload, sample>>
    BY <1>2, <1>4, <2>0
  <2>2. CronGone' /\ PayloadGone'
    BY <2>1 DEF CronGone, PayloadGone
  <2> QED BY <2>1, <2>2 DEF NoVerdict, Arming, Watching, Counting
<1>5. CASE CheckHog
  <2>1. /\ shell = "c_pgrep"
        /\ UNCHANGED <<cronFile, payload, tmp, hogs, spawner, sample, mistaken, tornDown>>
    BY <1>5 DEF CheckHog, machine
  <2>0. PICK found \in BOOLEAN : failed' = (failed \/ found)
    BY <1>5 DEF CheckHog
  <2>2. failed \in BOOLEAN /\ unfinished \subseteq Spawner
    BY DEF TypeOK
  <2>3. FewHogs' /\ failed' \in BOOLEAN /\ (~failed' => ~failed)
    BY <2>0, <2>1, <2>2 DEF FewHogs, Past
  <2>4. CASE failed' /\ shell' = "prompt" /\ verdict' = "not_fixed" /\ unfinished' = unfinished
    <3>1. TypeOK' /\ SetupWaits'
      BY <2>1, <2>3, <2>4 DEF TypeOK, SetupWaits
    <3> QED BY <2>3, <2>4, <3>1
            DEF NoVerdict, Arming, CronGone, PayloadGone, Watching, Counting, FixedStays
  <2>5. CASE ~failed' /\ shell' = "c_watch" /\ unfinished' = Flying /\ verdict' = verdict
    <3>1. TypeOK' /\ SetupWaits'
      BY <2>1, <2>3, <2>5 DEF TypeOK, SetupWaits, Flying
    <3>2. ~cronFile /\ ~payload
      BY <2>1, <2>3, <2>5 DEF CronGone, PayloadGone
    <3>3. Flying' = Flying
      BY <2>1 DEF Flying
    <3>4. Watching'
      BY <2>1, <2>5, <3>2, <3>3 DEF Watching
    <3>5. FixedStays'
      BY <2>1, <2>5, <3>3 DEF FixedStays, Gone
    <3>6. Counting'
      BY <2>1, <2>5, SamplesAssumption DEF Counting
    <3> QED BY <2>3, <2>5, <3>1, <3>4, <3>5, <3>6 DEF NoVerdict, Arming, CronGone, PayloadGone
  <2> QED BY <1>5, <2>4, <2>5 DEF CheckHog, Verdict
<1> QED BY <1>1, <1>3, <1>4, <1>5 DEF CheckSource

\* The sample that prints the verdict comes at least ten seconds after the
\* sources were seen gone: every run that was in flight then has ended.
LEMMA WatchStep == ASSUME IInv, Watch PROVE IInv'
<1> USE DEF IInv
<1>1. /\ shell = "c_watch" /\ unfinished = {} /\ sample' = sample + 1
      /\ UNCHANGED <<cronFile, payload, tmp, hogs, spawner, failed, mistaken, tornDown>>
  BY DEF Watch, machine
<1>2. ~cronFile /\ ~payload /\ Flying = {} /\ Flying' = Flying
  BY <1>1 DEF Watching, Flying
<1>3. FewHogs'
  BY <1>1 DEF FewHogs, Past
<1>0. sample \in 0..Samples /\ sample < Samples /\ sample' \in 0..Samples
  BY <1>1, SamplesAssumption DEF TypeOK, Counting
<1>6. PICK found \in BOOLEAN :
        /\ Looks(found, Flying # {})
        /\ \/ found /\ Verdict("respawned") /\ UNCHANGED unfinished
           \/ /\ ~found
              /\ IF sample' = Samples THEN Verdict("fixed") ELSE UNCHANGED <<shell, verdict>>
              /\ unfinished' = Flying
  BY DEF Watch
<1>4. CASE found /\ Verdict("respawned") /\ unfinished' = unfinished
  <2>1. shell' = "prompt" /\ verdict' = "respawned"
    BY <1>4 DEF Verdict
  <2>2. TypeOK' /\ SetupWaits'
    BY <1>0, <1>1, <1>4, <2>1 DEF TypeOK, SetupWaits
  <2> QED BY <1>3, <2>1, <2>2
          DEF NoVerdict, Arming, CronGone, PayloadGone, Watching, Counting, FixedStays
<1>5. CASE ~found /\ unfinished' = Flying
  <2>0. hogs = 0
    BY <1>5, <1>6 DEF Looks, TypeOK
  <2>1. \/ shell' = "prompt" /\ verdict' = "fixed"
        \/ sample' # Samples /\ shell' = "c_watch" /\ verdict' = verdict
    BY <1>1, <1>5, <1>6 DEF Verdict
  <2>2. /\ shell' \in {"prompt", "c_watch"}
        /\ shell' = "c_watch" => sample' < Samples
        /\ verdict' \in {"none", "not_fixed", "respawned", "fixed"}
    BY <1>0, <2>1, SamplesAssumption DEF TypeOK
  <2>3. TypeOK' /\ SetupWaits'
    BY <1>0, <1>1, <1>2, <1>5, <2>2 DEF TypeOK, SetupWaits
  <2>4. Watching' /\ FixedStays'
    BY <1>1, <1>2, <1>5, <2>0 DEF Watching, FixedStays, Gone
  <2> QED BY <1>3, <2>2, <2>3, <2>4 DEF NoVerdict, Arming, CronGone, PayloadGone, Counting
<1> QED BY <1>4, <1>5, <1>6

-----------------------------------------------------------------------------
\* Every command of anyone keeps the invariant.
LEMMA StepIInv == ASSUME IInv, [Next]_vars PROVE IInv'
<1>1. CASE UNCHANGED vars
  BY <1>1 DEF vars, machine, checking, IInv, TypeOK, FewHogs, Past, SetupWaits, NoVerdict,
     CronGone, PayloadGone, Watching, Counting, FixedStays, Gone, Flying
<1>2. CASE Script
  BY <1>2, SetupStep, TeardownSteps, CheckStep, WatchStep DEF Script
<1>3. CASE SetupBegin \/ TeardownBegin \/ CheckBegin
  BY <1>3, SetupStep, TeardownSteps, CheckStep
<1> QED BY <1>1, <1>2, <1>3, RunStep, CronStep, FixStep DEF Next

\* While setup.sh waits for its run of the spawner, what that run needs is in place and
\* nobody takes a hog away: unless it is mistaken, the run leaves a hog or a child with a
\* copy to run.
Prepared ==
  /\ shell \in {"s_cron", "s_spawn", "s_wait"} => payload
  /\ shell \in {"s_spawn", "s_wait"} => cronFile
  /\ shell = "s_wait" => /\ spawner["setup"] = "child" => tmp
                         /\ spawner["setup"] = "idle" => hogs > 0 \/ mistaken

LEMMA PreparedStep ==
  ASSUME IInv, Prepared, [Next]_vars
  PROVE  Prepared'
<1>0. TypeOK
  BY DEF IInv
<1>1. ASSUME NEW s \in Spawner, SpawnerStep(s)
      PROVE  Prepared'
  <2>0. shell' = shell /\ payload' = payload /\ cronFile' = cronFile
    BY <1>1 DEF SpawnerStep, Pgrep, Copy, Launch, Run, machine
  <2>1. CASE Pgrep(s)
    <3>1. /\ hogs' = hogs /\ tmp' = tmp
          /\ spawner' \in {[spawner EXCEPT ![s] = "idle"], [spawner EXCEPT ![s] = "copy"]}
          /\ s # "setup" => mistaken' = mistaken
          /\ s = "setup" /\ spawner' = [spawner EXCEPT ![s] = "idle"] =>
               hogs > 0 \/ mistaken'
      <4>1. PICK found \in BOOLEAN :
              /\ Looks(found, Passing(s))
              /\ spawner' = [spawner EXCEPT ![s] = IF found THEN "idle" ELSE "copy"]
              /\ mistaken' = IF s = "setup" THEN found /\ hogs = 0 ELSE mistaken
        BY <2>1 DEF Pgrep, Run
      <4>2. found \/ spawner' # [spawner EXCEPT ![s] = "idle"]
        BY <1>0, <4>1 DEF TypeOK
      <4>3. hogs \in Nat
        BY <1>0 DEF TypeOK
      <4>4. hogs' = hogs /\ tmp' = tmp
        BY <2>1 DEF Pgrep, machine
      <4>5. hogs > 0 \/ hogs = 0
        BY <4>3
      <4> QED BY <4>1, <4>2, <4>4, <4>5
    <3> QED BY <1>0, <2>0, <3>1 DEF TypeOK, Prepared, Spawner
  <2>2. CASE Copy(s)
    <3>1. /\ hogs' = hogs /\ tmp' = (tmp \/ payload)
          /\ spawner' = [spawner EXCEPT ![s] = "child"] /\ mistaken' = mistaken
      BY <2>2 DEF Copy, Run
    <3> QED BY <1>0, <2>0, <3>1 DEF TypeOK, Prepared, Spawner
  <2>3. CASE Launch(s)
    <3>1. /\ hogs' = IF tmp THEN hogs + 1 ELSE hogs
          /\ tmp' = tmp /\ spawner[s] = "child" /\ mistaken' = mistaken
          /\ spawner' = [spawner EXCEPT ![s] = "idle"]
      BY <2>3 DEF Launch, Run
    <3>2. hogs \in Nat
      BY <1>0 DEF TypeOK
    <3> QED BY <1>0, <2>0, <3>1, <3>2 DEF TypeOK, Prepared, Spawner
  <2> QED BY <1>1, <2>1, <2>2, <2>3 DEF SpawnerStep
<1>2. CASE CronFires
  BY <1>0, <1>2 DEF CronFires, machine, TypeOK, Prepared, Spawner
<1>3. CASE Fix \/ HogExpires
  <2>1. /\ shell' = shell
        /\ shell \notin {"s_cron", "s_spawn", "s_wait"}
    BY <1>3 DEF Fix, Disarm, Cleanse, Unmask, Kill, Elsewhere, Idle, HogExpires
  <2> QED BY <2>1 DEF Prepared
<1>4. CASE SetupPayload
  BY <1>4 DEF SetupPayload, Line, Prepared
<1>5. CASE SetupCron
  BY <1>5 DEF SetupCron, Line, Prepared
<1>6. CASE SetupSpawn
  BY <1>0, <1>6 DEF SetupSpawn, Line, machine, Prepared, TypeOK, Spawner
<1>7. CASE SetupBegin \/ SetupClear \/ SetupEnd \/ TeardownBegin \/ TeardownClear \/ TeardownEnd
           \/ CheckBegin \/ CheckSource \/ CheckHog \/ Watch
  <2>1. shell' \notin {"s_cron", "s_spawn", "s_wait"}
    BY <1>7 DEF SetupBegin, SetupClear, SetupEnd, TeardownBegin, TeardownClear, TeardownEnd,
       CheckBegin, CheckSource, CheckHog, Watch, RmCron, Pkill, RmPayload, RmTmp, Test, Line,
       Verdict
  <2> QED BY <2>1 DEF Prepared
<1>8. CASE UNCHANGED vars
  BY <1>8 DEF vars, machine, Prepared
<1> QED BY <1>1, <1>2, <1>3, <1>4, <1>5, <1>6, <1>7, <1>8 DEF Next, Script

-----------------------------------------------------------------------------
(* Lab 03 *)

PClean(u) == ~pExists[u] /\ ~pEnabled[u] /\ pState[u] = "inactive"

\* setup.sh has withdrawn what teardown.sh said before it puts anything in place,
\* and a verdict stands only while no script runs.
PSaid == /\ \A a : pShell = <<"setup", a>> => ~pTornDown
         /\ pVerdict # "none" => pShell = P!Prompt

\* The loop over the two units leaves each of them clean, and nothing but a script
\* or the player starts a unit that is down.
PClearing == \A p \in {"setup", "teardown"} :
  /\ pShell = <<p, "rm_api">> => pState["api"] = "inactive"
  /\ pShell \in {<<p, "stop_squatter">>, <<p, "rm_squatter">>, <<p, "cleared">>}
       => PClean("api")
  /\ pShell = <<p, "rm_squatter">> => pState["squatter"] = "inactive"
  /\ pShell = <<p, "cleared">> => PClean("squatter")

\* The squatter is started on a free port, before the API, and no clock but its own
\* runs until it has bound it.
PArming ==
  /\ pShell = <<"setup", "squat">> =>
       pState["api"] = "inactive" /\ pState["squatter"] = "inactive"
  /\ pShell = <<"setup", "sleep">> =>
       /\ pState["api"] = "inactive" /\ pEnabled["squatter"]
       /\ pState["squatter"] \in {"starting", "running"}
  /\ pShell = <<"setup", "api">> =>
       pState["api"] = "inactive" /\ pEnabled["squatter"] /\ pPort = "squatter"
  /\ pShell = <<"setup", "end">> =>
       /\ pState["api"] \in {"starting", "restarting"}
       /\ pEnabled["squatter"] /\ pPort = "squatter"

\* The units whose files the rest of setup.sh works on are there.
PInstalled == pShell \in {<<"setup", "squat">>, <<"setup", "sleep">>, <<"setup", "api">>} =>
                pExists["api"] /\ pExists["squatter"]

\* The API that has answered check.sh keeps the port; that the squatter may be between
\* two attempts to take it (`restarting' is not active) does no harm.
PChecking ==
  pShell \in {<<"check", "squatter_active">>, <<"check", "squatter_enabled">>} /\ ~pFailed
    => pPort = "api"

\* After the verdict the port changes hands at a reboot only, which the squatter, not
\* enabled, does not survive.
PFixed == pVerdict = "fixed" =>
            ~pEnabled["squatter"] /\ (pPort = "api" \/ pState["squatter"] = "inactive")

PInv == /\ P!TypeOK /\ P!TornDownClean
        /\ PSaid /\ PClearing /\ PArming /\ PInstalled /\ PChecking /\ PFixed

LEMMA PInit == P!Init => PInv
<1> SUFFICES ASSUME P!Init PROVE PInv
  OBVIOUS
<1>1. P!TypeOK /\ P!TornDownClean
  BY DEF P!Init, P!TypeOK, P!TornDownClean, P!UnitState, P!Unit
<1>2. PSaid /\ PClearing /\ PArming /\ PInstalled /\ PChecking /\ PFixed
  BY DEF P!Init, P!Prompt, PSaid, PClearing, PArming, PInstalled, PChecking, PFixed
<1> QED BY <1>1, <1>2 DEF PInv

\* systemd and the two programs: a unit that is down stays down, one that runs keeps
\* the port.
LEMMA PService ==
  ASSUME PInv, NEW u \in P!Unit, P!Service(u)
  PROVE  PInv'
<1> USE DEF PInv, P!Unit
<1>1. /\ UNCHANGED <<pExists, pEnabled, pShell, pFailed, pVerdict, pTornDown>>
      /\ pState \in [P!Unit -> P!UnitState] /\ pPort \in {"api", "squatter", "free"}
      /\ pState[u] \in {"starting", "restarting"}
  BY DEF P!Service, P!Bind, P!Crash, P!Restart, P!TypeOK
<1>2. PICK s \in {"running", "restarting", "failed", "starting"} :
        /\ pState' = [pState EXCEPT ![u] = s]
        /\ s = "failed" => u = "squatter"
        /\ pState[u] = "starting" => s # "starting"
        /\ IF s = "running" THEN pPort = "free" /\ pPort' = u /\ pState[u] = "starting"
                            ELSE pPort' = pPort
        /\ s \in {"restarting", "failed"} => pPort # "free"
  BY DEF P!Service, P!Bind, P!Crash, P!Restart, P!AfterFailure
<1>3. P!TypeOK'
  BY <1>1, <1>2 DEF P!TypeOK, P!UnitState
<1>4. P!TornDownClean' /\ PSaid' /\ PClearing' /\ PInstalled'
  BY <1>1, <1>2 DEF P!TornDownClean, PSaid, PClearing, PClean, PInstalled, P!Prompt
<1>5. PArming'
  BY <1>1, <1>2 DEF PArming, P!TypeOK
<1>6. PChecking' /\ PFixed'
  BY <1>1, <1>2 DEF PChecking, PFixed
<1> QED BY <1>3, <1>4, <1>5, <1>6

\* A stop takes the port from nobody else, a start from nobody.
LEMMA PTypes ==
  ASSUME P!TypeOK, NEW u \in P!Unit, P!Start(u) \/ P!Stop(u)
  PROVE  /\ pState' \in [P!Unit -> P!UnitState]
         /\ pPort' \in P!Unit \cup {"free"}
         /\ \A v \in P!Unit : pPort' = v <=> pState'[v] = "running"
         /\ \A v \in P!Unit \ {u} : pState'[v] = pState[v]
         /\ P!Start(u) => pPort' = pPort /\ pState'[u] \in {"starting", "running"}
         /\ P!Stop(u) => pState'[u] = "inactive"
BY DEF P!TypeOK, P!Start, P!Stop, P!Started, P!Active, P!Unit, P!UnitState

\* The player, who may do anything with a unit that exists, and the power switch.
LEMMA PPlayer ==
  ASSUME PInv, P!Player \/ P!Reboot
  PROVE  PInv'
<1> USE DEF PInv
<1>1. CASE P!Player
  <2>1. PICK u \in P!Unit : /\ pExists[u]
                            /\ \/ (P!Start(u) \/ P!Stop(u)) /\ UNCHANGED pEnabled
                               \/ /\ \E e \in BOOLEAN : pEnabled' = [pEnabled EXCEPT ![u] = e]
                                  /\ UNCHANGED <<pState, pPort>>
    BY <1>1 DEF P!Player
  <2>2. /\ pShell = P!Prompt /\ pVerdict' = "none"
        /\ UNCHANGED <<pExists, pShell, pFailed, pTornDown>>
    BY <1>1 DEF P!Player
  <2>3. P!TypeOK'
    <3>1. /\ pState' \in [P!Unit -> P!UnitState] /\ pPort' \in P!Unit \cup {"free"}
          /\ \A v \in P!Unit : pPort' = v <=> pState'[v] = "running"
      BY <2>1, PTypes DEF P!TypeOK
    <3>2. /\ pEnabled' \in [P!Unit -> BOOLEAN]
          /\ \A v \in P!Unit : pEnabled'[v] => pExists[v]
      BY <2>1 DEF P!TypeOK
    <3> QED BY <2>2, <3>1, <3>2 DEF P!TypeOK
  <2>4. ~pTornDown
    BY <2>1 DEF P!TornDownClean
  <2> QED BY <2>2, <2>3, <2>4 DEF P!TornDownClean, P!Prompt, PSaid, PClearing, PArming,
             PInstalled, PChecking, PFixed
<1>2. CASE P!Reboot
  <2>1. /\ pShell = P!Prompt /\ pPort' = "free"
        /\ pState' = [u \in P!Unit |->
                        IF pExists[u] /\ pEnabled[u] THEN "starting" ELSE "inactive"]
        /\ UNCHANGED <<pExists, pEnabled, pShell, pFailed, pVerdict, pTornDown>>
    BY <1>2 DEF P!Reboot
  <2>2. P!TypeOK'
    BY <2>1 DEF P!TypeOK, P!Unit, P!UnitState
  <2>3. P!TornDownClean' /\ PFixed'
    BY <2>1 DEF P!TornDownClean, P!Unit, PFixed
  <2> QED BY <2>1, <2>2, <2>3 DEF P!Prompt, PSaid, PClearing, PArming, PInstalled, PChecking
<1> QED BY <1>1, <1>2

\* The loop over the units, in either script.
LEMMA PClear ==
  ASSUME PInv, NEW p \in {"setup", "teardown"}, P!Clear(p)
  PROVE  PInv'
<1> USE DEF PInv
<1>0. UNCHANGED <<pFailed, pVerdict, pTornDown>> /\ pVerdict = "none"
  BY DEF P!Clear, P!Quiet, P!StopUnit, P!RemoveUnit, P!Line, PSaid, P!Prompt, P!TypeOK
<1>1. ASSUME NEW u \in P!Unit, NEW a, NEW b, P!StopUnit(p, a, b, u)
      PROVE  /\ pShell = <<p, a>> /\ pShell' = <<p, b>>
             /\ P!TypeOK' /\ P!TornDownClean' /\ pState'[u] = "inactive"
             /\ \A v \in P!Unit : PClean(v) => PClean(v)'
  <2>1. /\ pShell = <<p, a>> /\ pShell' = <<p, b>>
        /\ P!Stop(u) /\ UNCHANGED <<pExists, pEnabled>>
    BY <1>1 DEF P!StopUnit, P!Line
  <2>2. P!TypeOK'
    BY <1>0, <2>1, PTypes DEF P!TypeOK
  <2>3. /\ pState'[u] = "inactive"
        /\ \A v \in P!Unit : pState[v] = "inactive" => pState'[v] = "inactive"
    BY <2>1, PTypes
  <2>4. P!TornDownClean'
    BY <1>0, <2>1, <2>3 DEF P!TornDownClean, P!Stop, P!Unit
  <2> QED BY <2>1, <2>2, <2>3, <2>4 DEF PClean
<1>2. ASSUME NEW u \in P!Unit, NEW a, NEW b, P!RemoveUnit(p, a, b, u), pState[u] = "inactive"
      PROVE  /\ pShell = <<p, a>> /\ pShell' = <<p, b>>
             /\ P!TypeOK' /\ P!TornDownClean' /\ PClean(u)'
             /\ \A v \in P!Unit : PClean(v) => PClean(v)'
  <2>1. /\ pShell = <<p, a>> /\ pShell' = <<p, b>>
        /\ pEnabled' = [pEnabled EXCEPT ![u] = FALSE]
        /\ pExists' = [pExists EXCEPT ![u] = FALSE]
        /\ UNCHANGED <<pState, pPort>>
    BY <1>2 DEF P!RemoveUnit, P!Line
  <2>2. P!TypeOK'
    BY <1>0, <2>1 DEF P!TypeOK
  <2>3. PClean(u)' /\ \A v \in P!Unit : PClean(v) => PClean(v)'
    BY <1>2, <2>1 DEF PClean, P!TypeOK
  <2>4. P!TornDownClean'
    BY <1>0, <2>1, <2>3 DEF P!TornDownClean, PClean
  <2> QED BY <2>1, <2>2, <2>3, <2>4
<1>3. /\ P!TypeOK' /\ P!TornDownClean' /\ PClearing'
      /\ \E a \in {"stop_api", "rm_api", "stop_squatter", "rm_squatter"} : pShell = <<p, a>>
      /\ \E b \in {"rm_api", "stop_squatter", "rm_squatter", "cleared"} : pShell' = <<p, b>>
  <2>1. CASE P!StopUnit(p, "stop_api", "rm_api", "api")
    BY <1>1, <2>1 DEF PClearing, P!Unit
  <2>2. CASE P!RemoveUnit(p, "rm_api", "stop_squatter", "api")
    <3>1. pState["api"] = "inactive"
      BY <2>2 DEF P!RemoveUnit, P!Line, PClearing
    <3> QED BY <1>2, <2>2, <3>1 DEF PClearing, P!Unit
  <2>3. CASE P!StopUnit(p, "stop_squatter", "rm_squatter", "squatter")
    <3>1. PClean("api")
      BY <2>3 DEF P!StopUnit, P!Line, PClearing
    <3> QED BY <1>1, <2>3, <3>1 DEF PClearing, P!Unit
  <2>4. CASE P!RemoveUnit(p, "rm_squatter", "cleared", "squatter")
    <3>1. PClean("api") /\ pState["squatter"] = "inactive"
      BY <2>4 DEF P!RemoveUnit, P!Line, PClearing
    <3> QED BY <1>2, <2>4, <3>1 DEF PClearing, P!Unit
  <2> QED BY <2>1, <2>2, <2>3, <2>4 DEF P!Clear
<1>4. PSaid'
  BY <1>0, <1>3 DEF PSaid
<1> QED BY <1>0, <1>3, <1>4 DEF PArming, PInstalled, PChecking, PFixed

\* The commands of setup.sh after the loop, and how the three scripts begin and end.
LEMMA PSetup ==
  ASSUME PInv, P!SetupBegin \/ P!Setup
  PROVE  PInv'
<1> USE DEF PInv
<1>1. CASE P!SetupBegin
  <2>1. /\ pShell' = <<"setup", "stop_api">> /\ pVerdict' = "none" /\ pTornDown' = FALSE
        /\ UNCHANGED <<pExists, pEnabled, pState, pPort, pFailed>>
    BY <1>1 DEF P!SetupBegin, P!Begin, P!machine
  <2> QED BY <2>1 DEF P!TypeOK, P!TornDownClean, PSaid, PClearing, PArming, PInstalled,
             PChecking, PFixed
<1>2. ASSUME P!Setup
      PROVE  /\ ~pTornDown /\ pVerdict = "none"
             /\ UNCHANGED <<pFailed, pVerdict, pTornDown>>
  <2>1. /\ UNCHANGED <<pFailed, pVerdict, pTornDown>>
        /\ \E a \in {"cleared", "squat", "sleep", "api", "end"} : pShell = <<"setup", a>>
    BY <1>2 DEF P!Setup, P!SetupInstall, P!SetupSquat, P!SetupSleep, P!SetupApi, P!SetupEnd,
       P!Quiet, P!Line, P!End
  <2> QED BY <2>1 DEF PSaid, P!Prompt, P!TypeOK
<1>3. CASE P!SetupInstall
  <2>1. /\ pShell = <<"setup", "cleared">> /\ pShell' = <<"setup", "squat">>
        /\ pExists' = [u \in P!Unit |-> TRUE]
        /\ UNCHANGED <<pEnabled, pState, pPort>>
    BY <1>3 DEF P!SetupInstall, P!Line
  <2>2. PClean("api") /\ PClean("squatter")
    BY <2>1 DEF PClearing
  <2>3. P!TypeOK'
    BY <1>2, <1>3, <2>1 DEF P!Setup, P!TypeOK
  <2> QED BY <1>2, <1>3, <2>1, <2>2, <2>3 DEF P!Setup, P!TornDownClean, PSaid, PClearing,
             PClean, PArming, PInstalled, P!Unit, PChecking, PFixed
<1>4. CASE P!SetupSquat
  <2>1. /\ pShell = <<"setup", "squat">> /\ pShell' = <<"setup", "sleep">>
        /\ pEnabled' = [pEnabled EXCEPT !["squatter"] = TRUE]
        /\ P!Start("squatter") /\ UNCHANGED pExists
    BY <1>4 DEF P!SetupSquat, P!Line
  <2>2. /\ pState["api"] = "inactive" /\ pState["squatter"] = "inactive"
        /\ pExists["api"] /\ pExists["squatter"]
    BY <2>1 DEF PArming, PInstalled
  <2>3. P!TypeOK'
    BY <1>2, <1>4, <2>1, <2>2, PTypes DEF P!Setup, P!TypeOK, P!Unit
  <2>4. pState'["api"] = "inactive" /\ pState'["squatter"] \in {"starting", "running"}
    BY <2>1, <2>2, PTypes DEF P!Unit
  <2> QED BY <1>2, <1>4, <2>1, <2>2, <2>3, <2>4 DEF P!Setup, P!TypeOK, P!TornDownClean, PSaid,
             PClearing, PArming, PInstalled, P!Unit, PChecking, PFixed
<1>5. CASE P!SetupSleep
  <2>1. /\ pShell = <<"setup", "sleep">> /\ pShell' = <<"setup", "api">>
        /\ pState["squatter"] # "starting"
        /\ UNCHANGED <<pExists, pEnabled, pState, pPort>>
    BY <1>5 DEF P!SetupSleep, P!Line, P!machine
  <2>2. /\ pState["api"] = "inactive" /\ pEnabled["squatter"] /\ pPort = "squatter"
        /\ pExists["api"] /\ pExists["squatter"]
    BY <2>1 DEF PArming, PInstalled, P!TypeOK, P!Unit
  <2> QED BY <1>2, <1>5, <2>1, <2>2 DEF P!Setup, P!TypeOK, P!TornDownClean, PSaid,
             PClearing, PArming, PInstalled, PChecking, PFixed
<1>6. CASE P!SetupApi
  <2>1. /\ pShell = <<"setup", "api">> /\ pShell' = <<"setup", "end">>
        /\ pEnabled' = [pEnabled EXCEPT !["api"] = TRUE]
        /\ P!Start("api") /\ UNCHANGED pExists
    BY <1>6 DEF P!SetupApi, P!Line
  <2>2. /\ pState["api"] = "inactive" /\ pEnabled["squatter"] /\ pPort = "squatter"
        /\ pExists["api"]
    BY <2>1 DEF PArming, PInstalled
  <2>3. P!TypeOK'
    BY <1>2, <1>6, <2>1, <2>2, PTypes DEF P!Setup, P!TypeOK, P!Unit
  <2>4. pState'["api"] = "starting" /\ pEnabled'["squatter"] /\ pPort' = "squatter"
    BY <2>1, <2>2 DEF P!Start, P!Started, P!Active, P!TypeOK, P!Unit
  <2> QED BY <1>2, <1>6, <2>1, <2>3, <2>4 DEF P!Setup, P!TornDownClean, PSaid,
             PClearing, PArming, PInstalled, PChecking, PFixed
<1>7. CASE P!SetupEnd
  <2>1. pShell' = P!Prompt /\ UNCHANGED <<pExists, pEnabled, pState, pPort>>
    BY <1>7 DEF P!SetupEnd, P!End, P!machine
  <2> QED BY <1>2, <1>7, <2>1 DEF P!Setup, P!Prompt, P!TypeOK, P!TornDownClean, PSaid,
             PClearing, PArming, PInstalled, PChecking, PFixed
<1> QED BY <1>1, <1>3, <1>4, <1>5, <1>6, <1>7 DEF P!Setup

LEMMA PTeardown ==
  ASSUME PInv, P!TeardownBegin \/ P!TeardownEnd
  PROVE  PInv'
<1> USE DEF PInv
<1>1. CASE P!TeardownBegin
  <2>1. /\ pShell' = <<"teardown", "stop_api">> /\ pVerdict' = "none"
        /\ UNCHANGED <<pExists, pEnabled, pState, pPort, pFailed, pTornDown>>
    BY <1>1 DEF P!TeardownBegin, P!Begin, P!machine
  <2> QED BY <2>1 DEF P!TypeOK, P!TornDownClean, PSaid, PClearing, PArming, PInstalled,
             PChecking, PFixed
<1>2. CASE P!TeardownEnd
  <2>1. /\ pShell = <<"teardown", "cleared">> /\ pShell' = P!Prompt /\ pTornDown' = TRUE
        /\ UNCHANGED <<pExists, pEnabled, pState, pPort, pFailed, pVerdict>>
    BY <1>2 DEF P!TeardownEnd, P!End, P!machine
  <2>2. PClean("api") /\ PClean("squatter")
    BY <2>1 DEF PClearing
  <2>3. P!TornDownClean'
    BY <2>1, <2>2 DEF PClean, P!TornDownClean, P!TypeOK, P!Unit
  <2> QED BY <2>1, <2>3 DEF P!TypeOK, P!Prompt, PSaid, PClearing, PArming, PInstalled,
             PChecking, PFixed
<1> QED BY <1>1, <1>2

\* The second test is the one that counts: it sees who has the port.
LEMMA PCheck ==
  ASSUME PInv, P!CheckBegin \/ P!Check
  PROVE  PInv'
<1> USE DEF PInv
<1>0. /\ UNCHANGED <<pExists, pEnabled, pState, pPort, pTornDown>>
      /\ P!TornDownClean'
  BY DEF P!CheckBegin, P!Check, P!machine, P!TornDownClean
<1>1. CASE P!CheckBegin
  <2>1. pShell' = <<"check", "api_active">> /\ pFailed' = FALSE /\ pVerdict' = "none"
    BY <1>1 DEF P!CheckBegin
  <2> QED BY <1>0, <2>1 DEF P!TypeOK, PSaid, PClearing, PArming, PInstalled, PChecking, PFixed
<1>2. ASSUME NEW a, NEW b, pShell = <<"check", a>>, pShell' = <<"check", b>>,
             pFailed' \in BOOLEAN, pVerdict' = pVerdict
      PROVE  P!TypeOK' /\ PSaid' /\ PClearing' /\ PArming' /\ PInstalled' /\ PFixed'
  <2>1. pVerdict' = "none"
    BY <1>2 DEF PSaid, P!Prompt
  <2> QED BY <1>0, <1>2, <2>1 DEF P!TypeOK, PSaid, PClearing, PArming, PInstalled, PFixed
<1>3. CASE P!Test("api_active", "curl", ~P!Active(pState["api"]))
  <2>1. /\ pShell = <<"check", "api_active">> /\ pShell' = <<"check", "curl">>
        /\ pFailed' \in BOOLEAN /\ pVerdict' = pVerdict
    BY <1>3 DEF P!Test, P!Line
  <2> QED BY <1>0, <1>2, <2>1 DEF PChecking
<1>4. CASE P!Test("curl", "squatter_active", pPort # "api")
  <2>1. /\ pShell = <<"check", "curl">> /\ pShell' = <<"check", "squatter_active">>
        /\ pFailed' \in BOOLEAN /\ pVerdict' = pVerdict
        /\ ~pFailed' => pPort = "api"
    BY <1>4 DEF P!Test, P!Line
  <2> QED BY <1>0, <1>2, <2>1 DEF PChecking
<1>5. CASE P!Test("squatter_active", "squatter_enabled", P!Active(pState["squatter"]))
  <2>1. /\ pShell = <<"check", "squatter_active">>
        /\ pShell' = <<"check", "squatter_enabled">>
        /\ pFailed' \in BOOLEAN /\ pVerdict' = pVerdict
        /\ ~pFailed' => ~pFailed
    BY <1>5 DEF P!Test, P!Line, P!TypeOK
  <2> QED BY <1>0, <1>2, <2>1 DEF PChecking
<1>6. CASE P!Conclude("squatter_enabled", pEnabled["squatter"])
  <2>1. /\ pShell = <<"check", "squatter_enabled">> /\ pShell' = P!Prompt
        /\ pFailed' = (pFailed \/ pEnabled["squatter"])
        /\ pVerdict' = IF pFailed' THEN "not_fixed" ELSE "fixed"
    BY <1>6 DEF P!Conclude, P!End
  <2>2. pFailed \in BOOLEAN /\ pEnabled["squatter"] \in BOOLEAN
    BY DEF P!TypeOK, P!Unit
  <2>3. pFailed' \in BOOLEAN /\ (~pFailed' => ~pFailed /\ ~pEnabled["squatter"])
    BY <2>1, <2>2
  <2>4. PFixed'
    BY <1>0, <2>1, <2>3 DEF PFixed, PChecking
  <2>5. P!TypeOK'
    BY <1>0, <2>1, <2>3 DEF P!TypeOK
  <2> QED BY <2>1, <2>4, <2>5, <1>0 DEF P!Prompt, PSaid, PClearing, PArming, PInstalled, PChecking
<1> QED BY <1>0, <1>1, <1>3, <1>4, <1>5, <1>6 DEF P!Check

LEMMA PStep == ASSUME PInv, [P!Next]_portVars PROVE PInv'
<1>1. CASE UNCHANGED portVars
  BY <1>1 DEF portVars, PInv, P!TypeOK, P!TornDownClean, PSaid, PClearing, PClean, PArming,
     PInstalled, PChecking, PFixed
<1>2. CASE P!Next
  BY <1>2, PService, PPlayer, PClear, PSetup, PTeardown, PCheck DEF P!Next, P!Script
<1> QED BY <1>1, <1>2

-----------------------------------------------------------------------------
(* Lab 08 *)

CSaid == /\ \A a : cShell = <<"setup", a>> => ~cTornDown
         /\ cVerdict # "none" => cShell = C!Prompt

\* From the stop to the end of setup.sh no server is up that an earlier game left, and
\* none is started before the expired pair is there to be loaded.
CArming ==
  /\ cShell \in {<<"setup", "rm">>, <<"setup", "openssl">>, <<"setup", "unit">>,
                 <<"setup", "enable">>, <<"teardown", "rm">>}
       => cState = "inactive" /\ ~cEnabled
  /\ cShell \in {<<"setup", "unit">>, <<"setup", "enable">>} => cPair = "expired"
  /\ cShell = <<"setup", "enable">> => cUnit

CInv == C!TypeOK /\ C!TornDownClean /\ C!FixedAnswers /\ CSaid /\ CArming

LEMMA CInit == C!Init => CInv
<1> SUFFICES ASSUME C!Init PROVE CInv
  OBVIOUS
<1>1. C!TypeOK
  BY DEF C!Init, C!TypeOK, C!UnitState
<1>2. C!TornDownClean /\ C!FixedAnswers /\ CSaid /\ CArming
  BY DEF C!Init, C!TornDownClean, C!FixedAnswers, C!Prompt, CSaid, CArming
<1> QED BY <1>1, <1>2 DEF CInv

\* systemd and serve.py, the player and the power switch.
LEMMA CMachine ==
  ASSUME CInv, C!Service \/ C!Player \/ C!Reboot
  PROVE  CInv'
<1> USE DEF CInv, CSaid, CArming, C!TypeOK, C!TornDownClean, C!FixedAnswers, C!UnitState, C!Prompt
<1>1. CASE C!Service
  <2>1. /\ cState \in {"starting", "restarting"}
        /\ UNCHANGED <<cUnit, cEnabled, cPair, cShell, cFailed, cVerdict, cTornDown>>
    BY <1>1 DEF C!Service, C!Load, C!Crash, C!Restart
  <2>2. \/ cState' = "running" /\ cServed' \in {"expired", "valid"}
        \/ cState' \in {"starting", "restarting", "failed"} /\ cServed' = cServed
    BY <1>1 DEF C!Service, C!Load, C!Crash, C!Restart, C!AfterFailure
  <2> QED BY <2>1, <2>2
<1>2. CASE C!Player
  <2>1. /\ cShell = C!Prompt /\ cUnit /\ cVerdict' = "none"
        /\ UNCHANGED <<cUnit, cEnabled, cShell, cFailed, cTornDown>>
        /\ cPair' \in {cPair, "torn", "valid"}
    BY <1>2 DEF C!Player, C!RenewKey, C!RenewCert, C!RestartUnit, C!StopUnit
  <2>2. \/ cState' = cState /\ cServed' = cServed
        \/ cState' \in {"starting", "inactive"} /\ cServed' = "none"
    BY <1>2 DEF C!Player, C!RenewKey, C!RenewCert, C!RestartUnit, C!StopUnit, C!Stop
  <2> QED BY <2>1, <2>2
<1>3. CASE C!Reboot
  BY <1>3 DEF C!Reboot
<1> QED BY <1>1, <1>2, <1>3

LEMMA CSetup ==
  ASSUME CInv, C!SetupBegin \/ C!Setup
  PROVE  CInv'
<1> USE DEF CInv, CSaid, CArming, C!TypeOK, C!TornDownClean, C!FixedAnswers, C!UnitState,
            C!Prompt, C!Line, C!End, C!Quiet
<1>1. CASE C!SetupBegin
  BY <1>1 DEF C!SetupBegin, C!machine
<1>2. CASE C!SetupStop
  BY <1>2 DEF C!SetupStop, C!Stop
<1>3. CASE C!SetupRemove
  BY <1>3 DEF C!SetupRemove
<1>4. CASE C!SetupIssue
  BY <1>4 DEF C!SetupIssue
<1>5. CASE C!SetupDies
  BY <1>5 DEF C!SetupDies, C!machine
<1>6. CASE C!SetupUnit
  BY <1>6 DEF C!SetupUnit
<1>7. CASE C!SetupEnable
  BY <1>7 DEF C!SetupEnable, C!Start, C!Started, C!Active
<1> QED BY <1>1, <1>2, <1>3, <1>4, <1>5, <1>6, <1>7 DEF C!Setup

LEMMA CTeardown ==
  ASSUME CInv, C!TeardownBegin \/ C!TeardownDisable \/ C!TeardownRemove
  PROVE  CInv'
<1> USE DEF CInv, CSaid, CArming, C!TypeOK, C!TornDownClean, C!FixedAnswers, C!UnitState,
            C!Prompt, C!Line, C!End, C!Quiet
<1>1. CASE C!TeardownBegin
  BY <1>1 DEF C!TeardownBegin, C!machine
<1>2. CASE C!TeardownDisable
  BY <1>2 DEF C!TeardownDisable, C!Stop
<1>3. CASE C!TeardownRemove
  BY <1>3 DEF C!TeardownRemove
<1> QED BY <1>1, <1>2, <1>3

\* The last test asks again for what the first two have seen.
LEMMA CCheck ==
  ASSUME CInv, C!CheckBegin \/ C!Check
  PROVE  CInv'
<1> USE DEF CInv, CSaid, CArming, C!TypeOK, C!TornDownClean, C!FixedAnswers, C!UnitState,
            C!Prompt, C!Line, C!End, C!Quiet
<1>0. UNCHANGED <<cUnit, cEnabled, cState, cPair, cServed, cTornDown>>
  BY DEF C!CheckBegin, C!Check, C!machine
<1>1. CASE C!CheckBegin
  <2>1. cShell' = <<"check", "active">> /\ cFailed' = FALSE /\ cVerdict' = "none"
    BY <1>1 DEF C!CheckBegin
  <2>2. C!TypeOK'
    BY <1>0, <2>1
  <2> QED BY <1>0, <2>1, <2>2
<1>2. CASE /\ cShell \in {<<"check", "active">>, <<"check", "file">>}
           /\ cShell' \in {<<"check", "file">>, <<"check", "curl">>}
           /\ cFailed' \in BOOLEAN /\ cVerdict' = cVerdict
  BY <1>0, <1>2
<1>3. CASE C!Conclude(cState # "running" \/ cPair # "valid")
  <2>1. /\ cShell' = C!Prompt
        /\ cFailed' = (cFailed \/ cState # "running" \/ cPair # "valid")
        /\ cVerdict' = IF cFailed' THEN "not_fixed" ELSE "fixed"
    BY <1>3 DEF C!Conclude
  <2>2. cFailed' \in BOOLEAN /\ (~cFailed' => cState = "running" /\ cPair = "valid")
    BY <2>1
  <2> QED BY <1>0, <2>1, <2>2
<1> QED BY <1>1, <1>2, <1>3 DEF C!Check, C!Test

LEMMA CStep == ASSUME CInv, [C!Next]_certVars PROVE CInv'
<1>1. CASE UNCHANGED certVars
  BY <1>1 DEF certVars, CInv, C!TypeOK, C!TornDownClean, C!FixedAnswers, CSaid, CArming
<1>2. CASE C!Next
  BY <1>2, CMachine, CSetup, CTeardown, CCheck DEF C!Next, C!Script
<1> QED BY <1>1, <1>2

-----------------------------------------------------------------------------
(* Lab 04 *)

DSaid == /\ \A a : dShell = <<"setup", a>> => ~dTornDown
         /\ dVerdict # "none" => dShell = D!Prompt

\* The copy is taken from a file without the poisoned line, whatever was there before.
DCopy == /\ "poison" \notin dPristine
         /\ dShell \in {<<"setup", "rm">>, <<"setup", "rm_dir">>, <<"setup", "cp">>}
              => "poison" \notin dHosts

\* What teardown.sh has undone.
DUndoing ==
  /\ dShell \in {<<"teardown", "rm">>, <<"teardown", "restart">>, <<"teardown", "rm_dir">>}
       => "poison" \notin dHosts
  /\ dShell \in {<<"teardown", "restart">>, <<"teardown", "rm_dir">>} => ~dDropin
  /\ dShell = <<"teardown", "rm_dir">> => ~dLoaded

\* What the tests of check.sh have seen, none having failed.
DChecking ==
  ~dFailed =>
    /\ dShell \in {<<"check", "dropin">>, <<"check", "status">>, <<"check", "getent">>}
         => "poison" \notin dHosts
    /\ dShell \in {<<"check", "status">>, <<"check", "getent">>} => ~dDropin

DInv == /\ D!TypeOK /\ D!TornDownClean /\ D!FixedResolves
        /\ DSaid /\ DCopy /\ DUndoing /\ DChecking

LEMMA DNoCopy == D!NoCopy \in (SUBSET D!Lines) \cup {D!NoCopy} /\ "poison" \notin D!NoCopy
BY DEF D!NoCopy

LEMMA DInit == D!Init => DInv
<1> SUFFICES ASSUME D!Init PROVE DInv
  OBVIOUS
<1>1. D!TypeOK
  <2>1. dHosts \subseteq D!Lines
    BY DEF D!Init, D!Lines
  <2>2. /\ dDropin = FALSE /\ dLoaded = FALSE /\ dFailed = FALSE
        /\ dVerdict = "none" /\ dTornDown = FALSE
    BY DEF D!Init
  <2>3. dPristine = D!NoCopy
    BY DEF D!Init
  <2> QED BY <2>1, <2>2, <2>3, DNoCopy DEF D!TypeOK
<1>2. DCopy
  BY DEF D!Init, D!NoCopy, D!Prompt, DCopy
<1>3. D!TornDownClean /\ D!FixedResolves /\ DSaid /\ DUndoing /\ DChecking
  BY DEF D!Init, D!TornDownClean, D!FixedResolves, D!Prompt, DSaid, DUndoing, DChecking
<1> QED BY <1>1, <1>2, <1>3 DEF DInv

\* The player edits at the prompt.
LEMMA DPlayer == ASSUME DInv, D!Player PROVE DInv'
<1>0. D!TypeOK /\ D!TornDownClean /\ DSaid /\ DCopy
  BY DEF DInv
<1>1. /\ dShell = D!Prompt /\ dVerdict' = "none"
      /\ UNCHANGED <<dShell, dFailed, dTornDown>>
  BY DEF D!Player
<1>2. dHosts' \subseteq D!Lines /\ ("poison" \notin dHosts => "poison" \notin dHosts')
  BY <1>0 DEF D!Player, D!EditHosts, D!RemoveDropin, D!RemoveCopy, D!RestartResolved, D!TypeOK,
              D!Lines
<1>3. /\ dPristine' \in (SUBSET D!Lines) \cup {D!NoCopy} /\ "poison" \notin dPristine'
      /\ dPristine = D!NoCopy => dPristine' = D!NoCopy
  <2>1. dPristine' = dPristine \/ dPristine' = D!NoCopy
    BY DEF D!Player, D!EditHosts, D!RemoveDropin, D!RemoveCopy, D!RestartResolved
  <2> QED BY <1>0, <2>1, DNoCopy DEF D!TypeOK, DCopy
<1>4. dDropin' \in BOOLEAN /\ (~dDropin => ~dDropin')
  <2>1. dDropin' = dDropin \/ dDropin' = FALSE
    BY DEF D!Player, D!EditHosts, D!RemoveDropin, D!RemoveCopy, D!RestartResolved
  <2>2. CASE dDropin' = dDropin
    BY <1>0, <2>2 DEF D!TypeOK
  <2>3. CASE dDropin' = FALSE
    BY <2>3
  <2> QED BY <2>1, <2>2, <2>3
<1>5. dLoaded' \in BOOLEAN /\ (~dLoaded /\ ~dDropin => ~dLoaded')
  BY <1>0 DEF D!Player, D!EditHosts, D!RemoveDropin, D!RemoveCopy, D!RestartResolved, D!TypeOK
<1>6. D!TypeOK'
  BY <1>0, <1>1, <1>2, <1>3, <1>4, <1>5 DEF D!TypeOK
<1>7. D!TornDownClean'
  BY <1>0, <1>1, <1>2, <1>3, <1>4, <1>5 DEF D!TornDownClean
<1>8. DSaid' /\ DCopy' /\ DUndoing' /\ DChecking' /\ D!FixedResolves'
  BY <1>0, <1>1, <1>3 DEF D!Prompt, DSaid, DCopy, DUndoing, DChecking, D!FixedResolves
<1> QED BY <1>6, <1>7, <1>8 DEF DInv

\* A reboot may come anywhere; it leaves every file, and a script is gone.
LEMMA DReboot == ASSUME DInv, D!Reboot PROVE DInv'
<1>1. /\ dLoaded' = dDropin /\ dShell' = D!Prompt
      /\ UNCHANGED <<dHosts, dDropin, dPristine, dFailed, dVerdict, dTornDown>>
  BY DEF D!Reboot, D!RestartResolved
<1>2. D!TypeOK'
  BY <1>1 DEF DInv, D!TypeOK
<1>3. D!TornDownClean' /\ D!FixedResolves'
  BY <1>1 DEF DInv, D!TornDownClean, D!FixedResolves
<1>4. DSaid' /\ DCopy' /\ DUndoing' /\ DChecking'
  BY <1>1 DEF DInv, D!Prompt, DSaid, DCopy, DUndoing, DChecking
<1> QED BY <1>2, <1>3, <1>4 DEF DInv

\* From its first command on setup.sh answers for no verdict, and no test of check.sh
\* nor anything teardown.sh has undone is remembered.
LEMMA DSetupKeeps ==
  ASSUME D!TypeOK', "poison" \notin dPristine', dTornDown' = FALSE, dVerdict' = "none",
         NEW a, dShell' = <<"setup", a>> \/ dShell' = D!Prompt,
         a \in {"rm", "rm_dir", "cp"} => "poison" \notin dHosts'
  PROVE  DInv'
<1>1. D!TornDownClean' /\ D!FixedResolves' /\ DSaid'
  BY DEF D!TornDownClean, D!FixedResolves, DSaid
<1>2. DCopy' /\ DUndoing' /\ DChecking'
  BY DEF D!Prompt, DCopy, DUndoing, DChecking
<1> QED BY <1>1, <1>2 DEF DInv

LEMMA DSetup ==
  ASSUME DInv, D!SetupBegin \/ D!Setup
  PROVE  DInv'
<1>0. D!TypeOK /\ DSaid /\ DCopy /\ "poison" \notin dPristine
  BY DEF DInv, DCopy
<1>1. CASE D!SetupBegin
  <2>1. /\ dShell' = <<"setup", "sed">> /\ dVerdict' = "none" /\ dTornDown' = FALSE
        /\ UNCHANGED <<dHosts, dDropin, dLoaded, dPristine, dFailed>>
    BY <1>1 DEF D!SetupBegin, D!Begin, D!machine
  <2>2. D!TypeOK'
    BY <1>0, <2>1 DEF D!TypeOK
  <2> QED BY <1>0, <2>1, <2>2, DSetupKeeps
<1>2. ASSUME D!Setup
      PROVE  /\ UNCHANGED <<dFailed, dVerdict, dTornDown>>
             /\ dVerdict = "none" /\ dTornDown = FALSE
  <2>1. /\ UNCHANGED <<dFailed, dVerdict, dTornDown>>
        /\ \E a \in {"sed", "rm", "rm_dir", "cp", "echo", "dropin", "restart"} :
             dShell = <<"setup", a>>
    BY <1>2 DEF D!Setup, D!SetupSed, D!SetupRemove, D!SetupCopy, D!SetupPoison, D!SetupRestart,
       D!Line, D!End, D!Quiet
  <2> QED BY <1>0, <2>1 DEF D!TypeOK, DSaid, D!Prompt
<1>3. CASE D!SetupSed
  <2>1. /\ dShell' = <<"setup", "rm">> /\ dHosts' = dHosts \ {"poison"}
        /\ UNCHANGED <<dDropin, dLoaded, dPristine>>
    BY <1>3 DEF D!SetupSed, D!Line, D!Unmarked
  <2>2. D!TypeOK'
    BY <1>0, <1>2, <1>3, <2>1 DEF D!Setup, D!TypeOK
  <2> QED BY <1>0, <1>2, <1>3, <2>1, <2>2, DSetupKeeps DEF D!Setup
<1>4. CASE D!SetupRemove
  <2>1. PICK a \in {"rm_dir", "cp"} :
          /\ dShell \in {<<"setup", "rm">>, <<"setup", "rm_dir">>} /\ dShell' = <<"setup", a>>
          /\ dDropin' \in {FALSE, dDropin} /\ dPristine' \in {D!NoCopy, dPristine}
          /\ UNCHANGED <<dHosts, dLoaded>>
    BY <1>4 DEF D!SetupRemove, D!Line
  <2>2. D!TypeOK' /\ "poison" \notin dPristine'
    <3>1. dDropin' \in BOOLEAN
      BY <1>0, <2>1 DEF D!TypeOK
    <3>2. dPristine' \in (SUBSET D!Lines) \cup {D!NoCopy} /\ "poison" \notin dPristine'
      BY <1>0, <2>1, DNoCopy DEF D!TypeOK
    <3> QED BY <1>0, <1>2, <1>4, <2>1, <3>1, <3>2 DEF D!Setup, D!TypeOK
  <2>3. "poison" \notin dHosts'
    BY <1>0, <2>1 DEF DCopy
  <2> QED BY <1>2, <1>4, <2>1, <2>2, <2>3, DSetupKeeps DEF D!Setup
<1>5. CASE D!SetupCopy
  <2>1. /\ dShell = <<"setup", "cp">> /\ dShell' = <<"setup", "echo">> /\ dPristine' = dHosts
        /\ UNCHANGED <<dHosts, dDropin, dLoaded>>
    BY <1>5 DEF D!SetupCopy, D!Line
  <2>2. "poison" \notin dHosts
    BY <1>0, <2>1 DEF DCopy
  <2>3. D!TypeOK'
    BY <1>0, <1>2, <1>5, <2>1 DEF D!Setup, D!TypeOK
  <2> QED BY <1>2, <1>5, <2>1, <2>2, <2>3, DSetupKeeps DEF D!Setup
<1>6. CASE D!SetupPoison
  <2>1. PICK a \in {"dropin", "restart"} :
          /\ dShell' = <<"setup", a>>
          /\ dHosts' \in {dHosts, dHosts \cup {"poison"}} /\ dDropin' \in {TRUE, dDropin}
          /\ UNCHANGED <<dLoaded, dPristine>>
    BY <1>6 DEF D!SetupPoison, D!Line
  <2>2. D!TypeOK'
    BY <1>0, <1>2, <1>6, <2>1 DEF D!Setup, D!TypeOK, D!Lines
  <2> QED BY <1>0, <1>2, <1>6, <2>1, <2>2, DSetupKeeps DEF D!Setup
<1>7. CASE D!SetupRestart
  <2>1. /\ dShell' = D!Prompt /\ dLoaded' = dDropin /\ UNCHANGED <<dHosts, dDropin, dPristine>>
    BY <1>7 DEF D!SetupRestart, D!End, D!RestartResolved
  <2>2. D!TypeOK'
    BY <1>0, <1>2, <1>7, <2>1 DEF D!Setup, D!TypeOK
  <2> QED BY <1>0, <1>2, <1>7, <2>1, <2>2, DSetupKeeps DEF D!Setup
<1> QED BY <1>1, <1>3, <1>4, <1>5, <1>6, <1>7 DEF D!Setup

\* teardown.sh, too, runs without a verdict.
LEMMA DTeardownKeeps ==
  ASSUME D!TypeOK', "poison" \notin dPristine', dVerdict' = "none", DUndoing', D!TornDownClean',
         NEW a, dShell' = <<"teardown", a>> \/ dShell' = D!Prompt
  PROVE  DInv'
<1>1. D!FixedResolves' /\ DSaid'
  BY DEF D!FixedResolves, DSaid, D!Prompt
<1>2. DCopy' /\ DChecking'
  BY DEF D!Prompt, DCopy, DChecking
<1> QED BY <1>1, <1>2 DEF DInv

LEMMA DTeardown ==
  ASSUME DInv, D!TeardownBegin \/ D!Teardown
  PROVE  DInv'
<1>0. /\ D!TypeOK /\ DSaid /\ DUndoing /\ D!TornDownClean /\ "poison" \notin dPristine
      /\ dFailed' = dFailed
  BY DEF DInv, DCopy, D!TeardownBegin, D!Teardown, D!TeardownHosts, D!TeardownRemove,
     D!TeardownRestart, D!TeardownEnd, D!Quiet
<1>1. CASE D!TeardownBegin
  <2>1. /\ dShell' = <<"teardown", "hosts">> /\ dVerdict' = "none"
        /\ UNCHANGED <<dHosts, dDropin, dLoaded, dPristine, dTornDown>>
    BY <1>1 DEF D!TeardownBegin, D!Begin, D!machine
  <2>2. D!TypeOK'
    BY <1>0, <2>1 DEF D!TypeOK
  <2>3. D!TornDownClean' /\ DUndoing'
    BY <1>0, <2>1 DEF D!TornDownClean, DUndoing
  <2> QED BY <1>0, <2>1, <2>2, <2>3, DTeardownKeeps
<1>2. ASSUME D!Teardown PROVE dVerdict = "none" /\ dVerdict' = "none"
  <2>1. /\ dVerdict' = dVerdict
        /\ \E a \in {"hosts", "rm", "restart", "rm_dir"} : dShell = <<"teardown", a>>
    BY <1>2 DEF D!Teardown, D!TeardownHosts, D!TeardownRemove, D!TeardownRestart,
       D!TeardownEnd, D!Line, D!End, D!Quiet
  <2> QED BY <1>0, <2>1 DEF DSaid, D!Prompt
<1>3. CASE D!TeardownHosts
  <2>1. /\ dShell' = <<"teardown", "rm">>
        /\ dHosts' = IF dPristine # D!NoCopy THEN dPristine ELSE dHosts \ {"poison"}
        /\ UNCHANGED <<dDropin, dLoaded, dPristine, dTornDown>>
    BY <1>3 DEF D!TeardownHosts, D!Line, D!Unmarked, D!Quiet
  <2>2. "poison" \notin dHosts' /\ dHosts' \subseteq D!Lines
    <3>1. CASE dPristine = D!NoCopy
      BY <1>0, <2>1, <3>1 DEF D!TypeOK
    <3>2. CASE dPristine # D!NoCopy
      <4>1. dPristine \in SUBSET D!Lines
        BY <1>0, <3>2 DEF D!TypeOK
      <4> QED BY <1>0, <2>1, <3>2, <4>1
    <3> QED BY <3>1, <3>2
  <2>3. D!TypeOK'
    BY <1>0, <1>2, <1>3, <2>1, <2>2 DEF D!Teardown, D!TypeOK
  <2>4. D!TornDownClean' /\ DUndoing'
    BY <1>0, <2>1, <2>2 DEF D!TornDownClean, DUndoing
  <2> QED BY <1>0, <1>2, <1>3, <2>1, <2>3, <2>4, DTeardownKeeps DEF D!Teardown
<1>4. CASE D!TeardownRemove
  <2>1. /\ dShell = <<"teardown", "rm">> /\ dShell' = <<"teardown", "restart">> /\ dDropin' = FALSE
        /\ UNCHANGED <<dHosts, dLoaded, dPristine, dTornDown>>
    BY <1>4 DEF D!TeardownRemove, D!Line, D!Quiet
  <2>2. D!TypeOK'
    BY <1>0, <1>2, <1>4, <2>1 DEF D!Teardown, D!TypeOK
  <2>3. D!TornDownClean' /\ DUndoing'
    BY <1>0, <2>1 DEF D!TornDownClean, DUndoing
  <2> QED BY <1>0, <1>2, <1>4, <2>1, <2>2, <2>3, DTeardownKeeps DEF D!Teardown
<1>5. CASE D!TeardownRestart
  <2>1. /\ dShell = <<"teardown", "restart">> /\ dShell' = <<"teardown", "rm_dir">>
        /\ dLoaded' = dDropin
        /\ UNCHANGED <<dHosts, dDropin, dPristine, dTornDown>>
    BY <1>5 DEF D!TeardownRestart, D!Line, D!RestartResolved, D!Quiet
  <2>2. D!TypeOK'
    BY <1>0, <1>2, <1>5, <2>1 DEF D!Teardown, D!TypeOK
  <2>3. D!TornDownClean' /\ DUndoing'
    BY <1>0, <2>1 DEF D!TornDownClean, DUndoing
  <2> QED BY <1>0, <1>2, <1>5, <2>1, <2>2, <2>3, DTeardownKeeps DEF D!Teardown
<1>6. CASE D!TeardownEnd
  <2>1. /\ dShell = <<"teardown", "rm_dir">> /\ dShell' = D!Prompt
        /\ dPristine' = D!NoCopy /\ dTornDown' = TRUE
        /\ UNCHANGED <<dHosts, dDropin, dLoaded>>
    BY <1>6 DEF D!TeardownEnd, D!End
  <2>2. D!TypeOK' /\ "poison" \notin dPristine'
    BY <1>0, <1>2, <1>6, <2>1, DNoCopy DEF D!Teardown, D!TypeOK
  <2>3. D!TornDownClean' /\ DUndoing'
    BY <1>0, <2>1 DEF D!TornDownClean, DUndoing, D!Prompt
  <2> QED BY <1>2, <1>6, <2>1, <2>2, <2>3, DTeardownKeeps DEF D!Teardown
<1> QED BY <1>1, <1>3, <1>4, <1>5, <1>6 DEF D!Teardown

\* The last test stands for the third too, and for a network that may be down.
LEMMA DCheck ==
  ASSUME DInv, D!CheckBegin \/ D!Check
  PROVE  DInv'
<1>0. /\ D!TypeOK /\ D!TornDownClean /\ DSaid /\ DCopy /\ DChecking
      /\ UNCHANGED <<dHosts, dDropin, dLoaded, dPristine, dTornDown>>
  BY DEF DInv, D!CheckBegin, D!Begin, D!Check, D!machine
<1>1. ASSUME NEW a, dShell' = <<"check", a>> \/ dShell' = D!Prompt,
             dFailed' \in BOOLEAN, dVerdict' \in {"none", "not_fixed", "fixed"},
             dVerdict' # "none" => dShell' = D!Prompt
      PROVE  D!TypeOK' /\ D!TornDownClean' /\ DSaid' /\ DCopy' /\ DUndoing'
  <2>1. D!TypeOK'
    BY <1>0, <1>1 DEF D!TypeOK
  <2>2. D!TornDownClean' /\ DSaid'
    BY <1>0, <1>1 DEF D!TornDownClean, DSaid, D!Prompt
  <2>3. DCopy' /\ DUndoing'
    BY <1>0, <1>1 DEF DCopy, DUndoing, D!Prompt
  <2> QED BY <2>1, <2>2, <2>3
<1>2. CASE D!CheckBegin
  <2>1. dShell' = <<"check", "hosts">> /\ dFailed' = FALSE /\ dVerdict' = "none"
    BY <1>2 DEF D!CheckBegin, D!Begin
  <2> QED BY <1>1, <2>1 DEF DInv, DChecking, D!FixedResolves
<1>3. ASSUME NEW a, NEW b, dShell = <<"check", a>>, dShell' = <<"check", b>>,
             dFailed' \in BOOLEAN, dVerdict' = dVerdict
      PROVE  D!TypeOK' /\ D!TornDownClean' /\ DSaid' /\ DCopy' /\ DUndoing' /\ D!FixedResolves'
  <2>1. dVerdict' = "none"
    BY <1>0, <1>3 DEF DSaid, D!Prompt
  <2> QED BY <1>1, <1>3, <2>1 DEF D!FixedResolves
<1>4. CASE D!Test("hosts", "dropin", "poison" \in dHosts)
  <2>1. /\ dShell = <<"check", "hosts">> /\ dShell' = <<"check", "dropin">>
        /\ dFailed' \in BOOLEAN /\ dVerdict' = dVerdict
        /\ ~dFailed' => "poison" \notin dHosts
    BY <1>4 DEF D!Test, D!Line
  <2> QED BY <1>0, <1>3, <2>1 DEF DInv, DChecking
<1>5. CASE D!Test("dropin", "status", dDropin)
  <2>1. /\ dShell = <<"check", "dropin">> /\ dShell' = <<"check", "status">>
        /\ dFailed' \in BOOLEAN /\ dVerdict' = dVerdict
        /\ ~dFailed' => ~dFailed /\ ~dDropin
    BY <1>0, <1>5 DEF D!Test, D!Line, D!TypeOK
  <2> QED BY <1>0, <1>3, <2>1 DEF DInv, DChecking
<1>6. CASE D!Test("status", "getent", dLoaded)
  <2>1. /\ dShell = <<"check", "status">> /\ dShell' = <<"check", "getent">>
        /\ dFailed' \in BOOLEAN /\ dVerdict' = dVerdict
        /\ ~dFailed' => ~dFailed
    BY <1>0, <1>6 DEF D!Test, D!Line, D!TypeOK
  <2> QED BY <1>0, <1>3, <2>1 DEF DInv, DChecking
<1>7. CASE D!Resolve
  <2>1. PICK up \in BOOLEAN : dFailed' = (dFailed \/ "poison" \in dHosts \/ dLoaded \/ ~up)
    BY <1>7 DEF D!Resolve
  <2>2. /\ dFailed' \in BOOLEAN
        /\ ~dFailed' => ~dFailed /\ "poison" \notin dHosts /\ ~dLoaded
    BY <1>0, <2>1 DEF D!TypeOK
  <2>3. /\ dShell = <<"check", "getent">> /\ dShell' = D!Prompt
        /\ dVerdict' = IF dFailed' THEN "not_fixed" ELSE "fixed"
    BY <1>7 DEF D!Resolve, D!End
  <2>4. D!FixedResolves'
    BY <1>0, <2>2, <2>3 DEF D!FixedResolves, DChecking
  <2>5. DChecking'
    BY <2>3 DEF DChecking, D!Prompt
  <2>6. D!TypeOK' /\ D!TornDownClean' /\ DSaid' /\ DCopy' /\ DUndoing'
    BY <1>1, <2>2, <2>3
  <2> QED BY <2>4, <2>5, <2>6 DEF DInv
<1> QED BY <1>2, <1>4, <1>5, <1>6, <1>7 DEF D!Check

LEMMA DStep == ASSUME DInv, [D!Next]_dnsVars PROVE DInv'
<1>1. CASE UNCHANGED dnsVars
  BY <1>1 DEF dnsVars, DInv, D!TypeOK, D!TornDownClean, D!FixedResolves, DSaid, DCopy, DUndoing,
     DChecking
<1>2. CASE D!Next
  BY <1>2, DPlayer, DReboot, DSetup, DTeardown, DCheck DEF D!Next
<1> QED BY <1>1, <1>2

-----------------------------------------------------------------------------
(* The four labs *)

LabInv == IInv /\ Prepared /\ PInv /\ CInv /\ DInv

LEMMA LabInitInv == LabInit => LabInv
BY InitIInv, PInit, CInit, DInit DEF LabInit, LabInv, Init, Prepared

LEMMA LabStep ==
  ASSUME LabInv, [LabNext]_labVars
  PROVE  /\ LabInv'
         /\ [Next]_vars /\ [P!Next]_portVars /\ [C!Next]_certVars /\ [D!Next]_dnsVars
<1>1. [Next]_vars /\ [P!Next]_portVars /\ [C!Next]_certVars /\ [D!Next]_dnsVars
  BY DEF LabNext, InRunaway, InPort, InCert, InDns, labVars
<1> QED BY <1>1, StepIInv, PreparedStep, PStep, CStep, DStep DEF LabInv

\* What each command has established, in all four labs at once.
THEOREM LabInvariance == LabSpec => []LabInv
<1>1. LabInit => LabInv
  BY LabInitInv
<1>2. LabInv /\ [LabNext]_labVars => LabInv'
  BY LabStep
<1> QED BY <1>1, <1>2, PTL DEF LabSpec

\* The types of the four labs; no symlink dangles, the port belongs to the unit that
\* runs, a server that runs has loaded a pair, and there are at most two hogs.
THEOREM LabTypes == LabSpec => []LabTypeOK
<1>1. LabInv => LabTypeOK
  BY DEF LabInv, IInv, PInv, CInv, DInv, LabTypeOK
<1> QED BY <1>1, LabInvariance, PTL

\* 03/check.sh:37: the squatter is gone for good, through restarts and reboots, until the
\* player acts.
THEOREM SquatterGone == LabSpec => []GoneForGood
<1>1. LabInv => GoneForGood
  BY DEF LabInv, PInv, PFixed, P!TypeOK, P!Unit, GoneForGood, P!GoneForGood
<1> QED BY <1>1, LabInvariance, PTL

\* 06/check.sh:49: what `it stayed dead' says stays true until setup.sh is run again,
\* for any number of samples, even one.
THEOREM VerdictStays == LabSpec => []FixedStays
<1>1. LabInv => FixedStays
  BY DEF LabInv, IInv
<1> QED BY <1>1, LabInvariance, PTL

\* What FIXED says in labs 04 and 08 is so: in 04 through reboots, in 08
\* until the next one.
THEOREM AnswersRight == LabSpec => []FixedAnswers
<1>1. LabInv => FixedAnswers
  BY DEF LabInv, CInv, DInv, FixedAnswers
<1> QED BY <1>1, LabInvariance, PTL

\* The teardown.sh of labs 03, 04 and 08 reverses any state, also one that a script cut
\* short or a half-finished repair has left.
THEOREM Reversed == LabSpec => []TornDownClean
<1>1. LabInv => TornDownClean
  BY DEF LabInv, PInv, CInv, DInv, TornDownClean
<1> QED BY <1>1, LabInvariance, PTL

\* 06/setup.sh:51: when setup.sh ends the source is there, and a hog or the child that is
\* about to be one, except where its spawner's pgrep matched a command of cron's run.
THEOREM BrokenWhenArmed == LabSpec => ArmedIsBroken
<1>1. LabInv /\ [LabNext]_labVars =>
        [SetupEnd => /\ cronFile /\ payload
                     /\ hogs > 0 \/ (spawner["setup"] = "child" /\ tmp) \/ mistaken]_vars
  BY DEF LabInv, Prepared, SetupEnd, Line
<1> QED BY <1>1, LabInvariance, PTL DEF LabSpec, ArmedIsBroken

\* 03/setup.sh ends with the squatter on the port and the API in its restart loop.
THEOREM PortTaken == LabSpec => Armed
<1>1. LabInv /\ [LabNext]_labVars =>
        [P!SetupEnd => /\ pPort = "squatter" /\ pEnabled["squatter"]
                       /\ pState["api"] \in {"starting", "restarting"}]_(P!vars)
  BY DEF LabInv, PInv, PArming, P!SetupEnd, P!End
<1> QED BY <1>1, LabInvariance, PTL DEF LabSpec, Armed, P!Armed

\* 08/setup.sh breaks the service again whatever an earlier game came to.
THEOREM ServiceRearmed == LabSpec => Rearmed
<1>1. LabInv /\ [LabNext]_labVars =>
        [C!SetupEnable => cPair' = "expired" /\ cServed' # "valid" /\ C!Active(cState')]_(C!vars)
  BY DEF LabInv, CInv, CArming, C!TypeOK, C!SetupEnable, C!End, C!Start, C!Started, C!Active
<1> QED BY <1>1, LabInvariance, PTL DEF LabSpec, Rearmed, C!Rearmed
=============================================================================
