---------------------------- MODULE CertExpired ----------------------------
(***************************************************************************)
(* ProperInterview/linux/breakfix/08-cert-expired: an HTTPS server that    *)
(* loads key.pem and cert.pem once, when it starts, the three scripts, and *)
(* a player who renews the files and restarts the service, in any order.   *)
(*                                                                         *)
(* The two files are one value: `expired' and `valid' are matching pairs,  *)
(* `torn' is a new key beside the expired certificate, which is where      *)
(* openssl req is between its two writes.  A certificate with less than    *)
(* 24 hours left counts as expired, as check.sh counts it.                 *)
(*                                                                         *)
(* A definition named Bug... is a plausible slip, no part of Spec.         *)
(***************************************************************************)
EXTENDS Systemd

VARIABLES
  unit,     \* bf-tlsapp.service is in place
  enabled,
  state,    \* systemd's view of it
  pair,     \* what $LAB holds: "none", "expired", "torn" or "valid"
  served,   \* the pair in the memory of the running server
  shell, failed, verdict, tornDown   \* as in PortConflict

machine == <<unit, enabled, state, pair, served>>
vars == <<machine, shell, failed, verdict, tornDown>>

Prompt == <<"none", "prompt">>

Init == /\ unit = FALSE /\ enabled = FALSE /\ state = "inactive"
        /\ pair = "none" /\ served = "none"
        /\ shell = Prompt /\ failed = FALSE /\ verdict = "none" /\ tornDown = FALSE

-----------------------------------------------------------------------------
(* systemd and serve.py *)

\* load_cert_chain, then serve_forever.
Load == /\ state = "starting"
        /\ pair \in {"expired", "valid"}
        /\ state' = "running" /\ served' = pair

\* No such file, or KEY_VALUES_MISMATCH.
Crash == /\ state = "starting"
         /\ pair \in {"none", "torn"}
         /\ state' \in AfterFailure(TRUE) /\ UNCHANGED served

\* A bug: Restart=no.
BugRestart == /\ state = "restarting"
              /\ state' = "failed" /\ UNCHANGED served

Restart == /\ state = "restarting"
           /\ state' = "starting" /\ UNCHANGED served

Service == /\ Load \/ Crash \/ Restart
           /\ UNCHANGED <<unit, enabled, pair, shell, failed, verdict, tornDown>>

Stop  == state' = "inactive" /\ served' = "none"
Start == state' = Started(state) /\ UNCHANGED served

-----------------------------------------------------------------------------
(* The player, while no script runs *)

RenewKey    == pair # "none" /\ pair' = "torn" /\ UNCHANGED <<enabled, state, served>>
RenewCert   == pair = "torn" /\ pair' = "valid" /\ UNCHANGED <<enabled, state, served>>
RestartUnit == state' = "starting" /\ served' = "none" /\ UNCHANGED <<enabled, pair>>
StopUnit    == Stop /\ UNCHANGED <<enabled, pair>>

Player == /\ shell = Prompt /\ unit
          /\ RenewKey \/ RenewCert \/ RestartUnit \/ StopUnit
          /\ verdict' = "none"
          /\ UNCHANGED <<unit, shell, failed, tornDown>>

Reboot == /\ shell = Prompt
          /\ state' = IF unit /\ enabled THEN "starting" ELSE "inactive"
          /\ served' = "none"
          /\ verdict' = "none"
          /\ UNCHANGED <<unit, enabled, pair, shell, failed, tornDown>>

-----------------------------------------------------------------------------
(* The scripts.  Line(p, a, b): script p goes from its command a to b. *)

Line(p, a, b) == shell = <<p, a>> /\ shell' = <<p, b>>
End(p, a)     == shell = <<p, a>> /\ shell' = Prompt
Quiet         == UNCHANGED <<failed, verdict, tornDown>>

SetupBegin == /\ shell = Prompt /\ shell' = <<"setup", "stop">>
              /\ verdict' = "none" /\ tornDown' = FALSE
              /\ UNCHANGED <<machine, failed>>

\* A bug: the previous instance is not stopped, and enable --now leaves it be.
BugSetupStop == /\ Line("setup", "stop", "rm")
                /\ enabled' = FALSE
                /\ UNCHANGED <<unit, state, pair, served>> /\ Quiet

\* A bug: stop without disable.
BugSetupDisable == /\ Line("setup", "stop", "rm")
                   /\ Stop
                   /\ UNCHANGED <<unit, enabled, pair>> /\ Quiet

\* stop, disable
SetupStop == /\ Line("setup", "stop", "rm")
             /\ Stop /\ enabled' = FALSE
             /\ UNCHANGED <<unit, pair>> /\ Quiet

SetupRemove == /\ Line("setup", "rm", "openssl")
               /\ unit' = FALSE /\ pair' = "none"
               /\ UNCHANGED <<enabled, state, served>> /\ Quiet

SetupIssue == /\ Line("setup", "openssl", "unit")
              /\ pair' = "expired"
              /\ UNCHANGED <<unit, enabled, state, served>> /\ Quiet

\* set -e: an openssl x509 that takes no value after -startdate (3.0 does not)
\* ends the script here, without a word.
SetupDies == /\ End("setup", "openssl")
             /\ UNCHANGED machine /\ Quiet

SetupUnit == /\ Line("setup", "unit", "enable")
             /\ unit' = TRUE
             /\ UNCHANGED <<enabled, state, pair, served>> /\ Quiet

\* enable --now
SetupEnable == /\ End("setup", "enable")
               /\ enabled' = TRUE /\ Start
               /\ UNCHANGED <<unit, pair>> /\ Quiet

Setup == \/ SetupStop \/ SetupRemove \/ SetupIssue \/ SetupDies
         \/ SetupUnit \/ SetupEnable

TeardownBegin == /\ shell = Prompt /\ shell' = <<"teardown", "disable">>
                 /\ verdict' = "none"
                 /\ UNCHANGED <<machine, failed, tornDown>>

\* A bug: disable without --now.
BugTeardownDisable == /\ Line("teardown", "disable", "rm")
                      /\ enabled' = FALSE
                      /\ UNCHANGED <<unit, pair, state, served>> /\ Quiet

\* disable --now
TeardownDisable == /\ Line("teardown", "disable", "rm")
                   /\ Stop /\ enabled' = FALSE
                   /\ UNCHANGED <<unit, pair>> /\ Quiet

TeardownRemove == /\ End("teardown", "rm")
                  /\ unit' = FALSE /\ pair' = "none" /\ tornDown' = TRUE
                  /\ UNCHANGED <<enabled, state, served, failed, verdict>>

CheckBegin == /\ shell = Prompt /\ shell' = <<"check", "active">>
              /\ failed' = FALSE /\ verdict' = "none"
              /\ UNCHANGED <<machine, tornDown>>

\* One test of check.sh: it prints FAIL and goes on.
Test(a, b, bad) == /\ Line("check", a, b)
                   /\ failed' = (failed \/ bad)
                   /\ UNCHANGED verdict

\* curl --cacert refuses an expired certificate, but curl -k, tried next, takes
\* any: the request fails only if nobody answers.  The file is looked at again.
Conclude(bad) == /\ End("check", "curl")
                 /\ failed' = (failed \/ bad)
                 /\ verdict' = IF failed' THEN "not_fixed" ELSE "fixed"

\* A bug: is-active is believed, nobody calls the server.
BugCheck == /\ \/ Test("active", "file", ~Active(state))
               \/ Test("file", "curl", pair # "valid")
               \/ Conclude(pair # "valid")
            /\ UNCHANGED <<machine, tornDown>>

Check == /\ \/ Test("active", "file", ~Active(state))
            \/ Test("file", "curl", pair \in {"none", "expired", "torn"})
            \/ Conclude(state # "running" \/ pair # "valid")
         /\ UNCHANGED <<machine, tornDown>>

Script == Setup \/ TeardownDisable \/ TeardownRemove \/ Check

Next == \/ Service \/ Player \/ Reboot
        \/ SetupBegin \/ TeardownBegin \/ CheckBegin
        \/ Script

\* systemd and the server run, and a script once begun goes on.
Fairness == WF_vars(Service) /\ WF_vars(Script)

Spec == Init /\ [][Next]_vars /\ Fairness

-----------------------------------------------------------------------------
\* Types; no symlink dangles; a server that runs has loaded a pair, no other has.
TypeOK == /\ unit \in BOOLEAN /\ enabled \in BOOLEAN
          /\ enabled => unit
          /\ state \in UnitState
          /\ pair \in {"none", "expired", "torn", "valid"}
          /\ served \in {"none", "expired", "valid"}
          /\ served # "none" <=> state = "running"
          /\ failed \in BOOLEAN
          /\ verdict \in {"none", "not_fixed", "fixed"}
          /\ tornDown \in BOOLEAN

\* A second setup.sh breaks the service again whatever the first game came to:
\* no server started from a renewed certificate survives into the new one.
Rearmed == [][SetupEnable => pair' = "expired" /\ served' # "valid" /\ Active(state')]_vars

\* A verdict `fixed' is about now: a server answers, and the certificate on the
\* disk is good, though the service was asked for and called at different times.
FixedAnswers == verdict = "fixed" => state = "running" /\ pair = "valid"

\* teardown.sh leaves no unit, no process and nothing systemd would restart.
TornDownClean == tornDown => ~unit /\ ~enabled /\ state = "inactive" /\ pair = "none"

\* A restart that catches openssl between its two writes only delays the fix:
\* once the pair is complete systemd's next attempt serves it.
RenewalReaches ==
  (pair = "valid" /\ state \in {"starting", "restarting"})
    ~> (served = "valid" \/ pair # "valid" \/ state = "inactive")

\* check.sh:41, "FIXED - cert valid and service serving HTTPS": what is served
\* is the renewed certificate.
FixedServesValid == verdict = "fixed" => served = "valid"

\* setup.sh:21 (dates by openssl x509 on Ubuntu 24.04) and :66: setup arms.
SetupArms == [][SetupDies \/ SetupEnable => unit' /\ enabled']_vars
=============================================================================
