---------------------------- MODULE PortConflict ----------------------------
(***************************************************************************)
(* ProperInterview/linux/breakfix/03-port-conflict: two units that both    *)
(* want port 8080, systemd that restarts what fails, the three scripts,    *)
(* the player's systemctl commands and reboots.                            *)
(*                                                                         *)
(* bind() is modelled as the unit files and the scripts use it.  The API's *)
(* RestartSec=3 never reaches the start limit, the squatter's default of   *)
(* 100ms may.  A service that has bound its port does not crash.  One      *)
(* script runs at a time; the player types no command while one runs.      *)
(*                                                                         *)
(* A definition named Bug... is a plausible slip, no part of Spec.         *)
(***************************************************************************)
EXTENDS Systemd

Unit == {"api", "squatter"}

VARIABLES
  exists,   \* the unit's files are in place
  enabled,  \* its symlink in multi-user.target.wants
  state,    \* systemd's view, with `starting' for active but not yet bound
  port,     \* who listens on 8080
  shell,    \* the script in progress and the command it is at
  failed,   \* check.sh's `fail'
  verdict,  \* of the last check.sh, while nobody has changed anything since
  tornDown  \* teardown.sh has ended and setup.sh has not begun since

machine == <<exists, enabled, state, port>>
vars == <<machine, shell, failed, verdict, tornDown>>

Prompt == <<"none", "prompt">>

Init == /\ exists = [u \in Unit |-> FALSE]
        /\ enabled = [u \in Unit |-> FALSE]
        /\ state = [u \in Unit |-> "inactive"]
        /\ port = "free"
        /\ shell = Prompt /\ failed = FALSE /\ verdict = "none" /\ tornDown = FALSE

-----------------------------------------------------------------------------
(* systemd and the two programs *)

Bind(u) == /\ state[u] = "starting"
           /\ port = "free"
           /\ port' = u
           /\ state' = [state EXCEPT ![u] = "running"]

\* A bug: Restart=no.
BugCrash(u) == /\ state[u] = "starting"
               /\ port # "free"
               /\ state' = [state EXCEPT ![u] = "failed"]
               /\ UNCHANGED port

\* EADDRINUSE ends the process with an error.
Crash(u) == /\ state[u] = "starting"
            /\ port # "free"
            /\ \E s \in AfterFailure(u = "squatter") : state' = [state EXCEPT ![u] = s]
            /\ UNCHANGED port

Restart(u) == /\ state[u] = "restarting"
              /\ state' = [state EXCEPT ![u] = "starting"]
              /\ UNCHANGED port

Service(u) == /\ Bind(u) \/ Crash(u) \/ Restart(u)
              /\ UNCHANGED <<exists, enabled, shell, failed, verdict, tornDown>>

Start(u) == state' = [state EXCEPT ![u] = Started(@)] /\ UNCHANGED port

\* It also ends a restart loop.
Stop(u) == /\ state' = [state EXCEPT ![u] = "inactive"]
           /\ port' = IF port = u THEN "free" ELSE port

-----------------------------------------------------------------------------
(* The player *)

Player == /\ shell = Prompt
          /\ \E u \in Unit :
               /\ exists[u]
               /\ \/ (Start(u) \/ Stop(u)) /\ UNCHANGED enabled
                  \/ /\ \E e \in BOOLEAN : enabled' = [enabled EXCEPT ![u] = e]
                     /\ UNCHANGED <<state, port>>
          /\ verdict' = "none"
          /\ UNCHANGED <<exists, shell, failed, tornDown>>

\* Every process is gone; the enabled units are started.
Reboot == /\ shell = Prompt
          /\ port' = "free"
          /\ state' = [u \in Unit |->
                         IF exists[u] /\ enabled[u] THEN "starting" ELSE "inactive"]
          /\ UNCHANGED <<exists, enabled, shell, failed, verdict, tornDown>>

-----------------------------------------------------------------------------
(* The scripts.  Line(p, a, b): script p goes from its command a to b. *)

Line(p, a, b) == shell = <<p, a>> /\ shell' = <<p, b>>
Begin(p, a)   == shell = Prompt /\ shell' = <<p, a>> /\ UNCHANGED <<machine, failed>>
End(p, a)     == shell = <<p, a>> /\ shell' = Prompt
Quiet         == UNCHANGED <<failed, verdict, tornDown>>

StopUnit(p, a, b, u) == Line(p, a, b) /\ Stop(u) /\ UNCHANGED <<exists, enabled>>

\* A bug: rm without disable.
BugRemoveUnit(p, a, b, u) == /\ Line(p, a, b)
                             /\ exists' = [exists EXCEPT ![u] = FALSE]
                             /\ UNCHANGED <<enabled, state, port>>

\* disable, rm and daemon-reload of a unit that is stopped.
RemoveUnit(p, a, b, u) == /\ Line(p, a, b)
                          /\ enabled' = [enabled EXCEPT ![u] = FALSE]
                          /\ exists' = [exists EXCEPT ![u] = FALSE]
                          /\ UNCHANGED <<state, port>>

\* A bug: the loop names one unit only.
BugClear(p) == /\ \/ StopUnit(p, "stop_api", "rm_api", "api")
                  \/ RemoveUnit(p, "rm_api", "cleared", "api")
               /\ Quiet

\* The loop over the two units, the same in setup.sh and teardown.sh.
Clear(p) == /\ \/ StopUnit(p, "stop_api", "rm_api", "api")
               \/ RemoveUnit(p, "rm_api", "stop_squatter", "api")
               \/ StopUnit(p, "stop_squatter", "rm_squatter", "squatter")
               \/ RemoveUnit(p, "rm_squatter", "cleared", "squatter")
            /\ Quiet

SetupBegin == Begin("setup", "stop_api") /\ verdict' = "none" /\ tornDown' = FALSE

SetupInstall == /\ Line("setup", "cleared", "squat")
                /\ exists' = [u \in Unit |-> TRUE]
                /\ UNCHANGED <<enabled, state, port>> /\ Quiet

SetupSquat == /\ Line("setup", "squat", "sleep")
              /\ enabled' = [enabled EXCEPT !["squatter"] = TRUE]
              /\ Start("squatter")
              /\ UNCHANGED exists /\ Quiet

\* A bug: no sleep.
BugSleep == Line("setup", "sleep", "api") /\ UNCHANGED machine /\ Quiet

\* sleep 2: long enough for a started program to bind or to die.
SetupSleep == /\ Line("setup", "sleep", "api")
              /\ state["squatter"] # "starting"
              /\ UNCHANGED machine /\ Quiet

\* enable, then start.
SetupApi == /\ Line("setup", "api", "end")
            /\ enabled' = [enabled EXCEPT !["api"] = TRUE]
            /\ Start("api")
            /\ UNCHANGED exists /\ Quiet

SetupEnd == End("setup", "end") /\ UNCHANGED machine /\ Quiet

Setup == SetupInstall \/ SetupSquat \/ SetupSleep \/ SetupApi \/ SetupEnd

TeardownBegin == Begin("teardown", "stop_api") /\ verdict' = "none" /\ UNCHANGED tornDown

TeardownEnd == /\ End("teardown", "cleared")
               /\ tornDown' = TRUE
               /\ UNCHANGED <<machine, failed, verdict>>

CheckBegin == /\ shell = Prompt /\ shell' = <<"check", "api_active">>
              /\ failed' = FALSE
              /\ verdict' = "none"
              /\ UNCHANGED <<machine, tornDown>>

\* One test of check.sh: it prints FAIL and goes on.
Test(a, b, bad) == /\ Line("check", a, b)
                   /\ failed' = (failed \/ bad)
                   /\ UNCHANGED verdict

Conclude(a, bad) == /\ End("check", a)
                    /\ failed' = (failed \/ bad)
                    /\ verdict' = IF failed' THEN "not_fixed" ELSE "fixed"

\* A bug: nobody asks whether the squatter is enabled.
BugCheck == /\ \/ Test("api_active", "curl", ~Active(state["api"]))
               \/ Test("curl", "squatter_active", port # "api")
               \/ Conclude("squatter_active", Active(state["squatter"]))
            /\ UNCHANGED <<machine, tornDown>>

Check == /\ \/ Test("api_active", "curl", ~Active(state["api"]))
            \/ Test("curl", "squatter_active", port # "api")
            \/ Test("squatter_active", "squatter_enabled", Active(state["squatter"]))
            \/ Conclude("squatter_enabled", enabled["squatter"])
         /\ UNCHANGED <<machine, tornDown>>

Script == Clear("setup") \/ Clear("teardown") \/ Setup \/ TeardownEnd \/ Check

Next == \/ \E u \in Unit : Service(u)
        \/ Player \/ Reboot
        \/ SetupBegin \/ TeardownBegin \/ CheckBegin
        \/ Script

\* systemd and the programs it starts run, and a script once begun goes on.
Fairness == (\A u \in Unit : WF_vars(Service(u))) /\ WF_vars(Script)

Spec == Init /\ [][Next]_vars /\ Fairness

-----------------------------------------------------------------------------
\* Types; no symlink dangles; the port belongs to exactly the unit that runs.
TypeOK == /\ exists \in [Unit -> BOOLEAN]
          /\ enabled \in [Unit -> BOOLEAN]
          /\ \A u \in Unit : enabled[u] => exists[u]
          /\ state \in [Unit -> UnitState]
          /\ port \in Unit \cup {"free"}
          /\ \A u \in Unit : port = u <=> state[u] = "running"
          /\ failed \in BOOLEAN
          /\ verdict \in {"none", "not_fixed", "fixed"}
          /\ tornDown \in BOOLEAN

\* setup.sh ends with the symptom of the ticket there, or about to be: the
\* squatter owns the port and nothing but the player will take it away.  An API
\* started a moment too early would win the port and arm nothing.
Armed == [][SetupEnd => port = "squatter" /\ enabled["squatter"]
                        /\ state["api"] \in {"starting", "restarting"}]_vars

\* "dataflux-api owns :8080 and the squatter is gone for good" (check.sh:37):
\* whatever systemd and reboots do after the verdict, as long as the player does
\* nothing the squatter never has the port again.
GoneForGood == verdict = "fixed" => port # "squatter"

\* "fully reverses setup, any state" (teardown.sh:2): no unit, nobody on the
\* port, nothing that a timer of systemd will start again.
TornDownClean == tornDown => /\ port = "free"
                             /\ \A u \in Unit : ~exists[u] /\ ~enabled[u]
                                                /\ state[u] = "inactive"

\* Hint 3 of the README, `stop it AND disable it': an API that was started, however
\* often it has crashed since, finds the port by itself once it is free.
ApiRecovers ==
  (state["api"] # "inactive" /\ state["squatter"] = "inactive")
    ~> (port = "api" \/ state["api"] = "inactive" \/ state["squatter"] # "inactive")
=============================================================================
