---------------------------- MODULE DnsSabotage ----------------------------
(***************************************************************************)
(* ProperInterview/linux/breakfix/04-dns-sabotage: a poisoned line in      *)
(* /etc/hosts and a drop-in that sends every query to a black hole, the    *)
(* three scripts, and a player who edits the files in any order.           *)
(*                                                                         *)
(* systemd-resolved reads its drop-ins when it starts.  A line of hosts is *)
(* the poisoned one, with its BREAKFIX-LAB mark, or one of the machine's   *)
(* own; nobody takes the mark off and leaves the address.  A reboot may    *)
(* cut a script short.                                                     *)
(*                                                                         *)
(* A definition named Bug... is a plausible slip, no part of Spec.         *)
(***************************************************************************)
VARIABLES
  hosts,     \* the lines of /etc/hosts
  dropin,    \* 99-dns-optimizer.conf is in place
  loaded,    \* and so it is in the resolved that runs
  pristine,  \* $LAB_DIR/hosts.pristine, or NoCopy
  shell, failed, verdict, tornDown   \* as in PortConflict

machine == <<hosts, dropin, loaded, pristine>>
vars == <<machine, shell, failed, verdict, tornDown>>

Lines  == {"own", "poison"}
NoCopy == {"no copy"}
Prompt == <<"none", "prompt">>

Init == /\ hosts \in {{}, {"own"}} /\ dropin = FALSE /\ loaded = FALSE /\ pristine = NoCopy
        /\ shell = Prompt /\ failed = FALSE /\ verdict = "none" /\ tornDown = FALSE

-----------------------------------------------------------------------------
(* The player, while no script runs, and the power switch *)

EditHosts    == /\ hosts' \in {hosts \ {"poison"}, hosts \cup {"own"}, hosts \ {"own"}}
                /\ UNCHANGED <<dropin, loaded, pristine>>
RemoveDropin == dropin' = FALSE /\ UNCHANGED <<hosts, loaded, pristine>>
RemoveCopy   == pristine' = NoCopy /\ UNCHANGED <<hosts, dropin, loaded>>

\* systemctl restart systemd-resolved
RestartResolved == loaded' = dropin /\ UNCHANGED <<hosts, dropin, pristine>>

Player == /\ shell = Prompt
          /\ EditHosts \/ RemoveDropin \/ RemoveCopy \/ RestartResolved
          /\ verdict' = "none"
          /\ UNCHANGED <<shell, failed, tornDown>>

\* A verdict outlives it: check.sh says FIXED of the machine, not of this boot.
Reboot == /\ RestartResolved
          /\ shell' = Prompt
          /\ UNCHANGED <<failed, verdict, tornDown>>

-----------------------------------------------------------------------------
(* The scripts.  Line(p, a, b): script p goes from its command a to b. *)

Line(p, a, b) == shell = <<p, a>> /\ shell' = <<p, b>>
End(p, a)     == shell = <<p, a>> /\ shell' = Prompt
Quiet         == UNCHANGED <<failed, verdict, tornDown>>

Begin(p, first) == /\ shell = Prompt /\ shell' = <<p, first>>
                   /\ verdict' = "none"
                   /\ UNCHANGED machine

SetupBegin == Begin("setup", "sed") /\ tornDown' = FALSE /\ UNCHANGED failed

Unmarked == hosts \ {"poison"}

SetupSed == /\ Line("setup", "sed", "rm")
            /\ hosts' = Unmarked
            /\ UNCHANGED <<dropin, loaded, pristine>> /\ Quiet

SetupRemove == /\ \/ Line("setup", "rm", "rm_dir") /\ dropin' = FALSE /\ UNCHANGED pristine
                  \/ Line("setup", "rm_dir", "cp") /\ pristine' = NoCopy /\ UNCHANGED dropin
               /\ UNCHANGED <<hosts, loaded>> /\ Quiet

\* A bug: the copy is taken after the line is added.
BugSetupCopy == /\ Line("setup", "cp", "echo")
                /\ pristine' = hosts \cup {"poison"}
                /\ UNCHANGED <<hosts, dropin, loaded>> /\ Quiet

SetupCopy == /\ Line("setup", "cp", "echo")
             /\ pristine' = hosts
             /\ UNCHANGED <<hosts, dropin, loaded>> /\ Quiet

SetupPoison == /\ \/ Line("setup", "echo", "dropin") /\ hosts' = hosts \cup {"poison"}
                     /\ UNCHANGED dropin
                  \/ Line("setup", "dropin", "restart") /\ dropin' = TRUE
                     /\ UNCHANGED hosts
               /\ UNCHANGED <<loaded, pristine>> /\ Quiet

SetupRestart == End("setup", "restart") /\ RestartResolved /\ Quiet

Setup == SetupSed \/ SetupRemove \/ SetupCopy \/ SetupPoison \/ SetupRestart

TeardownBegin == Begin("teardown", "hosts") /\ UNCHANGED <<failed, tornDown>>

\* The copy, or the file without the marked lines.
TeardownHosts == /\ Line("teardown", "hosts", "rm")
                 /\ hosts' = IF pristine # NoCopy THEN pristine ELSE Unmarked
                 /\ UNCHANGED <<dropin, loaded, pristine>> /\ Quiet

TeardownRemove == /\ Line("teardown", "rm", "restart")
                  /\ dropin' = FALSE
                  /\ UNCHANGED <<hosts, loaded, pristine>> /\ Quiet

TeardownRestart == /\ Line("teardown", "restart", "rm_dir")
                   /\ RestartResolved /\ Quiet

TeardownEnd == /\ End("teardown", "rm_dir")
               /\ pristine' = NoCopy /\ tornDown' = TRUE
               /\ UNCHANGED <<hosts, dropin, loaded, failed, verdict>>

Teardown == TeardownHosts \/ TeardownRemove \/ TeardownRestart \/ TeardownEnd

CheckBegin == Begin("check", "hosts") /\ failed' = FALSE /\ UNCHANGED tornDown

\* One test of check.sh: it prints FAIL and goes on.
Test(a, b, bad) == /\ Line("check", a, b)
                   /\ failed' = (failed \/ bad)
                   /\ UNCHANGED verdict

\* getent: /etc/hosts first, then resolved, then the network, which may be down.
Resolve == /\ End("check", "getent")
           /\ \E up \in BOOLEAN : failed' = (failed \/ "poison" \in hosts \/ loaded \/ ~up)
           /\ verdict' = IF failed' THEN "not_fixed" ELSE "fixed"

Check == /\ \/ Test("hosts", "dropin", "poison" \in hosts)
            \/ Test("dropin", "status", dropin)
            \/ Test("status", "getent", loaded)
            \/ Resolve
         /\ UNCHANGED <<machine, tornDown>>

Next == \/ Player \/ Reboot
        \/ SetupBegin \/ TeardownBegin \/ CheckBegin
        \/ Setup \/ Teardown \/ Check

-----------------------------------------------------------------------------
TypeOK == /\ hosts \subseteq Lines
          /\ dropin \in BOOLEAN /\ loaded \in BOOLEAN /\ failed \in BOOLEAN
          /\ pristine \in (SUBSET Lines) \cup {NoCopy}
          /\ verdict \in {"none", "not_fixed", "fixed"} /\ tornDown \in BOOLEAN

\* "hosts file clean, resolved restored, names resolve for real" (check.sh:41) holds
\* from the verdict on, through reboots, until somebody edits or runs a script again.
FixedResolves == verdict = "fixed" => "poison" \notin hosts /\ ~dropin /\ ~loaded

\* "fully reverses setup, any state" (teardown.sh:2): whatever was edited, armed again
\* or cut short before, the poison is in no file, nor in the copy, nor loaded.
TornDownClean == tornDown => /\ "poison" \notin hosts /\ ~dropin /\ ~loaded
                             /\ pristine = NoCopy
=============================================================================
