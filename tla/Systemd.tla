------------------------------ MODULE Systemd ------------------------------
(***************************************************************************)
(* What the labs of ProperInterview/linux/breakfix rely on in systemd, for *)
(* a unit of Type=simple with Restart=on-failure.  Such a unit is active   *)
(* as soon as its process is forked, before the program has done anything  *)
(* (`starting'); a program that dies is started again after RestartSec     *)
(* (`restarting', which systemctl is-active does not call active), or      *)
(* given up (`failed') where RestartSec is short enough to reach the start *)
(* limit of five starts in ten seconds.                                    *)
(***************************************************************************)
UnitState == {"inactive", "starting", "running", "restarting", "failed"}

\* systemctl is-active
Active(s) == s \in {"starting", "running"}

\* systemctl start: nothing to do for a unit that is active.
Started(s) == IF Active(s) THEN s ELSE "starting"

\* What can follow the death of a program.
AfterFailure(limited) == IF limited THEN {"restarting", "failed"} ELSE {"restarting"}
=============================================================================
