------------------------------- MODULE MCLabs -------------------------------
(***************************************************************************)
(* Four of the break/fix labs.   They run on one machine, but one at a     *)
(* time and on files, units and ports of their own: a behaviour is that of *)
(* the lab the player has opened.                                          *)
(***************************************************************************)
EXTENDS RunawayProcess

VARIABLES
  lab,
  pExists, pEnabled, pState, pPort, pShell, pFailed, pVerdict, pTornDown,
  cUnit, cEnabled, cState, cPair, cServed, cShell, cFailed, cVerdict, cTornDown,
  dHosts, dDropin, dLoaded, dPristine, dShell, dFailed, dVerdict, dTornDown

P == INSTANCE PortConflict WITH
       exists <- pExists, enabled <- pEnabled, state <- pState, port <- pPort,
       shell <- pShell, failed <- pFailed, verdict <- pVerdict, tornDown <- pTornDown

C == INSTANCE CertExpired WITH
       unit <- cUnit, enabled <- cEnabled, state <- cState, pair <- cPair,
       served <- cServed, shell <- cShell, failed <- cFailed, verdict <- cVerdict,
       tornDown <- cTornDown

D == INSTANCE DnsSabotage WITH
       hosts <- dHosts, dropin <- dDropin, loaded <- dLoaded, pristine <- dPristine,
       shell <- dShell, failed <- dFailed, verdict <- dVerdict, tornDown <- dTornDown

portVars == <<pExists, pEnabled, pState, pPort, pShell, pFailed, pVerdict, pTornDown>>
certVars == <<cUnit, cEnabled, cState, cPair, cServed, cShell, cFailed, cVerdict,
              cTornDown>>
dnsVars  == <<dHosts, dDropin, dLoaded, dPristine, dShell, dFailed, dVerdict, dTornDown>>
labVars  == <<lab, vars, portVars, certVars, dnsVars>>

LabInit == lab \in {"runaway", "port", "cert", "dns"} /\ Init /\ P!Init /\ C!Init /\ D!Init

InRunaway(A) == lab = "runaway" /\ A /\ UNCHANGED <<lab, portVars, certVars, dnsVars>>
InPort(A)    == lab = "port" /\ A /\ UNCHANGED <<lab, vars, certVars, dnsVars>>
InCert(A)    == lab = "cert" /\ A /\ UNCHANGED <<lab, vars, portVars, dnsVars>>
InDns(A)     == lab = "dns" /\ A /\ UNCHANGED <<lab, vars, portVars, certVars>>

LabNext == InRunaway(Next) \/ InPort(P!Next) \/ InCert(C!Next) \/ InDns(D!Next)

\* The fairness of the modules that state one, each in its own lab.
LabSpec == /\ LabInit /\ [][LabNext]_labVars
           /\ \A s \in Spawner : WF_labVars(InRunaway(SpawnerStep(s)))
           /\ WF_labVars(InRunaway(CronFires))
           /\ WF_labVars(InRunaway(HogExpires))
           /\ WF_labVars(InRunaway(Script))
           /\ \A u \in P!Unit : WF_labVars(InPort(P!Service(u)))
           /\ WF_labVars(InPort(P!Script))
           /\ WF_labVars(InCert(C!Service))
           /\ WF_labVars(InCert(C!Script))

-----------------------------------------------------------------------------
\* The types of the four labs.
LabTypeOK == TypeOK /\ P!TypeOK /\ C!TypeOK /\ D!TypeOK

\* "fully reverses setup, any state" (03, 04 and 08, teardown.sh:2): no unit, no
\* process and nothing that systemd would start again; no poison in hosts, in the
\* copy that was kept of it, or in the resolver.
TornDownClean == P!TornDownClean /\ C!TornDownClean /\ D!TornDownClean

\* What FIXED says of 08 and of 04 is so, as long as the player does nothing: the server
\* answers with a good certificate on the disk until the power fails, and names resolve
\* for real, through reboots.
FixedAnswers == C!FixedAnswers /\ D!FixedResolves

\* As stated in PortConflict and in CertExpired.
GoneForGood    == P!GoneForGood
Armed          == P!Armed
ApiRecovers    == P!ApiRecovers
Rearmed        == C!Rearmed
RenewalReaches == C!RenewalReaches
=============================================================================
