----------------------------- MODULE MCPlatform -----------------------------
(***************************************************************************)
(* A small instance of the modules of one claw's platform.  They share no  *)
(* state in the model, so that one of them moves in a behaviour and the    *)
(* others rest; `part' says which.                                         *)
(***************************************************************************)
EXTENDS RuntimeCredentials, NodeControl, Wakeups, AuditTrail, ModelRouting, Installer,
        RuntimeSockets, CoordinatorDirectory, NodeRetirement, TLC

VARIABLE part

platformVars ==
  <<credentialVars, nodeVars, wakeupVars, auditVars, routingVars, installerVars,
    socketVars, directoryVars, retirementVars, part>>

(* A part that rests does so in one of its initial states; the policy or    *)
(* scope a part starts with stands for the others, and a flag that is      *)
(* missing for one that is on, until an owner tells them apart.             *)
Starts ==
  /\ part = "credentials" \/ hosting = "aws"
  /\ part = "nodes" \/ (wish = "absent" /\ child.flags["slack"] = "off"
                        /\ child.spec = desired.policy.spec /\ desired.policy.slack)
  /\ desired.policy.spec = CHOOSE s \in Spec : TRUE
  /\ wish # "on"
  /\ part = "wakeups" \/ platform = "aws"
  /\ wanted.scope = CHOOSE s \in Scope : TRUE
  /\ part = "retiring" \/ sessions = <<>>
  /\ goal.policy = CHOOSE p \in BootPolicy : TRUE

PlatformInit ==
  /\ part \in {"credentials", "nodes", "wakeups", "audit", "routing", "installing",
              "sockets", "sweeps", "retiring"}
  /\ CredentialInit /\ NodeInit /\ WakeupInit /\ AuditInit /\ RoutingInit /\ InstallerInit
  /\ SocketInit /\ DirectoryInit /\ RetirementInit
  /\ Starts

CredentialStep ==
  /\ part = "credentials" /\ CredentialNext
  /\ UNCHANGED <<part, nodeVars, wakeupVars, auditVars, routingVars, installerVars, socketVars,
                 directoryVars, retirementVars>>
NodeStep ==
  /\ part = "nodes" /\ NodeNext
  /\ UNCHANGED <<part, credentialVars, wakeupVars, auditVars, routingVars, installerVars, socketVars,
                 directoryVars, retirementVars>>
WakeupStep ==
  /\ part = "wakeups" /\ WakeupNext
  /\ UNCHANGED <<part, credentialVars, nodeVars, auditVars, routingVars, installerVars, socketVars,
                 directoryVars, retirementVars>>
AuditStep ==
  /\ part = "audit" /\ AuditNext
  /\ UNCHANGED <<part, credentialVars, nodeVars, wakeupVars, routingVars, installerVars, socketVars,
                 directoryVars, retirementVars>>
RoutingStep ==
  /\ part = "routing" /\ RoutingNext
  /\ UNCHANGED <<part, credentialVars, nodeVars, wakeupVars, auditVars, installerVars, socketVars,
                 directoryVars, retirementVars>>
InstallerStep ==
  /\ part = "installing" /\ InstallerNext
  /\ UNCHANGED <<part, credentialVars, nodeVars, wakeupVars, auditVars, routingVars, socketVars,
                 directoryVars, retirementVars>>
SocketStep ==
  /\ part = "sockets" /\ SocketsNext
  /\ UNCHANGED <<part, credentialVars, nodeVars, wakeupVars, auditVars, routingVars, installerVars,
                 directoryVars, retirementVars>>
DirectoryStep ==
  /\ part = "sweeps" /\ DirectoryNext
  /\ UNCHANGED <<part, credentialVars, nodeVars, wakeupVars, auditVars, routingVars, installerVars,
                 socketVars, retirementVars>>
RetirementStep ==
  /\ part = "retiring" /\ RetirementNext
  /\ UNCHANGED <<part, credentialVars, nodeVars, wakeupVars, auditVars, routingVars, installerVars,
                 socketVars, directoryVars>>

PlatformNext ==
  \/ CredentialStep \/ NodeStep \/ WakeupStep \/ AuditStep \/ RoutingStep
  \/ InstallerStep \/ SocketStep \/ DirectoryStep \/ RetirementStep

PlatformSpec == PlatformInit /\ [][PlatformNext]_platformVars

=============================================================================
