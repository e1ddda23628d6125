----------------------------- MODULE NodeControl -----------------------------
(***************************************************************************)
(* The parent's control of one child OpenClaw over its paired node         *)
(* (src/node-control.ts): the child keeps a config file that its commands  *)
(* status, apply and ingress read and write, and that the owner of the     *)
(* machine edits too.  One operation of the parent runs at a time; an      *)
(* invoke that times out fails the operation and may still land later.     *)
(*                                                                         *)
(* A policy is what childPolicyHash tells apart; `slack' is the channel    *)
(* the parent manages, `local' a channel of the owner's.  An operation     *)
(* that does not find the node connected, under its name and with its      *)
(* commands, ends at once and is left out.                                 *)
(***************************************************************************)
EXTENDS Integers, FiniteSets

CONSTANTS Spec,       \* what a policy says (the model with the rest) besides whether Slack is on
          Absent,     \* no policy, no probe
          MaxEdits,   \* bound: edits by the owner, changes of the desired policy
          MaxTimeouts \* bound: invokes that time out

Policy == [spec : Spec, slack : BOOLEAN]

ASSUME NodeAssumption == Absent \notin Spec \cup Policy /\ {MaxEdits, MaxTimeouts} \subseteq Nat

Channel == {"slack", "local"}
Flag == {"absent", "missing", "on", "off"} \* the enabled field of a channel, if it has one

VARIABLES
  child,     \* the child's config file
  desired,   \* the desired policy, and whether the claw is enabled
  parent,    \* the parent's operation under way
  abandoned, \* invokes that timed out
  probes,    \* the latest health probes: the spec they are of, recent, in order
  verdict,   \* ghost: what the last operation concluded, and of which policy
  unsaved,   \* ghost: policies applied by an operation whose evidence was not saved
  touched,   \* ghost: the child changed since the parent read its status
  reopened,  \* ghost: channels switched on while the ingress was disabled
  wish,      \* ghost: the flag the owner gave the local channel
  changes

nodeVars == <<child, desired, parent, abandoned, probes, verdict, unsaved, touched, reopened, wish, changes>>

IsOn(flag) == flag \in {"on", "missing"}

(* readManagedState; its hash tells managed states apart. *)
Managed(c) == [spec |-> c.spec, slack |-> IsOn(c.flags["slack"])]

NoProbes == [of |-> Absent, recent |-> FALSE, slack |-> FALSE, auth |-> FALSE]
Unsaved == [ch \in Channel |-> "absent"]
Idle == [at |-> "idle"]
NoVerdict == [of |-> "nothing", policy |-> Absent]

NodeInit ==
  /\ \E spec \in Spec, slack \in {"absent", "off"}, loc \in {"absent", "missing", "on"} :
       /\ child = [spec |-> spec, flags |-> [ch \in Channel |-> IF ch = "slack" THEN slack ELSE loc],
                   disabled |-> FALSE, saved |-> Unsaved,
                   appliedDesired |-> Absent, appliedManaged |-> Absent]
       /\ wish = loc
  /\ desired \in [policy : Policy, enabled : {TRUE}]
  /\ parent = Idle /\ abandoned = {} /\ probes = NoProbes
  /\ verdict = NoVerdict /\ unsaved = {} /\ touched = FALSE /\ reopened = {} /\ changes = 0

----------------------------------------------------------------------------
(* The commands of the child, as functions of its config. *)

(* childStatus reports the applied policy only if the managed state is      *)
(* still the one it left.                                                   *)
AppliedDesired(c) == IF c.appliedManaged = Managed(c) THEN c.appliedDesired ELSE Absent

(* childApplyCommand, on the managed state the parent read. *)
Applied(c, p) ==
  [c EXCEPT !.spec = p.spec, !.flags["slack"] = IF p.slack THEN "on" ELSE "off",
            !.appliedDesired = p, !.appliedManaged = p]

SwitchedOff(c) ==
  [c EXCEPT !.disabled = TRUE, !.saved = c.flags,
            !.flags = [ch \in Channel |-> IF c.flags[ch] = "absent" THEN "absent" ELSE "off"]]

(* Mutant: a repeated disable saves the flags again. *)
IngressOffTwice(c) == SwitchedOff(c)

(* setChannelIngress, off: what a first disable saved is kept. *)
IngressOff(c) == IF c.disabled THEN c ELSE SwitchedOff(c)

(* setChannelIngress, on: channels that were not there keep their flag. *)
IngressOn(c) ==
  IF ~c.disabled THEN c
  ELSE [c EXCEPT !.disabled = FALSE, !.saved = Unsaved,
                 !.flags = [ch \in Channel |-> IF c.saved[ch] = "absent" THEN @[ch] ELSE c.saved[ch]]]

(* hasResolvableSlackCredentials: what the secrets of the machine hold now. *)
SlackResolves == BOOLEAN

(* A command of the parent lands: an apply is refused when Slack has no     *)
(* usable credentials, or when the managed state changed.                   *)
Outcomes(cmd, c, resolves) ==
  CASE cmd.command = "disable" -> {IngressOff(c)}
    [] cmd.command = "enable" -> {IngressOn(c)}
    [] /\ cmd.command = "apply" /\ (cmd.policy.slack => resolves)
       /\ cmd.expected = Managed(c) -> {Applied(c, cmd.policy)}
    [] OTHER -> {}

(* buildOperationalProbes: one Slack account that is configured and answers *)
(* will do; the model must be the one the parent asked about, with its      *)
(* providers' credentials there and usable.                                 *)
SlackAnswer == [failed : BOOLEAN, accounts : SUBSET [configured : BOOLEAN, probeOk : BOOLEAN]]
ModelAnswer(c) == [failed : BOOLEAN, resolved : {c.spec}, missing : BOOLEAN, unusable : BOOLEAN]

SlackHealthy(answer) ==
  ~answer.failed /\ \E a \in answer.accounts : a.configured /\ a.probeOk
AuthReady(answer, spec) ==
  ~answer.failed /\ answer.resolved = spec /\ ~answer.missing /\ ~answer.unusable

OperationalProbes(spec, c) ==
  {[of |-> spec, recent |-> TRUE, slack |-> SlackHealthy(slack), auth |-> AuthReady(model, spec)] :
     slack \in SlackAnswer, model \in ModelAnswer(c)}

(* The channels on though the ingress is disabled. *)
Reopened(c) == IF c.disabled THEN {ch \in Channel : IsOn(c.flags[ch])} ELSE {}

----------------------------------------------------------------------------
(* The parent. *)

Command(at) ==
  CASE at = "disabling" -> [command |-> "disable", policy |-> Absent, expected |-> Absent]
    [] at = "enabling" -> [command |-> "enable", policy |-> Absent, expected |-> Absent]
    [] at = "applying" -> [command |-> "apply", policy |-> parent.policy, expected |-> parent.status.managed]

Start(at) ==
  /\ parent = Idle
  /\ parent' = [at |-> at, policy |-> desired.policy, status |-> Absent, did |-> {}, current |-> TRUE]
  /\ verdict' = NoVerdict
  /\ UNCHANGED <<child, desired, abandoned, probes, unsaved, touched, reopened, wish, changes>>

StartInspect == desired.enabled /\ Start("status")
StartDisable == ~desired.enabled /\ Start("disabling")

(* The operation ends without evidence, having or not having applied. *)
Fails ==
  /\ parent' = Idle
  /\ unsaved' = IF parent.at = "applying" \/ "apply" \in parent.did THEN unsaved \cup {parent.policy}
                ELSE unsaved
  /\ UNCHANGED <<probes, verdict>>

(* The evidence is written, unless the claw's record changed meanwhile. *)
Concludes(of, evidence) ==
  IF ~parent.current THEN Fails
  ELSE /\ parent' = Idle /\ probes' = evidence /\ verdict' = [of |-> of, policy |-> parent.policy]
       /\ UNCHANGED unsaved

(* ready and attention of CrabboxAdapterProvider.inspect. *)
Readiness(policy, disabled, evidence) ==
  IF disabled THEN "waiting"
  ELSE IF evidence.auth /\ (policy.slack => evidence.slack) THEN "ready"
  ELSE "attention"

ProbeNeeded(did) == ~probes.recent \/ "apply" \in did

(* #status answers, and inspect or disable goes on from what it says. *)
ReadStatus ==
  /\ parent.at \in {"status", "confirming"}
  /\ touched' = FALSE
  /\ LET applied == AppliedDesired(child) = parent.policy
         goes(at) == /\ parent' = [parent EXCEPT !.at = at, !.status = [managed |-> Managed(child),
                                                                       disabled |-> child.disabled]]
                     /\ UNCHANGED <<verdict, unsaved, probes>>
     IN CASE parent.at = "confirming" -> IF child.disabled THEN Concludes("disabled", probes) ELSE Fails
          [] parent.at = "status" /\ child.disabled /\ parent.did = {} -> goes("enabling")
          [] parent.at = "status" /\ child.disabled /\ parent.did = {"enable"} -> Fails
          [] OTHER -> IF ~applied THEN IF "apply" \in parent.did THEN Fails ELSE goes("applying")
                      ELSE IF ProbeNeeded(parent.did) THEN goes("probing")
                      ELSE Concludes(Readiness(parent.policy, child.disabled, probes), probes)
  /\ UNCHANGED <<child, desired, abandoned, reopened, wish, changes>>

(* An invoke lands and is answered; an apply may be refused. *)
Invoke ==
  /\ parent.at \in {"disabling", "enabling", "applying"}
  /\ \E resolves \in SlackResolves : LET cmd == Command(parent.at) IN
     \/ \E c \in Outcomes(cmd, child, resolves) :
          /\ child' = c
          /\ parent' = [parent EXCEPT !.at = IF @ = "disabling" THEN "confirming" ELSE "status",
                                      !.did = @ \cup {cmd.command}]
          /\ reopened' = IF child.disabled THEN Reopened(c) ELSE {}
          /\ UNCHANGED <<verdict, unsaved, probes>>
     \/ /\ Outcomes(cmd, child, resolves) = {}
        /\ Fails /\ UNCHANGED <<child, reopened>>
  /\ UNCHANGED <<desired, abandoned, touched, wish, changes>>

(* #health; the evidence also says what the status said before. *)
Probe ==
  /\ parent.at = "probing"
  /\ \E evidence \in OperationalProbes(parent.policy.spec, child) :
       Concludes(Readiness(parent.policy, parent.status.disabled, evidence), evidence)
  /\ UNCHANGED <<child, desired, abandoned, touched, reopened, wish, changes>>

(* An invoke times out; a command may still land. *)
TimesOut ==
  /\ parent # Idle /\ Cardinality(abandoned) < MaxTimeouts /\ Fails
  /\ abandoned' = abandoned \cup
       {[id |-> Cardinality(abandoned) + 1, landed |-> FALSE,
         cmd |-> IF parent.at \in {"disabling", "enabling", "applying"} THEN Command(parent.at) ELSE Absent]}
  /\ UNCHANGED <<child, desired, touched, reopened, wish, changes>>

LandsLate(a) ==
  /\ ~a.landed /\ a.cmd # Absent
  /\ \E resolves \in SlackResolves : \E c \in Outcomes(a.cmd, child, resolves) :
       child' = c /\ reopened' = Reopened(c)
  /\ abandoned' = (abandoned \ {a}) \cup {[a EXCEPT !.landed = TRUE]}
  /\ touched' = TRUE
  /\ UNCHANGED <<desired, parent, probes, verdict, unsaved, wish, changes>>

----------------------------------------------------------------------------
(* The surroundings. *)

Change == changes < MaxEdits /\ changes' = changes + 1

(* The owner edits the config: the model, or a channel's flag. *)
OwnerEdits ==
  /\ Change /\ touched' = TRUE
  /\ \/ \E s \in Spec \ {child.spec} : child' = [child EXCEPT !.spec = s] /\ UNCHANGED wish
     \/ \E ch \in Channel, flag \in {"on", "off", "missing"} :
          /\ flag # child.flags[ch] /\ child' = [child EXCEPT !.flags[ch] = flag]
          /\ wish' = IF ch = "local" /\ (~child.disabled \/ child.saved[ch] = "absent") THEN flag ELSE wish
  /\ reopened' = Reopened(child')
  /\ UNCHANGED <<desired, parent, abandoned, probes, verdict, unsaved>>

(* A newer policy, or an administrator disables or enables the claw. *)
DesiredChanges ==
  /\ Change
  /\ \/ \E p \in Policy \ {desired.policy} : desired' = [desired EXCEPT !.policy = p]
     \/ desired' = [desired EXCEPT !.enabled = ~@]
  /\ parent' = IF parent = Idle THEN Idle ELSE [parent EXCEPT !.current = FALSE]
  /\ UNCHANGED <<child, abandoned, probes, verdict, unsaved, touched, reopened, wish>>

ProbesAge ==
  /\ probes.recent /\ probes' = [probes EXCEPT !.recent = FALSE]
  /\ UNCHANGED <<child, desired, parent, abandoned, verdict, unsaved, touched, reopened, wish, changes>>

NodeNext ==
  \/ StartInspect \/ StartDisable \/ ReadStatus \/ Invoke \/ Probe \/ TimesOut
  \/ \E a \in abandoned : LandsLate(a)
  \/ OwnerEdits \/ DesiredChanges \/ ProbesAge

NodeSpec == NodeInit /\ [][NodeNext]_nodeVars

----------------------------------------------------------------------------
(* What the parent concludes of a child is so, as long as nothing else has  *)
(* touched it since (inspect, disable): a ready child has the policy, its   *)
(* ingress is on, and the probes are of its model unless the operation that *)
(* applied it did not end; a disabled child has no channel on but those     *)
(* switched on since; and a local channel gets back the flag its owner gave *)
(* it, however often the ingress was disabled and enabled.                  *)
NodeHonest ==
  /\ verdict.of = "ready" /\ ~touched => /\ Managed(child) = verdict.policy /\ ~child.disabled
  /\ verdict.of = "ready" => probes.of = verdict.policy.spec \/ verdict.policy \in unsaved
  /\ verdict.of = "disabled" /\ ~touched => child.disabled
  /\ \A ch \in Channel \ reopened : child.disabled => ~IsOn(child.flags[ch])
  /\ ~child.disabled => child.flags["local"] = wish

=============================================================================
