------------------------------- MODULE Installer -------------------------------
(***************************************************************************)
(* The installation of a claw's runtime on its workspace and the evidence  *)
(* that it is ready (worker/bootstrap.ts, handleBootstrap of               *)
(* worker/http-service.ts, deploy/crabbox-profile/guest-install.sh).  The  *)
(* control plane polls over a terminal: a marker file says which policy    *)
(* the last finished installer installed, another one which                *)
(* credentials; without them the poll launches an installer, Attempts times *)
(* at most for a desired state.  Installers of two desired states may      *)
(* overlap: a poll kills only those that replace the runtime.  The spec and *)
(* the credentials are served for the desired state of that moment.        *)
(***************************************************************************)
EXTENDS Integers, FiniteSets

CONSTANTS BootPolicy,  \* what standaloneBootstrapHash tells apart, of one release
          NoPolicy,
          Installer,   \* installer processes
          Attempts,    \* three in the code
          MaxEpoch,    \* bound: rotations of the credentials
          MaxRevisions \* bound: changes of the desired state

ASSUME InstallerAssumption ==
  /\ NoPolicy \notin BootPolicy /\ MaxEpoch \in Nat \ {0} /\ MaxRevisions \in Nat
  /\ Attempts \in Nat

VARIABLES
  goal,     \* the desired policy and credentials generation
  jobs,     \* the installer processes
  installed,  \* what is installed: policy and key, or torn
  readyMark, keyMark, \* /var/lib/crabhelm/ready and credentials-generation
  tries,    \* the attempt markers in /tmp of each desired state
  probed,   \* crabhelm-inference-ready: the desired state whose model answered
  vouched,  \* ghost: the desired state last reported ready, if nothing replaces the runtime
  owner, settled, \* ghosts: the job that last began to replace; whether it ended, alone
  revisions

installerVars == <<goal, jobs, installed, readyMark, keyMark, tries, probed, vouched, owner, settled, revisions>>

Goal == [policy : BootPolicy, epoch : 1..MaxEpoch]
Torn == [policy |-> NoPolicy, epoch |-> 0]
Ended == [at |-> "ended", of |-> Torn, got |-> Torn]

InstallerInit ==
  /\ goal \in {g \in Goal : g.epoch = 1}
  /\ jobs = [i \in Installer |-> Ended]
  /\ installed = Torn /\ readyMark = NoPolicy /\ keyMark = 0
  /\ tries = [g \in Goal |-> 0] /\ probed = Torn
  /\ vouched = Torn /\ owner = {} /\ settled = FALSE /\ revisions = 0

----------------------------------------------------------------------------
(* The installer: bootstrapInstallScript. *)

Goes(i, at) == jobs' = [jobs EXCEPT ![i].at = at]

(* install.sh is fetched, and the attempt marked.  The launch of a first    *)
(* generation names none, and gets the script of the current one.           *)
FetchScript(i) ==
  /\ jobs[i].at = "script" /\ jobs[i].of.epoch \in {1, goal.epoch}
  /\ jobs' = [jobs EXCEPT ![i].at = "credentials", ![i].of.epoch = goal.epoch]
  /\ tries' = [tries EXCEPT ![jobs[i].of] = IF @ = 0 THEN 1 ELSE @]
  /\ UNCHANGED <<goal, installed, readyMark, keyMark, probed, vouched, owner, settled, revisions>>

(* credentials.env: 409 once the generation has changed. *)
FetchCredentials(i) ==
  /\ jobs[i].at = "credentials" /\ jobs[i].of.epoch = goal.epoch
  /\ jobs' = [jobs EXCEPT ![i].at = "spec", ![i].got.epoch = goal.epoch]
  /\ UNCHANGED <<goal, installed, readyMark, keyMark, tries, probed, vouched, owner, settled, revisions>>

(* Mutant: the spec is served whatever policy was asked for. *)
AnySpec(i) == TRUE

(* managed-spec.json: 409 once the policy has changed. *)
SpecServed(i) == jobs[i].of.policy = goal.policy

FetchSpec(i) ==
  /\ jobs[i].at = "spec" /\ SpecServed(i)
  /\ jobs' = [jobs EXCEPT ![i].at = "fetched", ![i].got.policy = goal.policy]
  /\ UNCHANGED <<goal, installed, readyMark, keyMark, tries, probed, vouched, owner, settled, revisions>>

(* The runtime account's processes are killed, another installer's          *)
(* guest-install.sh among them, and the runtime is replaced.                *)
BeginReplacing(i) ==
  /\ jobs[i].at = "fetched"
  /\ jobs' = [j \in Installer |-> IF j = i THEN [jobs[i] EXCEPT !.at = "replacing"]
                                 ELSE IF jobs[j].at = "replacing" THEN Ended ELSE jobs[j]]
  /\ installed' = Torn /\ owner' = {i} /\ settled' = FALSE /\ vouched' = Torn
  /\ UNCHANGED <<goal, readyMark, keyMark, tries, probed, revisions>>

(* guest-install.sh and bootstrap-child.sh end, with the spec and the       *)
(* credentials that were fetched.                                           *)
EndReplacing(i) ==
  /\ jobs[i].at = "replacing" /\ Goes(i, "starting")
  /\ installed' = jobs[i].got
  /\ UNCHANGED <<goal, readyMark, keyMark, tries, probed, vouched, owner, settled, revisions>>

(* The Gateway answers within 60 s; then the markers are written. *)
ServiceReady(i) ==
  /\ jobs[i].at = "starting" /\ installed # Torn /\ Goes(i, "marking")
  /\ UNCHANGED <<goal, installed, readyMark, keyMark, tries, probed, vouched, owner, settled, revisions>>

(* What writing a marker says of the evidence, when another has begun. *)
Marks(i, whole) ==
  IF owner = {i} THEN settled' = whole /\ UNCHANGED <<vouched, owner>>
  ELSE settled' = FALSE /\ vouched' = Torn /\ owner' = {}

MarkReady(i) ==
  /\ jobs[i].at = "marking" /\ Goes(i, "keying") /\ readyMark' = jobs[i].of.policy
  /\ Marks(i, FALSE)
  /\ UNCHANGED <<goal, installed, keyMark, tries, probed, revisions>>

MarkKey(i) ==
  /\ jobs[i].at = "keying" /\ keyMark' = jobs[i].of.epoch
  /\ jobs' = [jobs EXCEPT ![i] = Ended] /\ Marks(i, TRUE)
  /\ UNCHANGED <<goal, installed, readyMark, tries, probed, revisions>>

(* It fails, is refused, or its 10 minutes are over. *)
JobDies(i) ==
  /\ jobs[i].at # "ended" /\ jobs' = [jobs EXCEPT ![i] = Ended]
  /\ UNCHANGED <<goal, installed, readyMark, keyMark, tries, probed, vouched, owner, settled, revisions>>

----------------------------------------------------------------------------
(* The poll: bootstrapStatusCommand. *)

ReadyCheck(g) == readyMark = g.policy /\ (g.epoch > 1 => keyMark = g.epoch)

(* inferenceProbeCommand: the model is tried through the installed runtime, *)
(* unless it answered before for the same desired state.                    *)
InferenceAnswers == (installed # Torn \/ probed = goal) /\ probed' = goal

(* inspect() reports the desired state ready; only an installation that     *)
(* ended alone vouches for it.                                              *)
ReportsReady == vouched' = IF settled THEN goal ELSE Torn

(* The markers are right: those of the attempts go. *)
ReportReady ==
  /\ ReadyCheck(goal)
  /\ tries' = [tries EXCEPT ![goal] = 0]
  /\ (InferenceAnswers /\ ReportsReady) \/ UNCHANGED <<probed, vouched>>
  /\ UNCHANGED <<goal, jobs, installed, readyMark, keyMark, owner, settled, revisions>>

Launched(others) ==
  /\ \E i \in Installer : others[i].at = "ended"
  /\ LET i == CHOOSE i \in Installer : others[i].at = "ended"
     IN jobs' = [others EXCEPT ![i] = [at |-> "script", of |-> goal, got |-> Torn]]

(* Not ready: an installer of another desired state is killed while it      *)
(* replaces the runtime, and one is launched.                               *)
LaunchOver ==
  /\ ~ReadyCheck(goal) /\ tries[goal] = 0
  /\ \E j \in Installer : jobs[j].at = "replacing"
  /\ Launched([j \in Installer |-> IF jobs[j].at = "replacing" THEN Ended ELSE jobs[j]])
  /\ UNCHANGED <<goal, installed, readyMark, keyMark, tries, probed, vouched, owner, settled, revisions>>

(* None replaces the runtime, and no download is seen: one is launched      *)
(* unless three were marked; a log that is still empty counts for nothing.  *)
Launch ==
  /\ ~ReadyCheck(goal) /\ \A j \in Installer : jobs[j].at # "replacing"
  /\ Launched(jobs)
  /\ \/ /\ tries[goal] < Attempts
        /\ tries' = [tries EXCEPT ![goal] = IF @ = 0 THEN 0 ELSE @ + 1]
     \/ /\ \A j \in Installer : jobs[j].at \in {"ended", "script", "credentials", "spec", "fetched"}
        /\ UNCHANGED tries
  /\ UNCHANGED <<goal, installed, readyMark, keyMark, probed, vouched, owner, settled, revisions>>

(* The policy is changed, or the credentials are rotated. *)
GoalChanges ==
  /\ revisions < MaxRevisions /\ revisions' = revisions + 1
  /\ \/ \E p \in BootPolicy \ {goal.policy} : goal' = [goal EXCEPT !.policy = p]
     \/ goal.epoch < MaxEpoch /\ goal' = [goal EXCEPT !.epoch = @ + 1]
  /\ UNCHANGED <<jobs, installed, readyMark, keyMark, tries, probed, vouched, owner, settled>>

InstallerNext ==
  \/ \E i \in Installer :
       \/ FetchScript(i) \/ FetchCredentials(i) \/ FetchSpec(i) \/ BeginReplacing(i) \/ EndReplacing(i)
       \/ ServiceReady(i) \/ MarkReady(i) \/ MarkKey(i) \/ JobDies(i)
  \/ ReportReady \/ LaunchOver \/ Launch \/ GoalChanges

InstallerSpec == InstallerInit /\ [][InstallerNext]_installerVars

----------------------------------------------------------------------------
(* A claw reported ready runs the policy and the credentials it was         *)
(* reported for, unless an installer was left unfinished or wrote its       *)
(* markers after another had begun (bootstrapStatusCommand,                 *)
(* handleBootstrap, managedRuntimeBlock).                                   *)
ReadinessHonest == vouched # Torn => installed = vouched

=============================================================================
