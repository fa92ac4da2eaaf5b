-------------------------- MODULE TurnPermissions ---------------------------
(***************************************************************************)
(* The permissions a detached turn is started with. An answer to           *)
(* `thread/resume` carries the thread's approval policy, its legacy        *)
(* sandbox and, from newer servers, its permission profile and the         *)
(* selection the profile came from. The turn is capped by the answer of    *)
(* the session's start and by the current one.                             *)
(*                                                                         *)
(* What can fail is a set that is then empty.                              *)
(***************************************************************************)
EXTENDS PermissionScopes, FiniteSets

Dimension == {"approval", "network", "write"}

Policies == {"never", "untrusted", "on-failure", "on-request"}

(* CliPermissionSnapshot *)
Answer == [ policy : STRING, sandbox : Sandbox,
            profile : Profile \cup {None}, active : Selection \cup {None} ]

(* approval_policy_risk_rank *)
RiskRank(policy) ==
  CASE policy = "never" -> 0 [] policy = "untrusted" -> 1
    [] policy = "on-failure" -> 2 [] policy = "on-request" -> 3

(* CliPermissionSnapshot::resolved_permissions *)
Derived(snapshot) ==
  [ approval |-> snapshot.policy # "never",
    network |-> snapshot.sandbox.network, write |-> SandboxWrites(snapshot.sandbox) ]

ProfileScope(snapshot) == ScopeOf(snapshot.profile)

(* permission_profile_legacy_compatible, ensure_legacy_permission_fallback_compatible *)
FallsBack(snapshot) ==
  snapshot.profile # None => LegacyCompatible(ProfileScope(snapshot), snapshot.sandbox)

SelectsBuiltin(snapshot) ==
  snapshot.active # None /\ snapshot.active.id \in Builtin

(* parse_thread_resume_permission_snapshot: the answers that are believed.   *)
Trusted(snapshot) ==
  /\ snapshot.policy \in Policies
  /\ snapshot.active # None => Safe(snapshot.active.roots)
  /\ snapshot.profile # None =>
       /\ SafeProfile(snapshot.profile)
       /\ ProfileScope(snapshot).network = snapshot.sandbox.network
       /\ ProfileScope(snapshot).write = SandboxWrites(snapshot.sandbox)
       /\ FallsBack(snapshot) \/ SelectsBuiltin(snapshot)

(* CliSessionPermissionInputs::resolve: what is not "auto" was given on the  *)
(* command line.                                                             *)
Resolve(inputs, snapshot) ==
  [d \in Dimension |-> IF inputs[d] = "auto" THEN Derived(snapshot)[d] ELSE inputs[d] = "true"]

(* effective_permissions *)
Effective(startup, current) == [d \in Dimension |-> startup[d] /\ current[d]]

-----------------------------------------------------------------------------
(* turn_start_permission_overrides *)

(* pinned_approval_policy *)
PinnedApproval(startup, current, allowed) ==
  IF ~allowed THEN "never"
  ELSE IF RiskRank(startup.policy) <= RiskRank(current.policy) THEN startup.policy ELSE current.policy

(* pinned_read_only_access; no turn can be started with a restricted access  *)
(* (ensure_legacy_turn_start_full_read_access).                              *)
ReadsEverything(startup, current) == startup.access.full /\ current.access.full

(* pinned_read_only_sandbox *)
PinnedReadOnly(startup, current, network) ==
  IF ReadsEverything(startup, current) /\ "externalSandbox" \notin {startup.type, current.type}
  THEN {ReadOnly(network, FullRead)} ELSE {}

(* workspace_writable_roots_intersection *)
NarrowerRoots(startup, current) ==
    {r \in current : Above[r] \cap startup # {}}
  \cup {r \in startup : Above[r] \cap current # {}}

(* pinned_workspace_write_sandbox *)
PinnedWorkspace(startup, current, network) ==
  LET both == startup.type = current.type
      workspaces == {s \in {startup, current} : s.type = "workspaceWrite"}
      roots == IF both THEN NarrowerRoots(startup.roots, current.roots)
                       ELSE UNION {s.roots : s \in workspaces}
      normalized == IF both /\ {} \in {startup.roots, current.roots}
                    THEN {} ELSE UNION {s.roots : s \in workspaces}
  IN  {w \in {WorkspaceWrite(network, FullRead, roots, \E s \in workspaces : s.noTmpdir,
                             \E s \in workspaces : s.noSlashTmp)} :
         Safe(normalized) /\ \A s \in workspaces : s.access.full}

(* pinned_external_sandbox keeps what the external sandbox had; a full access *)
(* cannot be pinned to less.                                                 *)
PinnedUnconfined(startup, current, network) ==
  CASE "externalSandbox" \in {startup.type, current.type} -> {ExternalSandbox(network)}
    [] startup.type = current.type /\ startup.type = "dangerFullAccess" ->
         IF network THEN {DangerFullAccess} ELSE {}

(* pinned_sandbox_policy *)
PinnedSandboxes(startup, current, effective) ==
  LET types == {startup.type, current.type}
  IN  IF ~effective.write THEN PinnedReadOnly(startup, current, effective.network)
      ELSE IF "readOnly" \in types \/ types = {"externalSandbox", "workspaceWrite"} THEN {}
      ELSE IF "workspaceWrite" \in types THEN PinnedWorkspace(startup, current, effective.network)
      ELSE PinnedUnconfined(startup, current, effective.network)

(* current_permission_profile_scope_within_startup *)
CapIsKnown(startup) ==
  startup.profile # None \/ startup.sandbox.type \in {"dangerFullAccess", "externalSandbox"}
  \/ SafeSandbox(startup.sandbox)

WithinStartup(startup, current) ==
  LET s == ProfileScope(current)
  IN  \/ startup.profile = current.profile
      \/ /\ startup.profile # None /\ startup.profile # current.profile
         /\ ScopeWithin(s, ProfileScope(startup), DenialsKept(s, ProfileScope(startup)))
      \/ /\ startup.profile = None /\ startup.sandbox.type # "externalSandbox"
         /\ ScopeWithin(s, SandboxScope(startup.sandbox), FALSE)

(* The selection the thread has now says exactly what the turn may do.       *)
SelectionFits(current, effective) ==
  /\ current.profile # None /\ SelectsBuiltin(current)
  /\ \A d \in {"network", "write"} : Derived(current)[d] = effective[d]
  /\ SelectionScope(current.active).network = effective.network
  /\ SelectionScope(current.active).write = effective.write
  /\ SelectionMatches(current.active, ProfileScope(current))

Overrides(startup, current, effective) ==
  LET approval == PinnedApproval(startup, current, effective.approval)
      legacy == {[policy |-> approval, selection |-> None, sandbox |-> sandbox] :
                   sandbox \in PinnedSandboxes(startup.sandbox, current.sandbox, effective)}
  IN  IF SelectionFits(current, effective) /\ ~CapIsKnown(startup) THEN {}
      ELSE IF SelectionFits(current, effective) /\ WithinStartup(startup, current)
      THEN {[policy |-> approval, selection |-> current.active, sandbox |-> None]}
      ELSE {o \in legacy : FallsBack(startup) /\ FallsBack(current)}

-----------------------------------------------------------------------------
(* record_permission_drift_if_needed: in which direction the thread's        *)
(* permissions have moved since the start.                                   *)

Moved(narrower, wider) ==
  CASE narrower /\ ~wider -> {"tightened"} [] wider /\ ~narrower -> {"loosened"} [] OTHER -> {}

(* combine_drift_directions *)
Combined(directions) ==
  IF Cardinality(directions) = 1 THEN CHOOSE d \in directions : TRUE ELSE "mixed"

OrChanged(directions) == IF directions = {} THEN "changed" ELSE Combined(directions)

Covered(roots, by) == \A r \in roots : Above[r] \cap by # {}

(* roots_drift_direction *)
RootsDrift(startup, current) ==
  IF ~Covered(current, startup) /\ ~Covered(startup, current) THEN {"mixed"}
  ELSE Moved(Covered(current, startup), Covered(startup, current))

(* read_only_access_drift_direction *)
AccessDrift(startup, current) ==
  CASE startup = current -> {}
    [] startup.full # current.full -> Moved(startup.full, current.full)
    [] OTHER -> {OrChanged(RootsDrift(startup.roots, current.roots)
                           \cup Moved(startup.defaults /\ ~current.defaults,
                                      current.defaults /\ ~startup.defaults))}

(* sandbox_policy_drift_direction *)
SandboxDrift(startup, current) ==
  IF startup.type # current.type THEN "changed"
  ELSE OrChanged(RootsDrift(startup.roots, current.roots)
                 \cup AccessDrift(startup.access, current.access)
                 \cup Moved(current.noTmpdir /\ ~startup.noTmpdir, startup.noTmpdir /\ ~current.noTmpdir)
                 \cup Moved(current.noSlashTmp /\ ~startup.noSlashTmp,
                            startup.noSlashTmp /\ ~current.noSlashTmp))

(* ... which fails for roots it cannot normalize. *)
DriftIsKnown(startup, current) ==
  startup.sandbox = current.sandbox \/ startup.sandbox.type # current.sandbox.type
  \/ /\ Safe(startup.sandbox.roots \cup current.sandbox.roots)
     /\ \/ startup.sandbox.access = current.sandbox.access
        \/ startup.sandbox.access.full \/ current.sandbox.access.full
        \/ Safe(startup.sandbox.access.roots \cup current.sandbox.access.roots)

(* approval_policy_drift_direction *)
ApprovalDrift(startup, current) ==
  Moved(RiskRank(current) < RiskRank(startup), RiskRank(startup) < RiskRank(current))

(* permission_drift_changes *)
FlagDrift(first, now) ==
  UNION {Moved(first[d] /\ ~now[d], now[d] /\ ~first[d]) : d \in Dimension}

(* permission_snapshot_drift_changes *)
DriftDirections(startup, current, first, now) ==
       FlagDrift(first, now)
  \cup ApprovalDrift(startup.policy, current.policy)
  \cup (IF startup.sandbox = current.sandbox THEN {}
        ELSE {SandboxDrift(startup.sandbox, current.sandbox)})
  \cup (IF startup.profile = current.profile /\ startup.active = current.active THEN {}
        ELSE {"changed"})
=============================================================================
