-------------------------- MODULE PermissionScopes --------------------------
(***************************************************************************)
(* What a thread of Codex may do: legacy sandbox policies, permission      *)
(* profiles, the built-in profiles a turn may select, and when one of them *)
(* is within another (the parsing and comparing of `thread/resume` answers *)
(* in src/cli.rs). A profile lists scopes to read, to write and to deny; a *)
(* scope is an absolute path, a special place, or a pattern whose extent   *)
(* nobody knows.                                                           *)
(***************************************************************************)
EXTENDS Naturals

CONSTANTS
  Path,     \* absolute paths
  Above,    \* the paths each path starts with, itself included
  Unsafe,   \* paths with a parent directory in them, which nothing accepts
  Top, Tmp, \* "/" and "/tmp"
  None      \* what an answer does not carry

ASSUME PathAssumption ==
  /\ Above \in [Path -> SUBSET Path] /\ \A p \in Path : p \in Above[p] /\ Top \in Above[p]
  /\ {Top, Tmp} \cup Unsafe \subseteq Path

(* "git" stands for the subpaths .git, .agents and .codex of project roots,  *)
(* "glob" for a pattern.                                                     *)
Special == {"root", "slash_tmp", "tmpdir", "project_roots", "git", "minimal", "cwd"}
ScopeName == Path \cup Special \cup {"glob"}

Entries == [scope : ScopeName, access : {"read", "write", "none"}]

(* What an answer of the app-server is made of. A restricted access has the  *)
(* platform's defaults or not; a read-only sandbox has no roots to write.    *)
Access == [full : BOOLEAN, defaults : BOOLEAN, roots : SUBSET Path]

Sandbox ==
  {s \in [ type : {"readOnly", "workspaceWrite", "dangerFullAccess", "externalSandbox"},
           network : BOOLEAN, access : Access, roots : SUBSET Path,
           noTmpdir : BOOLEAN, noSlashTmp : BOOLEAN ] :
     s.type = "readOnly" => s.roots = {} /\ s.noTmpdir /\ s.noSlashTmp}

Profile == [ kind : {"managed", "disabled", "external"}, network : BOOLEAN,
             unrestricted : BOOLEAN, entries : SUBSET Entries ]

Selection == [id : STRING, roots : SUBSET Path]

Safe(names) == names \cap Unsafe = {}

(* PermissionProfilePermissions *)
NewScope(kind, network) ==
  [ kind |-> kind, network |-> network, write |-> FALSE,
    reads |-> {}, writes |-> {}, denies |-> {} ]

FullScope(kind, network) ==
  [NewScope(kind, network) EXCEPT !.write = TRUE, !.reads = {"root"}, !.writes = {"root"}]

Names(entries, access) == {e.scope : e \in {x \in entries : x.access = access}}

(* parse_permission_profile_permissions *)
ScopeOf(profile) ==
  CASE profile.kind = "disabled" -> FullScope("disabled", TRUE)
    [] profile.kind = "external" -> [NewScope("external", profile.network) EXCEPT !.write = TRUE]
    [] profile.kind = "managed" /\ profile.unrestricted -> FullScope("managed", profile.network)
    [] OTHER -> [NewScope("managed", profile.network) EXCEPT
                   !.write = Names(profile.entries, "write") # {},
                   !.reads = Names(profile.entries, "read"),
                   !.writes = Names(profile.entries, "write"),
                   !.denies = Names(profile.entries, "none")]

SafeProfile(profile) ==
  profile.kind = "managed" /\ ~profile.unrestricted => Safe({e.scope : e \in profile.entries})

(* What a comparison can tell; the rest is has_unrepresentable_*_scope.      *)
KnownReads == Path \cup {"root", "slash_tmp"}
KnownWrites == Path \cup {"root", "slash_tmp", "tmpdir", "project_roots"}

Reach(names, p) ==
  "root" \in names \/ ("slash_tmp" \in names /\ Tmp \in Above[p]) \/ names \cap Above[p] # {}

WriteCoversPath(s, p) == Reach(s.writes, p)
ReadCoversPath(s, p) == Reach(s.reads, p) \/ WriteCoversPath(s, p)

PathOf(name) == CASE name = "root" -> Top [] name = "slash_tmp" -> Tmp [] OTHER -> name

WriteCovers(s, name) ==
  IF name \in {"tmpdir", "project_roots"} THEN s.writes \cap {"root", name} # {}
                                          ELSE WriteCoversPath(s, PathOf(name))
ReadCovers(s, name) == ReadCoversPath(s, PathOf(name))

-----------------------------------------------------------------------------
(* permission_profile_scope_within, and what it is made of. *)

(* permission_profile_read_scope_within, ..._write_scope_within *)
ReadsWithin(s, cap) ==
  /\ s.reads \subseteq KnownReads \/ ReadCoversPath(cap, Top)
  /\ \A name \in s.reads \cap KnownReads : ReadCovers(cap, name)

WritesWithin(s, cap) ==
  /\ s.writes \subseteq KnownWrites \/ WriteCoversPath(cap, Top)
  /\ \A name \in s.writes \cap KnownWrites : WriteCovers(cap, name)

(* current_permission_profile_denials_preserve_startup_denials *)
DenialsKept(s, cap) ==
  cap.denies = {} \/ /\ "glob" \notin cap.denies
                     /\ \A p \in cap.denies \cap Path : s.denies \cap Above[p] # {}
                     /\ cap.denies \ Path \subseteq s.denies

(* A slip for the mutation runs: nobody asks for the denials of the cap.     *)
WithinButForDenials(s, cap, kept) ==
  /\ s.network => cap.network
  /\ s.write => cap.write
  /\ ReadsWithin(s, cap) /\ WritesWithin(s, cap)

ScopeWithin(s, cap, kept) ==
  /\ s.network => cap.network
  /\ s.write => cap.write
  /\ cap.denies # {} => kept
  /\ ReadsWithin(s, cap) /\ WritesWithin(s, cap)

-----------------------------------------------------------------------------
(* Legacy sandbox policies. *)

FullRead == [full |-> TRUE, defaults |-> FALSE, roots |-> {}]

ReadOnly(network, access) ==
  [ type |-> "readOnly", network |-> network, access |-> access,
    roots |-> {}, noTmpdir |-> TRUE, noSlashTmp |-> TRUE ]

WorkspaceWrite(network, access, roots, noTmpdir, noSlashTmp) ==
  [ type |-> "workspaceWrite", network |-> network, access |-> access,
    roots |-> roots, noTmpdir |-> noTmpdir, noSlashTmp |-> noSlashTmp ]

DangerFullAccess ==
  [ type |-> "dangerFullAccess", network |-> TRUE, access |-> FullRead,
    roots |-> {}, noTmpdir |-> FALSE, noSlashTmp |-> FALSE ]

ExternalSandbox(network) == [DangerFullAccess EXCEPT !.type = "externalSandbox", !.network = network]

(* parse_sandbox_permissions *)
SandboxWrites(sandbox) == sandbox.type # "readOnly"

(* record_sandbox_read_access: the platform's defaults are a scope nothing   *)
(* can tell.                                                                 *)
AccessReads(access) ==
  IF access.full THEN {"root"}
                 ELSE access.roots \cup (IF access.defaults THEN {"minimal"} ELSE {})

(* permission_scope_cap_from_legacy_sandbox, which is None for an external   *)
(* sandbox and fails for a path that is not safe.                            *)
SandboxScope(sandbox) ==
  IF sandbox.type = "dangerFullAccess" THEN FullScope("managed", TRUE)
  ELSE [NewScope("managed", sandbox.network) EXCEPT
          !.write = SandboxWrites(sandbox),
          !.reads = AccessReads(sandbox.access),
          !.writes = sandbox.roots \cup (IF sandbox.noTmpdir THEN {} ELSE {"tmpdir"})
                                   \cup (IF sandbox.noSlashTmp THEN {} ELSE {"slash_tmp"})]

SafeSandbox(sandbox) == Safe(sandbox.roots \cup sandbox.access.roots)

(* ensure_permission_profile_covers_legacy_read_access *)
CoversReadAccess(s, sandbox) ==
  /\ sandbox.type # "externalSandbox"
  /\ IF sandbox.access.full THEN ReadCoversPath(s, Top)
     ELSE Safe(sandbox.access.roots) /\ \A r \in sandbox.access.roots : ReadCoversPath(s, r)

(* ensure_permission_profile_covers_workspace_write *)
CoversWorkspace(s, sandbox) ==
  /\ Safe(sandbox.roots)
  /\ \A r \in sandbox.roots : WriteCoversPath(s, r) \/ "project_roots" \in s.writes
  /\ sandbox.noTmpdir \/ WriteCovers(s, "tmpdir")
  /\ sandbox.noSlashTmp \/ WriteCoversPath(s, Tmp)

(* ensure_permission_profile_legacy_write_equivalence: the sandbox allows no *)
(* more than the profile.                                                    *)
LegacyCompatible(s, sandbox) ==
  \/ s.kind = "external" /\ sandbox.type = "externalSandbox"
  \/ /\ s.kind # "external" /\ s.denies = {} /\ s.reads \subseteq KnownReads
     /\ CoversReadAccess(s, sandbox)
     /\ s.write => /\ s.writes \subseteq KnownWrites
                   /\ \/ sandbox.type = "workspaceWrite" /\ CoversWorkspace(s, sandbox)
                      \/ sandbox.type = "dangerFullAccess" /\ "root" \in s.writes

-----------------------------------------------------------------------------
(* The profiles built into Codex, and the roots added to them. *)

(* active_permission_profile_id_is_stable_builtin *)
Builtin == {":read-only", ":workspace", ":danger-no-sandbox"}

(* permission_profile_cap_from_active_selection *)
SelectionScope(selection) ==
  LET base ==
        CASE selection.id = ":read-only" -> [NewScope("managed", FALSE) EXCEPT !.reads = {"root"}]
          [] selection.id = ":workspace" ->
               [NewScope("managed", FALSE) EXCEPT
                  !.write = TRUE, !.reads = {"root"},
                  !.writes = {"project_roots", "tmpdir", "slash_tmp"}, !.denies = {"git"}]
          [] selection.id = ":danger-no-sandbox" -> FullScope("disabled", TRUE)
  IN  [base EXCEPT !.write = @ \/ selection.roots # {}, !.writes = @ \cup selection.roots]

(* selection_denials_cover_permission_profile *)
SelectionDenials(selection, s) ==
  s.denies = {} \/ (selection.id = ":workspace" /\ s.denies \subseteq {"git"})

(* current_permission_profile_selection_matches_current_profile *)
SelectionMatches(selection, s) ==
  LET chosen == SelectionScope(selection)
  IN  /\ ScopeWithin(chosen, s, SelectionDenials(selection, s))
      /\ ScopeWithin(s, chosen, DenialsKept(s, chosen))
=============================================================================
