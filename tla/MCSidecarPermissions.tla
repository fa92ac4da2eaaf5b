------------------------ MODULE MCSidecarPermissions ------------------------
(* SidecarPermissions on a small file system: a project in "/work" with its  *)
(* .git and a subdirectory, and a path that steps out of it.                 *)
EXTENDS SidecarPermissions

Paths == {"/", "/tmp", "/work", "/work/src", "/work/.git", "/work/../etc"}
InWork == {"/work", "/work/src", "/work/.git"}

PathsAbove ==
  [p \in Paths |-> {"/", p} \cup (IF p \in InWork \cup Unsafe THEN {"/work"} ELSE {})]

Under(p) == {q \in Paths : p \in Above[q]}

Extents ==
  [n \in Paths \cup {"root", "slash_tmp", "tmpdir", "project_roots", "git", "minimal", "cwd", "glob"} |->
     CASE n = "root" -> Paths \cup {"tmpdir", "platform"} [] n = "slash_tmp" -> Under("/tmp")
       [] n = "tmpdir" -> {"tmpdir"} [] n = "minimal" -> {"platform"}
       [] n \in {"project_roots", "cwd"} -> Under("/work") [] n = "git" -> {"/work/.git"}
       [] n = "glob" -> {"/work/src"} [] n = "/" -> Paths \cup {"tmpdir", "platform"}
       [] OTHER -> Under(n)]

Restricted(roots, defaults) == [full |-> FALSE, defaults |-> defaults, roots |-> roots]

Sandboxes ==
  { ReadOnly(FALSE, FullRead), ReadOnly(FALSE, Restricted({"/work"}, TRUE)),
    WorkspaceWrite(FALSE, FullRead, {"/work"}, FALSE, FALSE),
    WorkspaceWrite(TRUE, FullRead, {"/work/src", "/work/.git"}, TRUE, FALSE),
    WorkspaceWrite(FALSE, FullRead, {"/work/src", "/work/../etc"}, FALSE, TRUE),
    DangerFullAccess, ExternalSandbox(FALSE) }

Entry(scope, access) == [scope |-> scope, access |-> access]
Managed(network, entries) ==
  [kind |-> "managed", network |-> network, unrestricted |-> FALSE, entries |-> entries]

ReadsAll == Entry("root", "read")
Workspace == {ReadsAll} \cup {Entry(n, "write") : n \in {"project_roots", "tmpdir", "slash_tmp"}}

Profiles ==
  { Managed(FALSE, {ReadsAll, Entry("/work", "none")}),
    Managed(FALSE, Workspace), Managed(FALSE, Workspace \cup {Entry("git", "none")}),
    Managed(FALSE, Workspace \cup {Entry("/work/src", "none"), Entry("git", "none")}),
    Managed(TRUE, {ReadsAll, Entry("/work", "write"), Entry("glob", "write")}),
    [Managed(TRUE, {}) EXCEPT !.kind = "disabled"],
    [Managed(FALSE, {}) EXCEPT !.kind = "external"] }

Selections ==
  { [id |-> ":read-only", roots |-> {}], [id |-> ":workspace", roots |-> {}],
    [id |-> ":workspace", roots |-> {"/work/src"}], [id |-> "mine", roots |-> {}] }

(* The roots a server lists beside a profile of project roots are such.      *)
Coherent(answer) ==
  answer.profile # None /\ "project_roots" \in ProfileScope(answer).writes
    => answer.sandbox.roots \subseteq Under("/work") \cup Under("/tmp") \cup Unsafe

Believed ==
  {a \in [ policy : {"untrusted"}, sandbox : Sandboxes,
           profile : Profiles \cup {None}, active : Selections \cup {None} ] :
     /\ Coherent(a) /\ Trusted(a)
     /\ a.active # None => SelectsBuiltin(a) /\ a.sandbox.roots = {"/work"} /\ a.profile # None}

Plain(policy) ==
  [ policy |-> policy, sandbox |-> ReadOnly(FALSE, FullRead), profile |-> None, active |-> None ]

AllAnswers == Believed \cup {Plain(policy) : policy \in {"on-request", "unknown"}}

Given(approval, network, write) == [approval |-> approval, network |-> network, write |-> write]
SomeInputs == { Given("auto", "auto", "auto"), Given("auto", "true", "false") }
=============================================================================
