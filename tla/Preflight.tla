----------------------------- MODULE Preflight ------------------------------
(***************************************************************************)
(* The readiness checks prepare makes under the lock (internal/preflight), *)
(* reduced to what blocks it (prepareBlockingReason).                      *)
(*                                                                         *)
(* An environment is what the checks observe:                              *)
(*   git    the state of the product's repository                          *)
(*   bins   the tools on PATH; "agent" stands for either agent binary      *)
(*   keys   the credentials whose environment variable has a value         *)
(*   agent  whether the run needs the agent (headless without a fake)      *)
(***************************************************************************)
EXTENDS Contract

GitState == {"not installed", "not a repository", "other root", "no commits",
             "dirty", "clean"}
KnownBinary == {"git", "go", "gh", "node", "npm", "docker", "xcodebuild", "agent"}

\* Credentials that name an environment variable, by themselves or by the table.
HasVariable == {"SERVICE_KEY", "github token"}

\* addMachineChecks: the editor, gh and go never block.
MachineBlocks(env) == "git" \notin env.bins \/ (env.agent /\ "agent" \notin env.bins)

\* addPRD and addGraph
DocumentBlocks(doc) == ParseErrors(doc) # {} \/ GraphErrors(doc) # {}

\* addGit: a dirty tree is a warning.
GitBlocks(env) == env.git \notin {"dirty", "clean"}

\* addDependencies: an unknown name is never looked for.
DependencyBlocks(doc, env) ==
  \E i \in DOMAIN doc.tools :
    /\ doc.tools[i].bin \in KnownBinary \ env.bins
    /\ ~doc.tools[i].optional

\* Mutant: a credential without a variable is missing.
CredentialBlocksAny(doc, env) == ~(doc.creds \subseteq env.keys)
\* addCredentials: of a name without a variable nothing is known.
CredentialBlocks(doc, env) == ~(doc.creds \cap HasVariable \subseteq env.keys)

PreflightBlocks(doc, env) ==
  \/ MachineBlocks(env) \/ DocumentBlocks(doc) \/ GitBlocks(env)
  \/ DependencyBlocks(doc, env) \/ CredentialBlocks(doc, env)
=============================================================================
