--------------------------- MODULE Configuration ----------------------------
(***************************************************************************)
(* The configuration of a run (config.rs, and run and apply_yaml_config of *)
(* the command line), and what its roots say of a path (enforce_root of    *)
(* security.rs).  A path is [absolute, parts]; a file or a directory has   *)
(* the parts of the one path that leads to it straight: other paths may    *)
(* lead there through "..", a leading "." or a symbolic link.              *)
(***************************************************************************)
EXTENDS Integers, Sequences, FiniteSets, SequencesExt

CONSTANTS
  Cwd,        \* the parts of the working directory
  Defaults,   \* the settings without a configuration file, but for the roots
  OutputDirectory,  \* ".shapeport"
  Resolved(_)       \* where the system gets from the root, part by part: its links

\* A configuration file is a function from some of the settings to values, or:
NoFile == [missing |-> TRUE]

Relative(parts) == [absolute |-> FALSE, parts |-> parts]
At0(parts)      == [absolute |-> TRUE, parts |-> parts]

WithCwdRoots == [readRoots |-> <<At0(Cwd)>>, writeRoots |-> <<At0(Append(Cwd, OutputDirectory))>>]

InferModes == {"none", "conservative", "aggressive"}

\* into_runtime: an infer mode of another name is passed over.
Accepted(file) ==
  {s \in DOMAIN file : s = "infer" => file[s] \in InferModes}
Overlay(base, file) ==
  [s \in DOMAIN base |-> IF s \in Accepted(file) THEN file[s] ELSE base[s]]

\* apply_yaml_config: a list of roots that is missing or empty is the default's.
RootsOf(file) ==
  [s \in {"readRoots", "writeRoots"} |->
     IF s \in DOMAIN file /\ file[s] # <<>> THEN file[s] ELSE WithCwdRoots[s]]

Settings(file) ==
  LET given == IF file = NoFile THEN [s \in {} |-> 0] ELSE file
      roots == RootsOf(given)
      other == Overlay(Defaults, given)
  IN  [s \in DOMAIN roots \union DOMAIN other |-> IF s \in DOMAIN roots THEN roots[s] ELSE other[s]]

-----------------------------------------------------------------------------
(* Paths, among the files and directories there are.                       *)
Up == ".."

Parts(path) == IF path.absolute THEN path.parts ELSE Cwd \o path.parts
Place(path) == Resolved(Parts(path))

IsBare(path) == ~path.absolute /\ Len(path.parts) = 1

\* The system finds something at the end of a path whose parts it can all pass.
IsThere(parts, files, dirs) ==
  /\ \A n \in 0 .. Len(parts) - 1 : Resolved(SubSeq(parts, 1, n)) \in dirs
  /\ Resolved(parts) \in files \union dirs

\* Mutant: a path is made absolute, but links in it are not followed.
Absolute(path, files, dirs) == At0(Parts(path))

\* canonicalize_or_parent: a path whose directory is not there stays as it is.
Canonical(path, files, dirs) ==
  LET parts == Parts(path)
  IN  CASE IsThere(parts, files, dirs) -> At0(Resolved(parts))
        [] ~IsThere(parts, files, dirs) /\ IsBare(path) -> At0(parts)
        [] ~IsThere(parts, files, dirs) /\ ~IsBare(path)
             /\ IsThere(Front(parts), files, dirs) /\ Last(parts) # Up ->
             At0(Append(Resolved(Front(parts)), Last(parts)))
        [] OTHER -> path

\* enforce_root.
IsAllowed(path, roots, files, dirs) ==
  LET canonical == Canonical(path, files, dirs)
  IN  \/ roots = <<>>
      \/ \E i \in DOMAIN roots :
           LET root == Canonical(roots[i], files, dirs)
           IN  root.absolute = canonical.absolute /\ IsPrefix(root.parts, canonical.parts)

\* The last part is a link, or "..".
Elsewhere(parts) == Resolved(parts) # Append(Resolved(Front(parts)), Last(parts))

\* create_dir_all: each directory a path passes, up to a file or a link that leads to none.
Stops(parts, files, dirs) ==
  /\ Resolved(parts) \notin dirs
  /\ Resolved(parts) \in files \/ (Last(parts) # Up /\ Elsewhere(parts))
WithParents(parts, files, dirs) ==
  dirs \union {Resolved(SubSeq(parts, 1, n)) : n \in
    {m \in 1 .. Len(parts) - 1 : \A k \in 1 .. m : ~Stops(SubSeq(parts, 1, k), files, dirs)}}

\* fs::write: into a file that is there, or a new one in a directory that is.
TakesBytes(parts, dirs) ==
  /\ IsThere(Front(parts), {}, dirs)
  /\ Resolved(parts) \notin dirs /\ Front(Resolved(parts)) \in dirs

=============================================================================
