------------------------------- MODULE Adapter -------------------------------
(***************************************************************************)
(* simkit's adapter manifests: which ones loadAdapter takes, and the       *)
(* environment they give a workload.  An environment is a function from    *)
(* names to values; what of a manifest only describes it (schema, ids,     *)
(* ABI, backend CLI, JSON without unknown fields) is its metadata.         *)
(***************************************************************************)

CONSTANTS
  EnvName,   \* the names that match ^[A-Z_][A-Z0-9_]*$
  NulValue   \* stands for the values with a NUL byte

\* loadAdapter returns no error.
Loads(a) ==
  /\ a.metadata /\ {a.boardEnv} \cup a.clearEnv \subseteq EnvName
  /\ DOMAIN a.profiles # {}
  /\ \A name \in DOMAIN a.profiles :
       /\ name # ""
       /\ \A key \in DOMAIN a.profiles[name] :
            key \in EnvName \ {a.boardEnv} /\ a.profiles[name][key] # NulValue

\* The names that environment deletes from the ambient environment.
Managed(a) ==
  {a.boardEnv} \cup a.clearEnv \cup UNION {DOMAIN a.profiles[name] : name \in DOMAIN a.profiles}

\* Mutant: the keys of unselected profiles stay.
EnvironmentOfSelected(a, base, profile, board) ==
  LET selected == a.profiles[profile]
      kept == DOMAIN base \ ({a.boardEnv} \cup a.clearEnv)
  IN  [key \in kept \cup {a.boardEnv} \cup DOMAIN selected |->
         CASE key \in DOMAIN selected -> selected[key]
           [] key = a.boardEnv /\ key \notin DOMAIN selected -> board
           [] OTHER -> base[key]]

\* environment, for a profile that the manifest has.
Environment(a, base, profile, board) ==
  LET selected == a.profiles[profile]
      kept == DOMAIN base \ Managed(a)
  IN  [key \in kept \cup {a.boardEnv} \cup DOMAIN selected |->
         CASE key \in DOMAIN selected -> selected[key]
           [] key = a.boardEnv /\ key \notin DOMAIN selected -> board
           [] OTHER -> base[key]]
=============================================================================
