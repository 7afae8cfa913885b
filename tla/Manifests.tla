----------------------------- MODULE Manifests ------------------------------
(***************************************************************************)
(* The manifests of stdio extensions (sohara-runtime stdio_extensions.rs,  *)
(* sohara-core registry.rs): those of the trusted path are loaded first,   *)
(* then those the user names, each validated against what is registered by *)
(* then and registered, registration after registration.                   *)
(*                                                                         *)
(* A registration is a point (a kind of step, "trigger", "state_store",    *)
(* "event_bus") and a type; a manifest lists its steps before the others.  *)
(***************************************************************************)
EXTENDS Naturals, Sequences, FiniteSets, SequencesExt

CONSTANTS
  BuiltinSteps,  \* registrations the program itself makes
  Reserved       \* types whose name starts with builtin-

VARIABLES
  registry,  \* registration -> name of the manifest it is from ("sohara": none)
  pending    \* manifests still to be loaded, with whether their path is trusted

ManifestFiles == [name : STRING, builtin : BOOLEAN, protocol : BOOLEAN, regs : Seq(STRING \X STRING)]

\* validate_builtin_prefixes
ReservedFor(m, trusted) ==
  (\E i \in DOMAIN m.regs : m.regs[i][2] \in Reserved) => trusted /\ m.builtin

\* Mutant of validate_manifest: only the manifest itself is searched for duplicates.
validate_alone(m, trusted) ==
  /\ m.builtin => trusted
  /\ m.protocol
  /\ m.regs # <<>>
  /\ ReservedFor(m, trusted)
  /\ IsInjective(m.regs)

\* The manifest is accepted: its protocol is the host's, it registers something,
\* nothing twice and nothing that is registered.
validate_manifest(m, trusted) ==
  /\ m.builtin => trusted
  /\ m.protocol
  /\ m.regs # <<>>
  /\ ReservedFor(m, trusted)
  /\ IsInjective(m.regs)
  /\ \A i \in DOMAIN m.regs : m.regs[i] \notin DOMAIN registry

\* The registrations of a manifest up to the first control step, which is an error.
Supported(m) == \A i \in DOMAIN m.regs : m.regs[i][1] # "control"
Registered(m) ==
  LET regs == {m.regs[i] : i \in {i \in DOMAIN m.regs : \A k \in 1..i : m.regs[k][1] # "control"}}
  IN [r \in DOMAIN registry \cup regs |-> IF r \in regs THEN m.name ELSE registry[r]]

\* Manifests of the trusted path first.
Pending(trusted, user) ==
  [i \in 1..Len(trusted) |-> [manifest |-> trusted[i], trusted |-> TRUE]]
  \o [i \in 1..Len(user) |-> [manifest |-> user[i], trusted |-> FALSE]]
=============================================================================
