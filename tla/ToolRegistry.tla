---------------------------- MODULE ToolRegistry ----------------------------
(***************************************************************************)
(* The tools of an agent (tools/registry.py) and the names the model knows *)
(* them by (tools/name_mapping.py).  A name the provider does not allow is *)
(* sanitized; when the result is taken, a suffix made of a hash of the     *)
(* name tells the two apart.  A call of the model is decoded where the     *)
(* ReAct loop takes it over (core/react_loop.py) and looked up where it is *)
(* executed (tools/runtime.py), which decodes once more.                   *)
(***************************************************************************)
EXTENDS Integers, Sequences

CONSTANTS ToolNames,        \* internal names
          Sanitized(_),     \* the sanitized form of a name
          Suffixed(_),      \* the form with the hash suffix
          ToolSources,      \* plugins that register tools
          MaxRegistrations

ASSUME RegistryAssumption == "" \notin ToolNames /\ MaxRegistrations \in Nat

VARIABLES tools,      \* the registry: the source of each registered tool
          encoded,    \* the model's name of each internal name
          decoded,    \* the internal name of each of the model's names
          frozen, schemaVersion, registrations,
          called      \* the tool the model meant and the one that was found

registryVars == <<tools, encoded, decoded, frozen, schemaVersion, registrations, called>>

NoCall == [meant |-> "", found |-> ""]

RegistryInit == /\ tools = <<>> /\ encoded = <<>> /\ decoded = <<>> /\ frozen = FALSE
                /\ schemaVersion = 0 /\ registrations = <<>> /\ called = NoCall

\* For a mutant: the suffix is left out.
AliasPlain(name) == IF name \in DOMAIN encoded THEN encoded[name] ELSE Sanitized(name)

\* A name keeps the alias it has; an alias keeps its owner.
Alias(name) == IF name \in DOMAIN encoded THEN encoded[name]
               ELSE IF Sanitized(name) \in DOMAIN decoded /\ decoded[Sanitized(name)] # name THEN Suffixed(name)
               ELSE Sanitized(name)

\* A dict in which a key is set.
With(dict, key, value) == [k \in DOMAIN dict \cup {key} |-> IF k = key THEN value ELSE dict[k]]

Decode(name) == IF name \in DOMAIN decoded THEN decoded[name] ELSE name

\* A tool of the same name is replaced.
DoRegister(name, source) ==
    /\ Len(registrations) < MaxRegistrations
    /\ tools' = With(tools, name, source)
    /\ encoded' = With(encoded, name, Alias(name))
    /\ decoded' = IF name \in DOMAIN encoded THEN decoded ELSE With(decoded, Alias(name), name)
    /\ schemaVersion' = schemaVersion + 1
    /\ registrations' = Append(registrations, [name |-> name, version |-> schemaVersion + 1, late |-> frozen])

\* The tools of the plugins, before the agent is ready.
Register(name, source) == /\ ~frozen
                          /\ DoRegister(name, source)
                          /\ UNCHANGED <<frozen, called>>

Freeze == /\ ~frozen
          /\ frozen' = TRUE
          /\ UNCHANGED <<tools, encoded, decoded, schemaVersion, registrations, called>>

\* What a plugin finds out at the start of a run; again at each start.
RegisterLate(name, source) == /\ frozen
                              /\ DoRegister(name, source)
                              /\ UNCHANGED <<frozen, called>>

ClearTools == /\ tools # <<>>
              /\ tools' = <<>> /\ encoded' = <<>> /\ decoded' = <<>>
              /\ schemaVersion' = 0 /\ registrations' = <<>> /\ called' = NoCall
              /\ UNCHANGED frozen

\* The model calls a tool by the name it was shown.
ModelCalls(name) ==
    /\ frozen /\ name \in DOMAIN tools
    /\ called' = [meant |-> name, found |-> Decode(Decode(encoded[name]))]
    /\ UNCHANGED <<tools, encoded, decoded, frozen, schemaVersion, registrations>>

RegistryNext == \/ Freeze \/ ClearTools
                \/ \E n \in ToolNames : \/ ModelCalls(n)
                                        \/ \E s \in ToolSources : Register(n, s) \/ RegisterLate(n, s)

RegistrySpec == RegistryInit /\ [][RegistryNext]_registryVars

\* The types of the variables.
RegistryTypeOK == /\ DOMAIN tools \subseteq ToolNames /\ DOMAIN encoded \subseteq ToolNames
                  /\ frozen \in BOOLEAN
                  /\ schemaVersion \in 0..MaxRegistrations
                  /\ called.meant \in ToolNames \cup {""}

\* The names shown to the model are one for each tool: each leads back to
\* its tool whatever the order of registration, and the registration log
\* tells the versions in order.
NamesLeadBack ==
    /\ DOMAIN encoded = DOMAIN tools
    /\ \A n \in DOMAIN tools : Decode(encoded[n]) = n
    /\ \A i \in DOMAIN registrations : registrations[i].version = i
    /\ schemaVersion = Len(registrations)

\* No two names have one form, but for the sanitized one.
SuffixesTellApart ==
    \A m, n \in ToolNames : /\ Suffixed(m) = Suffixed(n) => m = n
                            /\ Suffixed(m) # Sanitized(n)

\* No form of a name is the name of another tool.
FormsAreOwn ==
    \A m, n \in ToolNames : n \in {Sanitized(m), Suffixed(m)} => m = n

\* A call executes the tool whose name the model was shown.  It does when no
\* tool has the sanitized name of another; when one has, its calls are
\* decoded twice and execute the other one.
CalledIsMeant == called.found = called.meant
=============================================================================
