--------------------------- MODULE RuntimeSelection ---------------------------
(***************************************************************************)
(* What a process is to be (internal/runtimecfg): the roles and the          *)
(* capabilities that two environment variables name.                         *)
(*                                                                         *)
(* A text is what the separators leave of it, each word trimmed and in lower   *)
(* case: the roles are words between commas, the capabilities are groups       *)
(* between semicolons, each with the role before its colon and the words       *)
(* between commas and bars.  The code keeps words in order; they are sets here. *)
(* An error is the empty set.                                               *)
(***************************************************************************)
EXTENDS Integers, FiniteSets, Sequences

Known == {"rebff", "storage", "streaming", "websocket"}

\* `allowed`, and `defaults` as well: they list the same.
Supported ==
    [rebff |-> {"oidc", "session", "token-refresh", "csrf", "user-context", "api-proxy",
                "coarse-authz", "audit", "trace-propagation"},
     storage |-> {"upload", "download", "multipart", "presign", "metadata", "audit"},
     streaming |-> {"playback", "manifest", "token", "origin-select", "audit"},
     websocket |-> {"connect", "publish", "subscribe", "presence", "heartbeat", "audit"}]

NoColon == "no colon"
BlankGroup == [role |-> NoColon, words |-> <<"">>]
RoleTexts == Seq(STRING) \ {<<>>}
CapabilityTexts == Seq([role : STRING, words : Seq(STRING)]) \ {<<>>}

Words(words) == {words[i] : i \in DOMAIN words}

ParseRoles(raw) ==
    IF raw = <<"">> THEN {"rebff"} ELSE IF Words(raw) \subseteq Known THEN Words(raw) ELSE {}

\* A mutant: a word that is no capability of the role is skipped.
parseCapListLax(role, words) == Words(words) \cap Supported[role]

parseCapList(role, words) ==
    IF Words(words) \ {""} \subseteq Supported[role] THEN Words(words) \ {""} ELSE {}

\* A group that is blank is skipped.
GroupAccepted(roles, group) ==
    group = BlankGroup \/ (group.role \in roles /\ parseCapList(group.role, group.words) # {})

\* Of several groups for a role the last one counts.
LastGroup(role, raw) ==
    {i \in DOMAIN raw : raw[i].role = role /\ \A j \in DOMAIN raw : raw[j].role = role => j <= i}

\* The capabilities of each role.
ParseCapabilities(roles, raw) ==
    IF raw = <<BlankGroup>> THEN [role \in roles |-> Supported[role]]
    ELSE IF Cardinality(roles) = 1 /\ \A i \in DOMAIN raw : raw[i].role = NoColon
         THEN \* a semicolon is part of a word here
              [role \in roles |-> IF Len(raw) = 1 THEN parseCapList(role, raw[1].words) ELSE {}]
    ELSE IF \A i \in DOMAIN raw : GroupAccepted(roles, raw[i])
         THEN [role \in roles |->
                 IF \E i \in DOMAIN raw : raw[i].role = role
                 THEN UNION {parseCapList(role, raw[i].words) : i \in LastGroup(role, raw)}
                 ELSE Supported[role]]
    ELSE [role \in roles |-> {}]

Selection(roleText, capabilityText) ==
    [roles |-> ParseRoles(roleText),
     capabilities |-> ParseCapabilities(ParseRoles(roleText), capabilityText)]

\* Validate, after the errors of ParseRoles and ParseCapabilities.
ValidSelection(s) ==
    /\ s.roles # {} /\ s.roles \subseteq Known
    /\ \A role \in s.roles :
         s.capabilities[role] # {} /\ s.capabilities[role] \subseteq Supported[role]
    /\ DOMAIN s.capabilities \subseteq s.roles
-----------------------------------------------------------------------------
\* A group is about the role before its colon, or without one about the only role.
About(group, role, roles) == group.role = role \/ (group.role = NoColon /\ roles = {role})

\* What an operator wrote for a role.
WrittenFor(role, roles, raw) ==
    UNION {Words(raw[i].words) \ {""} : i \in {i \in DOMAIN raw : About(raw[i], role, roles)}}

\* Everything an operator wrote is understood: each role is one of the process, and
\* each capability one that its role has.
Understood(roles, roleText, raw) ==
    /\ roleText # <<"">> => Words(roleText) = roles
    /\ \A i \in DOMAIN raw :
         \/ raw[i] = BlankGroup
         \/ \E role \in roles :
              About(raw[i], role, roles) /\ Words(raw[i].words) \ {""} \subseteq Supported[role]
=============================================================================
