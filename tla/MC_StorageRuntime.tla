-------------------------- MODULE MC_StorageRuntime --------------------------
(***************************************************************************)
(* Values for the constants of StorageRuntime: every combination of signer, *)
(* providers, policy and workload authentication, with no target, a         *)
(* writable one, or a writable and a read-only one; and every pair of texts  *)
(* for the roles and the capabilities.  Only the middle one of the default    *)
(* lifetimes is valid.                                                      *)
(***************************************************************************)
EXTENDS StorageRuntime

MCTargets == {"asset", "archive"}
MCBuckets == {"assets", "archives"}
MCProviders == {Default, "other"}

Asset(p) == [provider |-> p, bucket |-> "assets", readOnly |-> FALSE]
Archive(p) == [provider |-> p, bucket |-> "archives", readOnly |-> TRUE]

MCTables ==
    {[t \in {} |-> Asset(Default)]}
      \cup {[t \in {"asset"} |-> Asset(p)] : p \in MCProviders}
      \cup {[t \in MCTargets |-> IF t = "asset" THEN Asset(p) ELSE Archive(q)] :
              p, q \in MCProviders}

Flat(words) == [role |-> NoColon, words |-> words]
Group(role, words) == [role |-> role, words |-> words]

\* Blank, repeated, unknown, missing and mixed words.
MCRoleTexts ==
    {<<"">>, <<"storage">>, <<"storage", "storage">>, <<"storage", "">>, <<"other">>,
     <<"rebff">>, <<"rebff", "storage">>, <<"storage", "streaming">>, <<"websocket">>}
MCCapabilityTexts ==
    {<<BlankGroup>>, <<BlankGroup, BlankGroup>>, <<Flat(<<"upload", "", "upload">>)>>,
     <<Flat(<<"audit">>)>>, <<Flat(<<"upload">>), Flat(<<"download">>)>>, <<Flat(<<"connect">>)>>,
     <<Flat(<<"", "">>)>>, <<Flat(<<"upload", "connect">>)>>,
     <<Group("storage", <<"upload", "audit">>)>>, <<Group("storage", <<"">>)>>,
     <<Group("storage", <<"upload", "token">>)>>,
     <<Group("storage", <<"upload">>), BlankGroup, Group("streaming", <<"token">>)>>,
     <<Group("storage", <<"upload">>), Group("storage", <<"download">>)>>,
     <<Group("storage", <<"upload">>), Flat(<<"download">>)>>,
     <<Group("rebff", <<"oidc">>)>>, <<Group("", <<"upload">>)>>}

\* The storage role with and without its operations, beside a role of stubs.
MCSettings ==
    [roles : {<<"storage", "streaming">>},
     capabilities : {<<BlankGroup>>, <<Group("storage", <<"audit">>)>>},
     signer : BOOLEAN, providers : SUBSET MCProviders, targets : MCTables,
     policy : BOOLEAN, mode : {"disabled", "oidc"}, required : BOOLEAN,
     defaultTTL : {0, 12, 36}, maxTTL : {24}]
    \cup
    [roles : MCRoleTexts, capabilities : MCCapabilityTexts,
     signer : {TRUE}, providers : {{}}, targets : {[t \in {} |-> Asset(Default)]},
     policy : {FALSE}, mode : {"disabled"}, required : {FALSE},
     defaultTTL : {12}, maxTTL : {24}]

\* 43 seconds wrap to 4 nanoseconds, 11 and 20 to negative durations.
MCSeconds == {-1, 0, 1, 2, 3, 11, 20, 43}

P(n, e) == [number |-> n, etag |-> e]
MCPartLists ==
    {<<>>, <<P(1, "e")>>, <<P(1, "")>>, <<P(0, "e")>>, <<P(3, "e")>>,
     <<P(2, "e"), P(1, "e")>>, <<P(1, "e"), P(1, "f")>>,
     <<P(1, "e"), P(2, "e"), P(2, "e")>>}
=============================================================================
