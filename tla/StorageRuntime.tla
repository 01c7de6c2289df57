---------------------------- MODULE StorageRuntime ----------------------------
(***************************************************************************)
(* The process without the rebff role (internal/roleruntime/server.go): its *)
(* roles and capabilities are selected and its configuration validated and   *)
(* wired once (internal/app), the readiness endpoint judges the wiring, and  *)
(* every storage route then runs                                            *)
(*                                                                         *)
(*   decode and validate -> authorize -> find the signer -> call it -> reply. *)
(*                                                                         *)
(* The configuration is never written after boot and a handler shares       *)
(* nothing with another one, so one request at a time shows everything.     *)
(* Names are trimmed by the code wherever they are read; here they are       *)
(* already trimmed.  A time.Duration is a signed integer of DurationBits     *)
(* bits counting nanoseconds, and the product that makes one may wrap.       *)
(***************************************************************************)
EXTENDS RuntimeSelection

CONSTANTS
    Targets,       \* names an operator may give to storage targets
    Buckets,       \* the buckets behind the targets
    Providers,     \* names an operator may give to storage providers
    Settings,      \* the configurations an operator may start the process with
    Seconds,       \* the values of expires_in_seconds a client may send
    PartLists,     \* the lists of completed parts a client may send
    Implements,    \* the optional interfaces that every signer implements
    MaxPart,       \* 10000: the largest part number, and the longest list
    Second,        \* time.Second, in nanoseconds
    DurationBits   \* 64

Default == "default"
NoSigner == "no signer"
TheSigner == "the single signer"
Capabilities == {"upload", "download", "presign", "multipart", "metadata"}
TargetTables ==
    UNION {[D -> [provider : Providers, bucket : Buckets, readOnly : BOOLEAN]] :
             D \in SUBSET Targets}
AllSettings ==
    [roles : RoleTexts, capabilities : CapabilityTexts,
     signer : BOOLEAN, providers : SUBSET Providers, targets : TargetTables,
     policy : BOOLEAN, mode : {"disabled", "oidc"}, required : BOOLEAN,
     defaultTTL : Int, maxTTL : Int]

ASSUME StorageAssumption ==
    /\ Default \in Providers /\ NoSigner \notin Providers
    /\ Settings \subseteq AllSettings
    /\ Seconds \subseteq Int
    /\ Implements \subseteq {"multipart", "metadata"}
    /\ MaxPart \in Nat
    /\ Second \in Nat \ {0}
    /\ DurationBits \in Nat \ {0}

VARIABLES
    cfg,      \* the configuration, fixed at boot
    up,       \* "starting"; "running"; "rebff", the process is that of Gateway;
              \* "refused", RunWith returned an error
    sel,      \* cfg.Runtime, the roles and capabilities of a process that started
    pc,       \* where the request is
    route,    \* the route that received it
    req,      \* the validated request: target, bucket and ttl
    allowed,  \* history: the target and action the access policy allowed
    call,     \* history: what the signer was asked for
    intent,   \* the expectations of an upload verification
    meta,     \* the object metadata the provider answered with
    reply     \* the reason given in the response

vars == <<cfg, up, sel, pc, route, req, allowed, call, intent, meta, reply>>

NoSelection == [roles |-> {}, capabilities |-> <<>>]
NoReq == [target |-> "", bucket |-> "", ttl |-> 0]
NoDecision == <<"", "none">>
NoCall == [signer |-> NoSigner, effect |-> "none", bucket |-> "", ttl |-> 0]
-----------------------------------------------------------------------------
(* Boot *)

\* A mutant: targets without an access policy are accepted.
ValidateNoPolicy(c) ==
    /\ c.defaultTTL > 0 /\ c.maxTTL > 0 /\ c.defaultTTL <= c.maxTTL
    /\ c.providers # {} =>
         \A t \in DOMAIN c.targets : c.targets[t].provider \in c.providers
    /\ c.required => c.mode # "disabled"

\* The storage part of Config.Validate.
Validate(c) ==
    /\ c.defaultTTL > 0 /\ c.maxTTL > 0 /\ c.defaultTTL <= c.maxTTL
    /\ c.providers # {} =>
         \A t \in DOMAIN c.targets : c.targets[t].provider \in c.providers
    /\ DOMAIN c.targets # {} => c.policy
    /\ c.required => c.mode # "disabled"

HasRole(role) == role \in sel.roles

\* The capabilities that Run registers routes for.
Enabled(role) == IF HasRole(role) THEN sel.capabilities[role] ELSE {}

\* The verifier that RunWith builds for the storage role.
WorkloadVerifier == cfg.mode = "oidc"

\* storageSignerForTarget: the provider whose signer serves a target, if any.
SignerFor(t) ==
    IF cfg.providers = {} THEN IF cfg.signer THEN TheSigner ELSE NoSigner
    ELSE LET p == IF DOMAIN cfg.targets = {} THEN Default ELSE cfg.targets[t].provider
         IN  IF p \in cfg.providers THEN p ELSE NoSigner

storageProviderRequired == Enabled("storage") \cap Capabilities # {}

\* A mutant: without targets any provider will do.
AnyProviderReady ==
    /\ IF cfg.providers = {} THEN cfg.signer
       ELSE \A t \in DOMAIN cfg.targets : cfg.targets[t].provider \in cfg.providers
    /\ Enabled("storage") \cap {"multipart", "metadata"} \subseteq Implements

validateStorageProvidersReady ==
    /\ IF cfg.providers = {} THEN cfg.signer
       ELSE IF DOMAIN cfg.targets = {} THEN Default \in cfg.providers
       ELSE \A t \in DOMAIN cfg.targets : cfg.targets[t].provider \in cfg.providers
    /\ Enabled("storage") \cap {"multipart", "metadata"} \subseteq Implements

\* GET /health/ready answers 200.
Ready ==
    /\ up = "running"
    /\ HasRole("storage") =>
         /\ cfg.required => WorkloadVerifier
         /\ DOMAIN cfg.targets # {} => cfg.policy
         /\ storageProviderRequired => validateStorageProvidersReady
-----------------------------------------------------------------------------
(* Routes.  `action` and `write` are what the handler passes to               *)
(* authorizeStorage, `needs` the optional interface it asserts, `effect` what  *)
(* it asks the signer for, `extra` the checks of its own that it makes.        *)

Handler(cap, action, write, needs, effect, extra) ==
    [cap |-> cap, action |-> action, write |-> write, needs |-> needs,
     effect |-> effect, extra |-> extra]

Upload == Handler("upload", "storage.upload", TRUE, {}, "put", "none")
IntentUpload == Handler("upload", "storage.upload", TRUE, {}, "put", "intent")
Download == Handler("download", "storage.download", FALSE, {}, "get", "none")
IntentDownload == Handler("download", "storage.download", FALSE, {}, "get", "intent")
\* A mutant: the presign route forgets that an upload writes.
PresignPutUnguarded == Handler("presign", "storage.upload", FALSE, {}, "put", "none")
PresignPut == Handler("presign", "storage.upload", TRUE, {}, "put", "none")
PresignGet == Handler("presign", "storage.download", FALSE, {}, "get", "none")
Initiate ==
    Handler("multipart", "storage.multipart", TRUE, {"multipart"}, "initiate", "none")
Part == Handler("multipart", "storage.multipart", TRUE, {"multipart"}, "part", "part")
Complete ==
    Handler("multipart", "storage.multipart", TRUE, {"multipart"}, "complete", "parts")
Abort == Handler("multipart", "storage.multipart", TRUE, {"multipart"}, "abort", "upload")
Metadata == Handler("metadata", "storage.metadata", FALSE, {"metadata"}, "stat", "none")
Verify == Handler("metadata", "storage.metadata", FALSE, {"metadata"}, "stat", "verify")
Reference ==
    Handler("metadata", "storage.metadata", FALSE, {"metadata"}, "stat", "reference")

Routes == {Upload, IntentUpload, Download, IntentDownload, PresignPut, PresignGet,
           Initiate, Part, Complete, Abort, Metadata, Verify, Reference}
\* A route of the streaming and websocket roles.
Stub == Handler("stub", "none", FALSE, {}, "none", "none")

Timed == {"put", "get", "initiate", "part"}         \* what is signed for a while
Writes == {"put", "initiate", "part", "complete", "abort"}
-----------------------------------------------------------------------------
(* Validation *)

\* Object keys: acceptable; absolute or with ".."; with one backslash; absent.
Keys == {"good", "outside", "backslash", ""}

Wrapped(n) ==
    LET m == n % 2^DurationBits
    IN  IF m < 2^(DurationBits - 1) THEN m ELSE m - 2^DurationBits

\* A client's request for a signature, before validation.
Inputs == [target : Targets \cup {""}, bucket : {"", "given"}, key : Keys, seconds : Seconds]

TTL(in) == IF in.seconds > 0 THEN Wrapped(in.seconds * Second) ELSE cfg.defaultTTL

\* A mutant: only the upper end is checked.
TTLAcceptedBelow(in) == TTL(in) <= cfg.maxTTL
TTLAccepted(in) == TTL(in) > 0 /\ TTL(in) <= cfg.maxTTL

\* validateStorageRequest succeeds.
Accepted(in) ==
    /\ IF DOMAIN cfg.targets # {} THEN in.target \in DOMAIN cfg.targets
       ELSE in.bucket # ""
    /\ in.key = "good"
    /\ TTLAccepted(in)

Validated(in) ==
    [target |-> in.target, ttl |-> TTL(in),
     bucket |-> IF DOMAIN cfg.targets # {} THEN cfg.targets[in.target].bucket
                ELSE in.bucket]

\* validateCompletedParts succeeds; a part is a number and an ETag.
validateCompletedParts(parts) ==
    /\ parts # <<>>
    /\ Len(parts) <= MaxPart
    /\ \A i \in DOMAIN parts : parts[i].number \in 1..MaxPart /\ parts[i].etag # ""
    /\ \A i, j \in DOMAIN parts : parts[i].number = parts[j].number => i = j

\* storagecontract.validateObjectKey: it looks for two backslashes in a row.
validateObjectKey(key) == key \in {"good", "backslash"}

\* What a client may expect of an uploaded object; NoSize: no expectation.
NoSize == -2
Checksums == [alg : {"sha256"}, value : {"", "x", "y"}]
Intents == [size : {NoSize, -1, 0, 1}, type : {"", "png"}, sums : SUBSET Checksums]
NoIntent == [size |-> NoSize, type |-> "", sums |-> {}]

\* A mutant: an expected checksum may be empty.
ValidateSizeOnly(i) == i.size = NoSize \/ i.size >= 0
\* UploadVerificationIntent.Validate, past the target and the key.
ValidateIntent(i) ==
    /\ i.size = NoSize \/ i.size >= 0
    /\ \A e \in i.sums : e.value # ""

\* What a provider may say about an object.  Entries of the checksum map that
\* differ only in the spelling of the algorithm have the same alg here.
Metas == [exists : BOOLEAN, key : {"good", ""}, size : {-1, 0, 1}, type : {"", "png"},
          sums : SUBSET [alg : {"sha256"}, value : {"x", "y"}]]
NoMeta == [exists |-> FALSE, key |-> "", size |-> 0, type |-> "", sums |-> {}]

\* The values the loop over metadata.Checksums may stop at, "" if it finds none.
Found(m, e) ==
    LET same == {s.value : s \in {s \in m.sums : s.alg = e.alg}}
    IN  IF same = {} THEN {""} ELSE same

\* VerifyUpload, with `actual` the checksum that the loop found for each
\* expected one: the map is visited in no particular order.
VerifyUpload(i, m, actual) ==
    /\ m.exists
    /\ i.size # NoSize => m.size = i.size
    /\ i.type # "" => m.type = i.type
    /\ \A e \in i.sums : actual[e] = e.value
-----------------------------------------------------------------------------
Init ==
    /\ cfg \in Settings
    /\ up = "starting"
    /\ sel = NoSelection
    /\ pc = "idle"
    /\ route = Stub
    /\ req = NoReq
    /\ allowed = NoDecision
    /\ call = NoCall
    /\ intent = NoIntent
    /\ meta = NoMeta
    /\ reply = "none"

Selected == Selection(cfg.roles, cfg.capabilities)

\* LoadConfig succeeds, and RunWith goes on with the roles.
Loaded == ValidSelection(Selected) /\ Validate(cfg)

\* RunWith loads the configuration and wires it.  Discovery, for the verifier or for the
\* rebff role, and the store of that role may fail and end the process too.
Boot ==
    /\ up = "starting"
    /\ \/ /\ Loaded /\ "rebff" \notin Selected.roles
          /\ up' = "running" /\ sel' = Selected
       \/ /\ Loaded /\ Selected.roles = {"rebff"}
          /\ up' = "rebff" /\ sel' = Selected
       \/ /\ \/ ~Loaded \/ "rebff" \in Selected.roles
             \/ "storage" \in Selected.roles /\ WorkloadVerifier
          /\ up' = "refused" /\ UNCHANGED sel
    /\ UNCHANGED <<cfg, pc, route, req, allowed, call, intent, meta, reply>>

Reply(reason) == pc' = "replied" /\ reply' = reason

\* What the handler passes on: completing, aborting and verifying take no
\* lifetime from the client, verifying takes no bucket.
Asked(h, in) ==
    [in EXCEPT !.seconds = IF h.extra \in {"parts", "upload", "verify"} THEN 0 ELSE @,
               !.bucket = IF h.extra = "verify" THEN "" ELSE @]

\* The handler decodes its input and validates it.  A verification is validated
\* twice: the intent's own rules, then those of every storage request.
Decode(h) ==
    /\ up = "running" /\ pc = "idle"
    /\ h.cap \in Enabled("storage")
    /\ route' = h
    /\ \/ Reply("invalid_request") /\ UNCHANGED <<req, intent>>
       \/ \E in \in Inputs :
            /\ ~Accepted(Asked(h, in))
            /\ Reply("invalid_request")
            /\ UNCHANGED <<req, intent>>
       \/ \E in \in Inputs :
            /\ Accepted(Asked(h, in))
            /\ req' = Validated(Asked(h, in))
            /\ pc' = "checking"
            /\ UNCHANGED <<intent, reply>>
    /\ UNCHANGED <<cfg, up, sel, allowed, call, meta>>

Rejects == Reply("invalid_request") /\ UNCHANGED intent
Passes == pc' = "checked" /\ UNCHANGED <<intent, reply>>

\* The checks that some handlers make of their own before authorization.
Check ==
    /\ pc = "checking"
    /\ CASE route.extra = "intent" -> IF req.target = "" THEN Rejects ELSE Passes
         [] route.extra = "upload" -> Rejects \/ Passes
         [] route.extra = "part" ->
              \E id \in {"", "u"}, n \in {0, 1, MaxPart, MaxPart + 1} :
                IF id # "" /\ n \in 1..MaxPart THEN Passes ELSE Rejects
         [] route.extra = "parts" ->
              \E id \in {"", "u"}, parts \in PartLists :
                IF id # "" /\ validateCompletedParts(parts) THEN Passes ELSE Rejects
         [] route.extra = "verify" ->
              \E i \in Intents :
                IF req.target # "" /\ ValidateIntent(i)
                THEN intent' = i /\ pc' = "checked" /\ UNCHANGED reply
                ELSE Rejects
         [] OTHER -> Passes
    /\ UNCHANGED <<cfg, up, sel, route, req, allowed, call, meta>>

\* authorizeStorage for a caller whose token and actor header are as given, and
\* an access policy that decides as given: the reason of a refusal, or "allow".
authorizeStorage(token, actor, decision) ==
    IF DOMAIN cfg.targets = {} THEN "allow"
    ELSE IF route.write /\ cfg.targets[req.target].readOnly THEN "read_only"
    ELSE IF ~cfg.policy THEN "access_policy_missing"
    ELSE IF WorkloadVerifier /\ token # "valid" THEN "unauthorized"
    ELSE IF ~WorkloadVerifier /\ cfg.required THEN "workload_auth_unavailable"
    ELSE IF actor = "" THEN "unauthorized"
    ELSE decision

Authorize ==
    /\ pc = "checked"
    /\ \E token \in {"none", "invalid", "valid"}, actor \in {"", "someone"},
          decision \in {"allow", "denied", "access_policy_error"} :
         LET outcome == authorizeStorage(token, actor, decision)
         IN  IF outcome = "allow"
             THEN /\ pc' = "authorized"
                  /\ allowed' = IF DOMAIN cfg.targets = {} THEN NoDecision
                                ELSE <<req.target, route.action>>
                  /\ UNCHANGED reply
             ELSE Reply(outcome) /\ UNCHANGED allowed
    /\ UNCHANGED <<cfg, up, sel, route, req, call, intent, meta>>

\* The signer is looked up and its interfaces asserted before it is called.
Sign ==
    /\ pc = "authorized"
    /\ LET s == SignerFor(req.target)
       IN  IF s = NoSigner \/ ~(route.needs \subseteq Implements)
           THEN Reply("provider_not_configured") /\ UNCHANGED call
           ELSE /\ pc' = "called"
                /\ call' = [signer |-> s, effect |-> route.effect,
                            bucket |-> req.bucket, ttl |-> req.ttl]
                /\ UNCHANGED reply
    /\ UNCHANGED <<cfg, up, sel, route, req, allowed, intent, meta>>

SignerFails ==
    /\ pc = "called"
    /\ Reply("storage_provider_error")
    /\ UNCHANGED <<cfg, up, sel, route, req, allowed, call, intent, meta>>

\* The signer answers; the handlers on metadata judge the answer.
SignerAnswers ==
    /\ pc = "called"
    /\ CASE route.extra = "verify" ->
              \E m \in Metas :
                \E actual \in [intent.sums -> {"", "x", "y"}] :
                  /\ \A e \in intent.sums : actual[e] \in Found(m, e)
                  /\ meta' = m
                  /\ Reply(IF VerifyUpload(intent, m, actual) THEN "verified"
                           ELSE "mismatch")
         [] route.extra = "reference" ->
              \E m \in Metas :
                /\ meta' = m
                /\ Reply(IF req.target # "" /\ validateObjectKey(m.key) /\ m.size >= 0
                         THEN "ok" ELSE "storage_provider_error")
         [] OTHER -> Reply("ok") /\ UNCHANGED meta
    /\ UNCHANGED <<cfg, up, sel, route, req, allowed, call, intent>>

\* A route of a role without providers.
registerUnavailableCapability ==
    /\ up = "running" /\ pc = "idle"
    /\ \E role \in {"streaming", "websocket"} : Enabled(role) \ {"audit"} # {}
    /\ route' = Stub
    /\ Reply("provider_not_configured")
    /\ UNCHANGED <<cfg, up, sel, req, allowed, call, intent, meta>>

\* The response is written; nothing of the request is left.
Finish ==
    /\ pc = "replied"
    /\ pc' = "idle"
    /\ route' = Stub
    /\ req' = NoReq /\ allowed' = NoDecision /\ call' = NoCall
    /\ intent' = NoIntent /\ meta' = NoMeta /\ reply' = "none"
    /\ UNCHANGED <<cfg, up, sel>>

Next ==
    \/ Boot
    \/ \E h \in Routes : Decode(h)
    \/ Check \/ Authorize \/ Sign \/ SignerFails \/ SignerAnswers
    \/ registerUnavailableCapability
    \/ Finish

Spec == Init /\ [][Next]_vars
-----------------------------------------------------------------------------
\* The process that starts is the one that was asked for: it has exactly the roles
\* named, rebff alone; nothing that was written is ignored as unknown or misplaced; and
\* a role has only capabilities written for it, or all if none was (ParseRoles,
\* ParseCapabilities, Validate, RunWith).  Of two groups for a role the first is lost.
SelectionFaithful ==
    up \in {"running", "rebff"} =>
      /\ Understood(sel.roles, cfg.roles, cfg.capabilities)
      /\ "rebff" \in sel.roles => sel.roles = {"rebff"}
      /\ \A role \in sel.roles :
           LET written == WrittenFor(role, sel.roles, cfg.capabilities)
           IN  /\ sel.capabilities[role] # {}
               /\ IF written = {} THEN sel.capabilities[role] = Supported[role]
                  ELSE sel.capabilities[role] \subseteq written

\* The action that an operator grants for each thing a signer can be asked for.
ActionFor(effect) ==
    CASE effect = "put" -> "storage.upload"
      [] effect = "get" -> "storage.download"
      [] effect = "stat" -> "storage.metadata"
      [] OTHER -> "storage.multipart"

\* Where targets are configured, a signer is only ever called for a target whose
\* access policy allowed that very kind of operation in this request, on that
\* target's provider and bucket, and never to change a read-only target
\* (validateStorageRequest, authorizeStorage and storageSignerForTarget resolve
\* the target's name three times).
CallAuthorized ==
    call # NoCall /\ DOMAIN cfg.targets # {} =>
      /\ req.target \in DOMAIN cfg.targets
      /\ allowed = <<req.target, ActionFor(call.effect)>>
      /\ call.bucket = cfg.targets[req.target].bucket
      /\ cfg.providers # {} => call.signer = cfg.targets[req.target].provider
      /\ call.effect \in Writes => ~cfg.targets[req.target].readOnly

\* What a signer is asked to sign is limited to a positive time within the
\* configured maximum, also when the product of the client's seconds and
\* time.Second wraps (validateStorageRequest).
GrantWithinMax ==
    call.effect \in Timed => call.ttl > 0 /\ call.ttl <= cfg.maxTTL

\* While the readiness endpoint says ready, no storage route turns a request
\* away because a provider is missing: readiness looks at providers by target,
\* the routes look them up by request (validateStorageProvidersReady).
ReadyServes ==
    Ready /\ route.cap \in Capabilities => reply # "provider_not_configured"

\* A process that started has the collaborators its handlers guard against
\* missing: Config.Validate refuses every configuration that would make
\* authorizeStorage answer 503 for want of one.
ConfigSuffices == reply \notin {"access_policy_missing", "workload_auth_unavailable"}

\* "verified" is only said of an object that exists and has every property the
\* client stated, each expected checksum among those the provider reported
\* (VerifyUpload and the validation before it).
VerifiedSound ==
    reply = "verified" =>
      /\ meta.exists
      /\ intent.size # NoSize => meta.size = intent.size
      /\ intent.type # "" => meta.type = intent.type
      /\ intent.sums \subseteq meta.sums
=============================================================================
