------------------------ MODULE StorageRuntime_proofs ------------------------
(***************************************************************************)
(* For every set of configurations, targets and providers, every maximum     *)
(* lifetime and width of a duration: what a signer is asked for was allowed,  *)
(* on the right bucket, for a bounded time; a ready process serves; a started *)
(* process has its collaborators; "verified" is only said of a match.         *)
(***************************************************************************)
EXTENDS StorageRuntime, FiniteSetTheorems, TLAPS

Working == {"checking", "checked", "authorized", "called"}

\* What validation established about the request.
ReqOK ==
    /\ DOMAIN cfg.targets # {} =>
         /\ req.target \in DOMAIN cfg.targets
         /\ req.bucket = cfg.targets[req.target].bucket
    /\ req.ttl > 0 /\ req.ttl <= cfg.maxTTL

\* What authorization added.
AllowedOK ==
    DOMAIN cfg.targets # {} =>
      /\ allowed = <<req.target, route.action>>
      /\ route.write => ~cfg.targets[req.target].readOnly

\* A process that runs was validated; a request under way is the work of an
\* enabled route of such a process and carries what its last step established.
ControlInv ==
    /\ cfg \in Settings
    /\ route \in Routes \cup {Stub}
    /\ pc \in Working \cup {"idle", "replied"}
    /\ up = "running" => Validate(cfg)
    /\ pc # "idle" => up = "running"
    /\ pc = "idle" => reply = "none"
    /\ pc \in Working => route \in Routes /\ route.cap \in Enabled("storage") /\ reply = "none"
    /\ pc \in Working => ReqOK
    /\ pc \in {"authorized", "called"} => AllowedOK

\* The signer is called late in a request.
CallInv ==
    /\ pc \in Working \ {"called"} \/ pc = "idle" => call = NoCall
    /\ CallAuthorized
    /\ GrantWithinMax

\* The expectations of a verification under way are valid ones.
IntentInv ==
    /\ \A e \in intent.sums : e \in Checksums
    /\ pc \in {"checked", "authorized", "called"} /\ route.extra = "verify"
         => ValidateIntent(intent)

\* The route table is consistent: each route asks for the action that its effect
\* calls for, says that it writes if it does, and asserts no interface but the one
\* of its own capability.
LEMMA RouteTable ==
    \A h \in Routes :
      /\ h.action = ActionFor(h.effect)
      /\ h.effect \in Writes => h.write
      /\ h.cap \in Capabilities
      /\ h.needs \subseteq {h.cap} \cap {"multipart", "metadata"}
  <1> DEFINE Consistent(h) ==
        /\ h.action = ActionFor(h.effect)
        /\ h.effect \in Writes => h.write
        /\ h.cap \in Capabilities
        /\ h.needs \subseteq {h.cap} \cap {"multipart", "metadata"}
  <1> USE DEF Handler, ActionFor, Writes, Capabilities
  <1>1. Consistent(Upload) /\ Consistent(IntentUpload) /\ Consistent(PresignPut)
    BY DEF Upload, IntentUpload, PresignPut
  <1>2. Consistent(Download) /\ Consistent(IntentDownload) /\ Consistent(PresignGet)
    BY DEF Download, IntentDownload, PresignGet
  <1>3. Consistent(Initiate) /\ Consistent(Part)
    BY DEF Initiate, Part
  <1>4. Consistent(Complete) /\ Consistent(Abort)
    BY DEF Complete, Abort
  <1>5. Consistent(Metadata) /\ Consistent(Verify) /\ Consistent(Reference)
    BY DEF Metadata, Verify, Reference
  <1> HIDE DEF Consistent
  <1>6. \A h \in Routes : Consistent(h)
    BY <1>1, <1>2, <1>3, <1>4, <1>5 DEF Routes
  <1> QED
    BY <1>6 DEF Consistent

\* The stub is not a storage route.
LEMMA StubFacts == Stub.cap \notin Capabilities /\ Stub.effect \notin Timed
  BY DEF Stub, Handler, Capabilities, Timed

\* Control, validation and authorization.
LEMMA ControlStep ==
    ASSUME ControlInv, [Next]_vars
    PROVE  ControlInv'
  <1> USE DEF ControlInv, Working, ReqOK, AllowedOK, Reply, Enabled, HasRole
  <1>1. CASE Boot
    BY <1>1 DEF Boot, Loaded
  <1>2. ASSUME NEW h \in Routes, Decode(h)
        PROVE  ControlInv'
    <2>1. CASE pc' = "replied"
      BY <1>2, <2>1 DEF Decode
    <2>2. ASSUME NEW in \in Inputs, Accepted(Asked(h, in)), req' = Validated(Asked(h, in)),
                 pc' = "checking", UNCHANGED <<intent, reply>>
          PROVE  ControlInv'
      <3> DEFINE a == Asked(h, in)
      <3>1. /\ DOMAIN cfg.targets # {} => a.target \in DOMAIN cfg.targets
            /\ TTL(a) > 0 /\ TTL(a) <= cfg.maxTTL
        BY <2>2 DEF Accepted, TTLAccepted
      <3>2. /\ req'.target = a.target
            /\ req'.ttl = TTL(a)
            /\ DOMAIN cfg.targets # {} => req'.bucket = cfg.targets[a.target].bucket
        BY <2>2 DEF Validated
      <3>3. ReqOK'
        <4> HIDE DEF a
        <4> QED
          BY <1>2, <3>1, <3>2 DEF Decode
      <3> QED
        BY <1>2, <2>2, <3>3 DEF Decode
    <2> QED
      BY <1>2, <2>1, <2>2 DEF Decode
  <1>3. CASE Check
    <2>1. pc' \in {"checked", "replied"} /\ (pc' = "checked" => reply' = reply)
      BY <1>3 DEF Check, Rejects, Passes
    <2> QED
      BY <1>3, <2>1 DEF Check
  <1>4. CASE Authorize
    <2>1. PICK token \in {"none", "invalid", "valid"}, actor \in {"", "someone"},
               decision \in {"allow", "denied", "access_policy_error"} :
            IF authorizeStorage(token, actor, decision) = "allow"
            THEN /\ pc' = "authorized"
                 /\ allowed' = IF DOMAIN cfg.targets = {} THEN NoDecision
                               ELSE <<req.target, route.action>>
                 /\ UNCHANGED reply
            ELSE Reply(authorizeStorage(token, actor, decision)) /\ UNCHANGED allowed
      BY <1>4 DEF Authorize
    <2>2. CASE authorizeStorage(token, actor, decision) = "allow"
      <3>1. DOMAIN cfg.targets # {} /\ route.write => ~cfg.targets[req.target].readOnly
        BY <2>2 DEF authorizeStorage
      <3> QED
        BY <1>4, <2>1, <2>2, <3>1 DEF Authorize
    <2>3. CASE authorizeStorage(token, actor, decision) # "allow"
      BY <1>4, <2>1, <2>3 DEF Authorize
    <2> QED
      BY <2>2, <2>3
  <1>5. CASE Sign
    BY <1>5 DEF Sign
  <1>6. CASE SignerFails
    BY <1>6 DEF SignerFails
  <1>7. CASE SignerAnswers
    <2>1. pc' = "replied"
      BY <1>7 DEF SignerAnswers
    <2> QED
      BY <1>7, <2>1 DEF SignerAnswers
  <1>8. CASE registerUnavailableCapability
    BY <1>8 DEF registerUnavailableCapability
  <1>9. CASE Finish
    BY <1>9 DEF Finish
  <1>10. CASE UNCHANGED vars
    BY <1>10 DEF vars
  <1> QED
    BY <1>1, <1>2, <1>3, <1>4, <1>5, <1>6, <1>7, <1>8, <1>9, <1>10 DEF Next

\* The call to the signer repeats what validation and authorization established.
LEMMA CallStep ==
    ASSUME ControlInv, CallInv, [Next]_vars
    PROVE  CallInv'
  <1>1. CASE Sign
    <2>1. CASE pc' = "replied" /\ UNCHANGED call
      BY <1>1, <2>1 DEF Sign, CallInv, CallAuthorized, GrantWithinMax, Working
    <2>2. CASE pc' = "called" /\ call' = [signer |-> SignerFor(req.target),
                                          effect |-> route.effect, bucket |-> req.bucket,
                                          ttl |-> req.ttl]
      <3>1. ReqOK /\ AllowedOK /\ route \in Routes
        BY <1>1 DEF Sign, ControlInv, Working
      <3>2. /\ call'.bucket = req.bucket /\ call'.ttl = req.ttl
            /\ call'.effect = route.effect /\ call'.signer = SignerFor(req.target)
            /\ SignerFor(req.target) # NoSigner
        BY <1>1, <2>2 DEF Sign, Reply
      <3>3. cfg.providers # {} /\ DOMAIN cfg.targets # {} =>
              SignerFor(req.target) = cfg.targets[req.target].provider
        BY <3>2 DEF SignerFor
      <3>4. UNCHANGED <<cfg, req, allowed, route>>
        BY <1>1 DEF Sign
      <3>5. CallAuthorized'
        BY <3>1, <3>2, <3>3, <3>4, RouteTable DEF CallAuthorized, ReqOK, AllowedOK
      <3>6. GrantWithinMax'
        BY <3>1, <3>2, <3>4 DEF GrantWithinMax, ReqOK
      <3> QED
        BY <2>2, <3>5, <3>6 DEF CallInv, Working
    <2> QED
      BY <1>1, <2>1, <2>2 DEF Sign, Reply
  <1>2. CASE Finish
    BY <1>2 DEF Finish, CallInv, CallAuthorized, GrantWithinMax, NoCall, Timed
  <1>3. ASSUME NEW h \in Routes, Decode(h)
        PROVE  CallInv'
    <2>1. call = NoCall /\ call' = NoCall
      BY <1>3 DEF Decode, CallInv
    <2> QED
      BY <2>1 DEF CallInv, CallAuthorized, GrantWithinMax, NoCall, Timed
  <1>4. ASSUME Boot \/ Check \/ Authorize \/ registerUnavailableCapability
        PROVE  CallInv'
    <2>1. call = NoCall /\ call' = NoCall
      BY <1>4 DEF Boot, Check, Authorize, registerUnavailableCapability, CallInv, ControlInv, Working,
                  Validate
    <2> QED
      BY <2>1 DEF CallInv, CallAuthorized, GrantWithinMax, NoCall, Timed
  <1>5. ASSUME SignerFails \/ SignerAnswers
        PROVE  CallInv'
    <2>1. pc' = "replied" /\ UNCHANGED <<cfg, req, allowed, call, route>>
      BY <1>5 DEF SignerFails, SignerAnswers, Reply
    <2> QED
      BY <2>1 DEF CallInv, CallAuthorized, GrantWithinMax, Working
  <1>6. CASE UNCHANGED vars
    BY <1>6 DEF vars, CallInv, CallAuthorized, GrantWithinMax
  <1> QED
    BY <1>1, <1>2, <1>3, <1>4, <1>5, <1>6 DEF Next

\* Only Check writes the intent, and only a valid one; the rest of the request
\* keeps it.
LEMMA IntentStep ==
    ASSUME ControlInv, IntentInv, [Next]_vars
    PROVE  IntentInv'
  <1> USE DEF IntentInv
  <1>1. CASE Check
    <2>1. CASE UNCHANGED intent /\ (pc' = "replied" \/ route.extra # "verify")
      BY <1>1, <2>1 DEF Check
    <2>2. ASSUME NEW i \in Intents, ValidateIntent(i), intent' = i
          PROVE  IntentInv'
      <3>1. \A e \in i.sums : e \in Checksums
        BY DEF Intents
      <3> QED
        BY <2>2, <3>1 DEF ValidateIntent
    <2> QED
      BY <1>1, <2>1, <2>2 DEF Check, Rejects, Passes, Reply
  <1>2. CASE Finish
    BY <1>2 DEF Finish, NoIntent
  <1>3. ASSUME NEW h \in Routes, Decode(h)
        PROVE  IntentInv'
    BY <1>3 DEF Decode, Reply
  <1>4. ASSUME Boot \/ SignerFails \/ SignerAnswers \/ registerUnavailableCapability
        PROVE  IntentInv'
    BY <1>4 DEF Boot, SignerFails, SignerAnswers, registerUnavailableCapability, Reply
  <1>5. ASSUME Authorize \/ Sign
        PROVE  IntentInv'
    <2>1. UNCHANGED <<intent, route>> /\ pc \in {"checked", "authorized"}
      BY <1>5 DEF Authorize, Sign
    <2> QED
      BY <2>1 DEF ValidateIntent
  <1>6. CASE UNCHANGED vars
    BY <1>6 DEF vars, ValidateIntent
  <1> QED
    BY <1>1, <1>2, <1>3, <1>4, <1>5, <1>6 DEF Next

\* A ready process finds a signer with every interface an enabled route asserts.
LEMMA ReadyStep ==
    ASSUME ControlInv, ReadyServes, [Next]_vars
    PROVE  ReadyServes'
  <1>1. CASE Sign
    <2>1. UNCHANGED <<cfg, up, sel, route>>
      BY <1>1 DEF Sign
    <2>2. CASE reply' = reply
      BY <2>1, <2>2 DEF ReadyServes, Ready, WorkloadVerifier, storageProviderRequired,
                        validateStorageProvidersReady, Enabled, HasRole
    <2>3. CASE reply' # reply
      <3>1. route \in Routes /\ route.cap \in Enabled("storage") /\ ReqOK
        BY <1>1 DEF Sign, ControlInv, Working
      <3>2. SignerFor(req.target) = NoSigner \/ ~(route.needs \subseteq Implements)
        BY <1>1, <2>3 DEF Sign
      <3>3. storageProviderRequired
        BY <3>1, RouteTable DEF storageProviderRequired
      <3>4. ~validateStorageProvidersReady
        <4>1. CASE ~(route.needs \subseteq Implements)
          BY <3>1, <4>1, RouteTable DEF validateStorageProvidersReady
        <4>2. CASE SignerFor(req.target) = NoSigner
          <5>1. CASE cfg.providers = {}
            BY <4>2, <5>1 DEF SignerFor, NoSigner, TheSigner, validateStorageProvidersReady
          <5>2. CASE cfg.providers # {} /\ DOMAIN cfg.targets = {}
            <6>1. SignerFor(req.target) = IF Default \in cfg.providers THEN Default ELSE NoSigner
              BY <5>2 DEF SignerFor
            <6> QED
              BY <4>2, <5>2, <6>1 DEF validateStorageProvidersReady, Default, NoSigner
          <5>3. CASE cfg.providers # {} /\ DOMAIN cfg.targets # {}
            <6>1. cfg.targets[req.target].provider \notin cfg.providers
                    \/ cfg.targets[req.target].provider = NoSigner
              BY <4>2, <5>3 DEF SignerFor
            <6>2. NoSigner \notin cfg.providers
              BY StorageAssumption DEF ControlInv, AllSettings
            <6> QED
              BY <3>1, <5>3, <6>1, <6>2 DEF validateStorageProvidersReady, ReqOK
          <5> QED
            BY <5>1, <5>2, <5>3
        <4> QED
          BY <3>2, <4>1, <4>2
      <3>5. ~Ready
        BY <3>1, <3>3, <3>4 DEF Ready, Enabled
      <3> QED
        BY <2>1, <3>5 DEF ReadyServes, Ready, WorkloadVerifier, storageProviderRequired,
                          validateStorageProvidersReady, Enabled, HasRole
    <2> QED
      BY <2>2, <2>3
  <1>2. ASSUME reply' # "provider_not_configured" \/ route'.cap \notin Capabilities
        PROVE  ReadyServes'
    BY <1>2 DEF ReadyServes
  <1>3. ASSUME NEW h \in Routes, Decode(h)
        PROVE  reply' # "provider_not_configured"
    BY <1>3 DEF Decode, Reply, ControlInv
  <1>4. ASSUME Check \/ SignerFails \/ SignerAnswers \/ Finish
        PROVE  reply' # "provider_not_configured"
    BY <1>4 DEF Check, Rejects, Passes, SignerFails, SignerAnswers, Finish, Reply, ControlInv, Working
  <1>5. CASE Authorize
    <2>1. reply' # "provider_not_configured"
      BY <1>5 DEF Authorize, authorizeStorage, Reply, ControlInv, Working
    <2> QED
      BY <1>2, <2>1
  <1>6. CASE registerUnavailableCapability
    BY <1>2, <1>6, StubFacts DEF registerUnavailableCapability
  <1>7. CASE Boot
    <2>1. reply' = "none"
      BY <1>7 DEF Boot, ControlInv
    <2> QED
      BY <1>2, <2>1
  <1>8. CASE UNCHANGED vars
    BY <1>8 DEF vars, ReadyServes, Ready, WorkloadVerifier, storageProviderRequired,
                validateStorageProvidersReady, Enabled, HasRole
  <1> QED
    BY <1>1, <1>2, <1>3, <1>4, <1>5, <1>6, <1>7, <1>8 DEF Next

\* A validated configuration has an access policy for its targets and a verifier
\* if it requires one.
LEMMA ConfigStep ==
    ASSUME ControlInv, ConfigSuffices, [Next]_vars
    PROVE  ConfigSuffices'
  <1> USE DEF ConfigSuffices
  <1>1. CASE Authorize
    <2>1. /\ DOMAIN cfg.targets # {} => cfg.policy
          /\ cfg.required => cfg.mode # "disabled"
      BY <1>1 DEF Authorize, ControlInv, Validate
    <2>2. cfg.mode \in {"disabled", "oidc"}
      BY StorageAssumption DEF ControlInv, AllSettings
    <2>3. ASSUME NEW token, NEW actor, NEW decision \in {"allow", "denied", "access_policy_error"}
          PROVE  authorizeStorage(token, actor, decision)
                   \notin {"access_policy_missing", "workload_auth_unavailable"}
      BY <2>1, <2>2 DEF authorizeStorage, WorkloadVerifier
    <2>4. PICK token \in {"none", "invalid", "valid"}, actor \in {"", "someone"},
               decision \in {"allow", "denied", "access_policy_error"} :
            IF authorizeStorage(token, actor, decision) = "allow"
            THEN reply' = reply
            ELSE reply' = authorizeStorage(token, actor, decision)
      BY <1>1, ZenonT(60) DEF Authorize, Reply
    <2>5. authorizeStorage(token, actor, decision)
            \notin {"access_policy_missing", "workload_auth_unavailable"}
      BY <2>3
    <2> QED
      BY <2>4, <2>5
  <1>2. ASSUME NEW h \in Routes, Decode(h)
        PROVE  ConfigSuffices'
    BY <1>2 DEF Decode, Reply
  <1>3. ASSUME Check \/ Sign \/ SignerFails \/ SignerAnswers \/ Finish
        PROVE  ConfigSuffices'
    BY <1>3 DEF Check, Rejects, Passes, Sign, SignerFails, SignerAnswers, Finish, Reply
  <1>4. ASSUME Boot \/ registerUnavailableCapability \/ UNCHANGED vars
        PROVE  ConfigSuffices'
    BY <1>4 DEF Boot, registerUnavailableCapability, Reply, vars
  <1> QED
    BY <1>1, <1>2, <1>3, <1>4 DEF Next

\* A verification that succeeds compared each expected checksum with one the
\* provider reported: an expected value is never empty, so it cannot have matched
\* the empty value of a missing entry.
LEMMA VerifyStep ==
    ASSUME ControlInv, IntentInv, VerifiedSound, [Next]_vars
    PROVE  VerifiedSound'
  <1>1. CASE SignerAnswers
    <2>1. CASE route.extra = "verify"
      <3>1. PICK m \in Metas : \E actual \in [intent.sums -> {"", "x", "y"}] :
              /\ \A e \in intent.sums : actual[e] \in Found(m, e)
              /\ meta' = m
              /\ Reply(IF VerifyUpload(intent, m, actual) THEN "verified" ELSE "mismatch")
        BY <1>1, <2>1 DEF SignerAnswers
      <3>2. PICK actual \in [intent.sums -> {"", "x", "y"}] :
              /\ \A e \in intent.sums : actual[e] \in Found(m, e)
              /\ meta' = m
              /\ Reply(IF VerifyUpload(intent, m, actual) THEN "verified" ELSE "mismatch")
        BY <3>1
      <3>3. CASE VerifyUpload(intent, m, actual)
        <4>1. ASSUME NEW e \in intent.sums
              PROVE  e \in m.sums
          <5>1. e.value # "" /\ e \in Checksums /\ e.value \in Found(m, e)
            BY <1>1, <2>1, <3>2, <3>3 DEF SignerAnswers, IntentInv, ValidateIntent, VerifyUpload
          <5>2. PICK t \in m.sums : t.alg = e.alg /\ t.value = e.value
            BY <5>1 DEF Found
          <5>3. t \in [alg : {"sha256"}, value : {"x", "y"}]
            BY DEF Metas
          <5>4. t = [alg |-> t.alg, value |-> t.value] /\ e = [alg |-> e.alg, value |-> e.value]
            BY <5>1, <5>3 DEF Checksums
          <5>5. t = e
            BY <5>2, <5>4
          <5> QED
            BY <5>5
        <4> QED
          BY <1>1, <3>2, <3>3, <4>1 DEF SignerAnswers, VerifyUpload, VerifiedSound
      <3>4. CASE ~VerifyUpload(intent, m, actual)
        BY <3>2, <3>4 DEF Reply, VerifiedSound
      <3> QED
        BY <3>3, <3>4
    <2>2. CASE route.extra # "verify"
      <3>1. reply' # "verified"
        BY <1>1, <2>2 DEF SignerAnswers, Reply
      <3> QED
        BY <3>1 DEF VerifiedSound
    <2> QED
      BY <2>1, <2>2
  <1>2. ASSUME reply' # "verified"
        PROVE  VerifiedSound'
    BY <1>2 DEF VerifiedSound
  <1>3. ASSUME NEW h \in Routes, Decode(h)
        PROVE  reply' # "verified"
    BY <1>3 DEF Decode, Reply, ControlInv
  <1>4. ASSUME Boot \/ Check \/ Sign \/ SignerFails \/ Finish \/ registerUnavailableCapability
        PROVE  reply' # "verified"
    BY <1>4 DEF Boot, Check, Rejects, Passes, Sign, SignerFails, Finish, Reply,
                registerUnavailableCapability, ControlInv, Working
  <1>5. CASE Authorize
    <2>1. reply' # "verified"
      BY <1>5 DEF Authorize, authorizeStorage, Reply, ControlInv, Working
    <2> QED
      BY <1>2, <2>1
  <1>6. CASE UNCHANGED vars
    BY <1>6 DEF vars, VerifiedSound
  <1> QED
    BY <1>1, <1>2, <1>3, <1>4, <1>5, <1>6 DEF Next

\* Whatever texts the roles and the capabilities are read from, a selection that is
\* valid understood all of them and enables nothing else.
LEMMA SelectionSound ==
    ASSUME NEW text \in RoleTexts, NEW raw \in CapabilityTexts,
           NEW roles, roles = ParseRoles(text),
           NEW caps, caps = ParseCapabilities(roles, raw),
           ValidSelection([roles |-> roles, capabilities |-> caps])
    PROVE  /\ Understood(roles, text, raw)
           /\ \A role \in roles :
                /\ caps[role] # {}
                /\ IF WrittenFor(role, roles, raw) = {} THEN caps[role] = Supported[role]
                   ELSE caps[role] \subseteq WrittenFor(role, roles, raw)
  <1> DEFINE Written(role) == WrittenFor(role, roles, raw)
  <1>1. roles \subseteq Known /\ \A role \in roles : caps[role] # {}
    BY DEF ValidSelection
  <1>2. roles # {} /\ (text # <<"">> => Words(text) = roles)
    BY DEF ValidSelection, ParseRoles
  <1>3. Words(BlankGroup.words) \ {""} = {} /\ NoColon \notin Known
    <2>1. BlankGroup.words = <<"">>
      BY DEF BlankGroup
    <2>2. DOMAIN <<"">> = {1}
      OBVIOUS
    <2>3. <<"">>[1] = ""
      OBVIOUS
    <2>4. \A x \in Words(<<"">>) : x = ""
      BY <2>2, <2>3 DEF Words
    <2> QED
      BY <2>1, <2>4 DEF NoColon, Known
  <1>4. ASSUME NEW i \in DOMAIN raw, NEW role \in roles, About(raw[i], role, roles)
        PROVE  Words(raw[i].words) \ {""} \subseteq Written(role)
    <2>1. i \in {k \in DOMAIN raw : About(raw[k], role, roles)}
      BY <1>4
    <2> QED
      BY <2>1, Zenon DEF WrittenFor
  <1>5. CASE raw = <<BlankGroup>>
    <2>1. \A i \in DOMAIN raw : raw[i] = BlankGroup
      BY <1>5
    <2>2. caps = [role \in roles |-> Supported[role]]
      BY <1>5 DEF ParseCapabilities
    <2>3. \A role \in roles : Written(role) = {}
      BY <1>3, <2>1 DEF WrittenFor
    <2> QED
      BY <1>1, <1>2, <2>1, <2>2, <2>3 DEF Understood
  <1>6. CASE raw # <<BlankGroup>> /\ Cardinality(roles) = 1 /\ \A i \in DOMAIN raw : raw[i].role = NoColon
    <2>1. caps = [role \in roles |-> IF Len(raw) = 1 THEN parseCapList(role, raw[1].words) ELSE {}]
      BY <1>6 DEF ParseCapabilities
    <2>2. PICK only : roles = {only}
      <3>1. IsFiniteSet({"rebff"} \cup {"storage"} \cup {"streaming"} \cup {"websocket"})
        BY FS_Singleton, FS_Union
      <3>2. Known = {"rebff"} \cup {"storage"} \cup {"streaming"} \cup {"websocket"}
        BY DEF Known
      <3>3. IsFiniteSet(roles)
        BY <1>1, <3>1, <3>2, FS_Subset
      <3> QED
        BY <1>6, <3>3, FS_Singleton
    <2>3. Len(raw) = 1 /\ caps[only] = parseCapList(only, raw[1].words)
      BY <1>1, <2>1, <2>2
    <2>4. DOMAIN raw = {1} /\ About(raw[1], only, roles)
      BY <1>6, <2>2, <2>3 DEF CapabilityTexts, About
    <2>5. /\ caps[only] = Words(raw[1].words) \ {""}
          /\ caps[only] \subseteq Supported[only]
      BY <1>1, <2>2, <2>3 DEF parseCapList
    <2>6. Understood(roles, text, raw)
      BY <1>2, <2>2, <2>4, <2>5 DEF Understood
    <2>7. caps[only] \subseteq Written(only)
      BY <1>1, <1>4, <2>2, <2>4, <2>5
    <2> QED
      BY <1>1, <2>2, <2>6, <2>7
  <1>7. CASE /\ raw # <<BlankGroup>>
             /\ ~(Cardinality(roles) = 1 /\ \A i \in DOMAIN raw : raw[i].role = NoColon)
    <2>1. \A i \in DOMAIN raw : GroupAccepted(roles, raw[i])
      BY <1>1, <1>2, <1>7 DEF ParseCapabilities
    <2>2. caps = [role \in roles |->
                    IF \E i \in DOMAIN raw : raw[i].role = role
                    THEN UNION {parseCapList(role, raw[i].words) : i \in LastGroup(role, raw)}
                    ELSE Supported[role]]
      BY <1>7, <2>1 DEF ParseCapabilities
    <2>3. \A i \in DOMAIN raw :
            \/ raw[i] = BlankGroup
            \/ /\ raw[i].role \in roles /\ About(raw[i], raw[i].role, roles)
               /\ Words(raw[i].words) \ {""} \subseteq Supported[raw[i].role]
      BY <2>1 DEF GroupAccepted, About, parseCapList
    <2>4. Understood(roles, text, raw)
      BY <1>2, <2>3 DEF Understood
    <2>5. ASSUME NEW role \in roles, \E i \in DOMAIN raw : raw[i].role = role
          PROVE  Written(role) # {} /\ caps[role] \subseteq Written(role)
      <3>1. caps[role] = UNION {parseCapList(role, raw[i].words) : i \in LastGroup(role, raw)}
        BY <2>2, <2>5
      <3>2. \A i \in LastGroup(role, raw) :
              parseCapList(role, raw[i].words) \subseteq Written(role)
        BY <1>4 DEF LastGroup, About, parseCapList
      <3> QED
        BY <1>1, <3>1, <3>2
    <2>6. ASSUME NEW role \in roles, ~\E i \in DOMAIN raw : raw[i].role = role
          PROVE  Written(role) = {} /\ caps[role] = Supported[role]
      <3>1. \A i \in DOMAIN raw : About(raw[i], role, roles) => raw[i] = BlankGroup
        BY <1>1, <1>3, <2>1, <2>6 DEF About, GroupAccepted
      <3>2. Written(role) = {}
        BY <1>3, <3>1 DEF WrittenFor
      <3> QED
        BY <2>2, <2>6, <3>2
    <2> QED
      BY <1>1, <2>4, <2>5, <2>6
  <1> QED
    BY <1>5, <1>6, <1>7

\* A process that started has the selection of its texts, and a valid one.
SelectionInv ==
    /\ cfg \in Settings
    /\ up \in {"running", "rebff"} =>
         /\ sel = Selection(cfg.roles, cfg.capabilities)
         /\ ValidSelection(sel)
         /\ "rebff" \in sel.roles => sel.roles = {"rebff"}

\* Only Boot selects.
LEMMA SelectionStep ==
    ASSUME SelectionInv, [Next]_vars
    PROVE  SelectionInv'
  <1> USE DEF SelectionInv
  <1>1. CASE Boot
    BY <1>1 DEF Boot, Loaded, Selected
  <1>2. CASE UNCHANGED <<cfg, up, sel>>
    BY <1>2
  <1>3. ASSUME NEW h \in Routes, Decode(h) PROVE UNCHANGED <<cfg, up, sel>>
    BY <1>3 DEF Decode
  <1> QED
    BY <1>1, <1>2, <1>3 DEF Next, Check, Authorize, Sign, SignerFails, SignerAnswers,
                            registerUnavailableCapability, Finish, vars

\* The process that starts is the one that the texts ask for (ParseRoles,
\* ParseCapabilities, Validate, RunWith).
THEOREM SelectionAsWritten == Spec => []SelectionFaithful
  <1>1. Init => SelectionInv
    BY DEF Init, SelectionInv
  <1>2. SelectionInv => SelectionFaithful
    <2> SUFFICES ASSUME SelectionInv, up \in {"running", "rebff"} PROVE SelectionFaithful
      BY DEF SelectionFaithful
    <2> DEFINE roles == ParseRoles(cfg.roles)
               caps == ParseCapabilities(roles, cfg.capabilities)
    <2>1. cfg.roles \in RoleTexts /\ cfg.capabilities \in CapabilityTexts
      BY StorageAssumption DEF SelectionInv, AllSettings
    <2>2. sel = [roles |-> roles, capabilities |-> caps] /\ ValidSelection(sel)
      BY DEF SelectionInv, Selection
    <2>3. sel.roles = roles /\ sel.capabilities = caps
      BY <2>2
    <2> HIDE DEF roles, caps
    <2>4. /\ Understood(roles, cfg.roles, cfg.capabilities)
          /\ \A role \in roles :
                /\ caps[role] # {}
                /\ IF WrittenFor(role, roles, cfg.capabilities) = {} THEN caps[role] = Supported[role]
                   ELSE caps[role] \subseteq WrittenFor(role, roles, cfg.capabilities)
      BY <2>1, <2>2, SelectionSound DEF roles, caps
    <2> QED
      BY <2>3, <2>4 DEF SelectionFaithful, SelectionInv
  <1> QED
    BY <1>1, <1>2, SelectionStep, PTL DEF Spec

StorageInv ==
    /\ ControlInv
    /\ CallInv
    /\ IntentInv
    /\ ReadyServes
    /\ ConfigSuffices
    /\ VerifiedSound

\* The invariants hold together.
LEMMA StorageInvariant == Spec => []StorageInv
  <1>1. Init => StorageInv
    <2> SUFFICES ASSUME Init
                 PROVE  StorageInv
      OBVIOUS
    <2>1. ControlInv
      BY DEF Init, ControlInv, Working
    <2>2. CallInv
      BY DEF Init, CallInv, CallAuthorized, GrantWithinMax, NoCall, Timed
    <2>3. IntentInv
      BY DEF Init, IntentInv, NoIntent
    <2>4. ReadyServes /\ ConfigSuffices /\ VerifiedSound
      BY DEF Init, ReadyServes, ConfigSuffices, VerifiedSound
    <2> QED
      BY <2>1, <2>2, <2>3, <2>4 DEF StorageInv
  <1>2. StorageInv /\ [Next]_vars => StorageInv'
    BY ControlStep, CallStep, IntentStep, ReadyStep, ConfigStep, VerifyStep DEF StorageInv
  <1> QED
    BY <1>1, <1>2, PTL DEF Spec

\* A signer is only called for what the access policy allowed.
THEOREM CallsAuthorized == Spec => []CallAuthorized
  BY StorageInvariant, PTL DEF StorageInv, CallInv

\* A signature is good for a positive time within the configured maximum.
THEOREM GrantsBounded == Spec => []GrantWithinMax
  BY StorageInvariant, PTL DEF StorageInv, CallInv

\* A ready process has a provider for every storage request.
THEOREM ReadinessHonest == Spec => []ReadyServes
  BY StorageInvariant, PTL DEF StorageInv

\* A process that started never misses a collaborator of authorization.
THEOREM BootSuffices == Spec => []ConfigSuffices
  BY StorageInvariant, PTL DEF StorageInv

\* "verified" means that every stated expectation was met.
THEOREM VerificationSound == Spec => []VerifiedSound
  BY StorageInvariant, PTL DEF StorageInv
=============================================================================
