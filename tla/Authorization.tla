---------------------------- MODULE Authorization ----------------------------
(***************************************************************************)
(* Who may do what (internal/authz), as this program is linked: of the     *)
(* engines only the static one, which grants a single principal            *)
(* everything.  The auth section of config.yaml is read at start-up; the   *)
(* engine built from it must pass the bootstrap check, and RequireAction   *)
(* asks it on every route.  Ownership can be claimed on a page of core's   *)
(* with a code that the console_code_authorizer extension shows.  The      *)
(* owner edits the section between two starts.                             *)
(***************************************************************************)
EXTENDS Integers

CONSTANTS
    Users,          \* principals requests come from
    Root,
    None,
    MaxPolicyEdits,
    MaxCodes        \* codes a process makes

StaticNames == {"static", "ext/joleuger/static"}
Simple == "ext/joleuger/authz-simple"
Console == "ext/joleuger/console_code_authorizer"

\* The auth section, whose fields may be left out.
Sections == [engine : {None, Simple} \cup StaticNames, principal : {None} \cup Users,
             control_plane : {None, Console}]

\* What RequireAction asks: nothing, or the static engine.
Off == [engine |-> "off"]
Static(u) == [engine |-> "static", principal |-> u]

\* The codes of an Authorizer, by number; 0 is none.
Codes == [code : 0..MaxCodes, expired : BOOLEAN]
NoCode == [code |-> 0, expired |-> FALSE]

VARIABLES
    policy,         \* the auth section of config.yaml; None without a file
    launched,       \* what the last start read of it
    enforcer,       \* None while no server runs
    pageCode,       \* the Authorizer whose code the extension shows
    coreCode,       \* the Authorizer the claim page asks
    claim,          \* that page's last answer
    policyEdits

authzVars == <<policy, launched, enforcer, pageCode, coreCode, claim, policyEdits>>

TypeOK ==
    /\ policy \in {None} \cup Sections /\ launched \in {None} \cup Sections
    /\ enforcer \in {None, Off} \cup {Static(u) : u \in Users}
    /\ pageCode \in Codes /\ coreCode \in Codes
    /\ claim \in {None, "form", "refused", "claimed", "panic"}
    /\ policyEdits \in 0..MaxPolicyEdits

\* A first run, without a file: Load's defaults have no Auth, so there is no engine.
Init ==
    /\ policy = None /\ launched = None
    /\ enforcer = Off
    /\ pageCode = NoCode /\ coreCode = NoCode
    /\ claim = None
    /\ policyEdits = 0

-----------------------------------------------------------------------------
(* The engine *)

\* ParseAuthConfig: a file without an auth section has these too.
ParsedPrincipal(section) == IF section.principal = None THEN Root ELSE section.principal
ParsedEngine(section) == IF section.engine = None THEN "static" ELSE section.engine

\* A request without an X-Principal header is root's.
ResolvePrincipal(header) == IF header = None THEN Root ELSE header

StaticEnforce(e, principal) == principal = e.principal

\* With a nil enforcer everything is allowed; the action and the scope do not matter to
\* the static one.
RequireAction(e, header) == e # Off => StaticEnforce(e, ResolvePrincipal(header))

\* VerifyBootstrapInvariant.
VerifyBootstrap(e) == StaticEnforce(e, Root)

\* Mutant: the engine is not verified.
BuiltUnverified(section) ==
    IF ParsedEngine(section) \in StaticNames THEN Static(ParsedPrincipal(section)) ELSE None

\* buildEnforcer: an engine that no linked package registers, as authz-simple, ends the
\* start (ErrUnknownEngine), and so does one that refuses root.
Built(section) ==
    LET e == Static(ParsedPrincipal(section))
    IN  IF ParsedEngine(section) \in StaticNames /\ VerifyBootstrap(e) THEN e ELSE None

\* Bootstrap, in a new process.  The factory the section names makes core an Authorizer of
\* its own (console_code_authorizer/init.go); NewExtension makes the page another one.
StartServer ==
    /\ launched' = policy
    /\ enforcer' = IF policy = None THEN Off ELSE Built(policy)
    /\ pageCode' = NoCode /\ coreCode' = NoCode
    /\ claim' = None
    /\ UNCHANGED <<policy, policyEdits>>

\* The owner writes another section, or removes the file.
EditPolicy ==
    /\ policyEdits < MaxPolicyEdits /\ policyEdits' = policyEdits + 1
    /\ \E section \in {None} \cup Sections : section # policy /\ policy' = section
    /\ UNCHANGED <<launched, enforcer, pageCode, coreCode, claim>>

-----------------------------------------------------------------------------
(* Claiming ownership *)

\* handleGenerateCode, and the page when there is no code or it has expired.
GenerateCode ==
    /\ enforcer # None
    /\ pageCode.code < MaxCodes
    /\ pageCode' = [code |-> pageCode.code + 1, expired |-> FALSE]
    /\ UNCHANGED <<policy, launched, enforcer, coreCode, claim, policyEdits>>

\* Ten minutes pass.
CodeExpires ==
    /\ pageCode.code # 0 /\ ~pageCode.expired
    /\ pageCode' = [pageCode EXCEPT !.expired = TRUE]
    /\ UNCHANGED <<policy, launched, enforcer, coreCode, claim, policyEdits>>

\* Authenticate; without a control plane in the section, DenyAllAuthenticator.
Authenticate(submitted) ==
    /\ launched.control_plane = Console
    /\ coreCode.code # 0 /\ ~coreCode.expired
    /\ submitted = coreCode.code

\* GET /claim-ownership: on a first run there is no resolver to ask (a nil interface).
OpenClaimPage ==
    /\ enforcer # None
    /\ claim' = IF launched = None THEN "panic" ELSE "form"
    /\ UNCHANGED <<policy, launched, enforcer, pageCode, coreCode, policyEdits>>

\* POST /claim-ownership; ClaimGlobalOwnership makes the resolver's principal the engine's.
PostClaim(submitted) ==
    /\ enforcer # None
    /\ LET accepted == launched # None /\ Authenticate(submitted)
       IN  /\ claim' = IF launched = None THEN "panic" ELSE IF accepted THEN "claimed" ELSE "refused"
           /\ coreCode' = IF accepted THEN NoCode ELSE coreCode
           /\ enforcer' = IF accepted THEN Static(ParsedPrincipal(launched)) ELSE enforcer
    /\ UNCHANGED <<policy, launched, pageCode, policyEdits>>

Next ==
    \/ StartServer \/ EditPolicy
    \/ GenerateCode \/ CodeExpires
    \/ OpenClaimPage \/ \E submitted \in 1..MaxCodes : PostClaim(submitted)

Spec == Init /\ [][Next]_authzVars

-----------------------------------------------------------------------------
(* Properties *)

\* "It grants everything to exactly one configured Principal and nothing to anyone else"
\* (StaticEnforcer), and that one is root, as "every deployment requires by construction":
\* whatever the owner writes, whatever is claimed, a server that runs with a file serves
\* root, and requests without an identity, and nobody else; one without a file serves all.
OwnerServed ==
    enforcer # None =>
        \A header \in Users \cup {None} :
            RequireAction(enforcer, header) <=> (launched = None \/ ResolvePrincipal(header) = Root)

-----------------------------------------------------------------------------
(* The inductive invariant behind OwnerServed (ExtensionsProofs). *)

Distinct ==
    /\ Root \in Users
    /\ None \notin Sections \cup {Off} \cup {Static(u) : u \in Users}
    /\ MaxPolicyEdits \in Nat /\ MaxCodes \in Nat

\* The engine is root's, and core's Authorizer never has a code.
AuthzInv ==
    /\ TypeOK
    /\ enforcer # None => enforcer = IF launched = None THEN Off ELSE Static(Root)
    /\ coreCode = NoCode
=============================================================================
