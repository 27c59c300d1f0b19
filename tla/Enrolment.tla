----------------------------- MODULE Enrolment -----------------------------
(***************************************************************************)
(* Enrolment in x/identity: a human registers a DID derived from a key,    *)
(* on the attestation of a trusted issuer; issuers are admitted, re-keyed  *)
(* and revoked by governance; keys rotate; the bootstrap phase ends when   *)
(* enough identities exist; the state is exported and imported.  A DID is  *)
(* named by the key it is derived from, a signature by its key.            *)
(***************************************************************************)
EXTENDS Integers, FiniteSets

CONSTANTS
    RegistrantKeys,  \* and so the DIDs derived from them
    Markers,     \* uniqueness markers of humans
    Issuers,     \* DIDs of issuers
    IssuerKeys,
    Nonces,
    Thresholds,  \* values of BootstrapThreshold
    NoKey,       \* no issuer registered
    NoDoc,
    NoOwner,
    MaxAttested  \* bound on attestations issued

Docs == [key : RegistrantKeys, marker : Markers, status : {"ACTIVE", "REVOKED"}]
Attestations == [by : IssuerKeys, key : RegistrantKeys, marker : Markers, nonce : Nonces]

ASSUME EnrolmentBounds == Thresholds \subseteq Nat /\ MaxAttested \in Nat
ASSUME KeysFinite == IsFiniteSet(RegistrantKeys)
ASSUME Distinguished == NoOwner \notin RegistrantKeys /\ NoDoc \notin Docs

VARIABLES
    document, \* DID -> key, marker and status, or NoDoc
    uniq,     \* marker -> DID, the uniqueness store
    issuer,   \* issuer -> key and activity
    nonces,   \* <<issuer, nonce>> markers
    count,    \* IdentityCount
    params,   \* BootstrapPhase and BootstrapThreshold
    attested, \* attestations that issuers have signed
    grounds   \* history: the attestation each registration rested on
store == <<document, uniq, issuer, nonces, count, params>>
enrolVars == <<store, attested, grounds>>

HasIdentity(d) == document[d] # NoDoc
Enrolled == {d \in RegistrantKeys : HasIdentity(d)}
HasUniqueness(m) == uniq[m] # NoOwner
ValidParams(p) == p.threshold > 0

\* An issuer, or a holder of one of its keys, signs an attestation off chain.
Attest(ik, k, m, n) ==
    /\ Cardinality(attested) < MaxAttested
    /\ attested' = attested \cup {[by |-> ik, key |-> k, marker |-> m, nonce |-> n]}
    /\ UNCHANGED <<store, grounds>>

\* verifyRegistration; att carries the registrant's proof of possession.
verifyRegistration(i, att) ==
    /\ issuer[i].key # NoKey /\ issuer[i].active
    /\ <<i, att.nonce>> \notin nonces
    /\ att.by = issuer[i].key

RegisterIdentity(i, att) ==
    /\ ~HasIdentity(att.key) /\ ~HasUniqueness(att.marker)
    /\ verifyRegistration(i, att)
    /\ document' = [document EXCEPT ![att.key] =
                  [key |-> att.key, marker |-> att.marker, status |-> "ACTIVE"]]
    /\ uniq' = [uniq EXCEPT ![att.marker] = att.key]
    /\ nonces' = nonces \cup {<<i, att.nonce>>}
    /\ count' = count + 1
    /\ params' = [phase |-> params.phase /\ count + 1 < params.threshold,
                  threshold |-> params.threshold]
    /\ grounds' = grounds \cup {[issuer |-> i, nonce |-> att.nonce, did |-> att.key]}
    /\ UNCHANGED <<issuer, attested>>

Revoked(d) == [key |-> document[d].key, marker |-> document[d].marker, status |-> "REVOKED"]

\* Faulty revocation: the marker is released.
RevokeReleases(d) ==
    /\ HasIdentity(d) /\ document[d].status # "REVOKED"
    /\ document' = [document EXCEPT ![d] = Revoked(d)]
    /\ uniq' = [uniq EXCEPT ![document[d].marker] = NoOwner]
    /\ UNCHANGED <<issuer, nonces, count, params, attested, grounds>>

\* RevokeIdentity, by the controller or governance: final, and the marker
\* stays taken.
RevokeIdentity(d) ==
    /\ HasIdentity(d) /\ document[d].status # "REVOKED"
    /\ document' = [document EXCEPT ![d] = Revoked(d)]
    /\ UNCHANGED <<uniq, issuer, nonces, count, params, attested, grounds>>

\* RotateIdentityKey, with proof of possession of k.
RotateIdentityKey(d, k) ==
    /\ HasIdentity(d) /\ document[d].status = "ACTIVE"
    /\ k # d => ~HasIdentity(k)
    /\ document' = [document EXCEPT ![d] =
                  [key |-> k, marker |-> document[d].marker, status |-> document[d].status]]
    /\ UNCHANGED <<uniq, issuer, nonces, count, params, attested, grounds>>

\* RegisterTrustedIssuer adds an issuer or replaces its key and activity.
RegisterTrustedIssuer(i, ik, active) ==
    /\ issuer' = [issuer EXCEPT ![i] = [key |-> ik, active |-> active]]
    /\ UNCHANGED <<document, uniq, nonces, count, params, attested, grounds>>

RevokeTrustedIssuer(i) ==
    /\ issuer[i].key # NoKey
    /\ issuer' = [issuer EXCEPT ![i].active = FALSE]
    /\ UNCHANGED <<document, uniq, nonces, count, params, attested, grounds>>

UpdateIdentityParams(p) ==
    /\ ValidParams(p)
    /\ params' = p
    /\ UNCHANGED <<document, uniq, issuer, nonces, count, attested, grounds>>

\* GenesisState.Validate on what this module holds.
ValidGenesis ==
    /\ ValidParams(params)
    /\ \A d, e \in Enrolled : document[d].marker = document[e].marker => d = e
    /\ Cardinality(Enrolled) <= count

\* The uniqueness store InitGenesis rebuilds from the documents.
Rebuilt ==
    [m \in Markers |->
        IF \E d \in Enrolled : document[d].marker = m
        THEN CHOOSE d \in Enrolled : document[d].marker = m ELSE NoOwner]

\* Faulty restart: the nonce markers are not exported.
ExportDropsNonces ==
    /\ ValidGenesis
    /\ uniq' = Rebuilt /\ nonces' = {}
    /\ UNCHANGED <<document, issuer, count, params, attested, grounds>>

\* ExportGenesis and InitGenesis of the successor chain.
ExportImport ==
    /\ ValidGenesis
    /\ uniq' = Rebuilt
    /\ UNCHANGED <<document, issuer, nonces, count, params, attested, grounds>>

EnrolInit ==
    /\ document = [d \in RegistrantKeys |-> NoDoc]
    /\ uniq = [m \in Markers |-> NoOwner]
    /\ issuer = [i \in Issuers |-> [key |-> NoKey, active |-> FALSE]]
    /\ nonces = {} /\ count = 0
    /\ params \in [phase : {TRUE}, threshold : Thresholds \ {0}]
    /\ attested = {} /\ grounds = {}

EnrolNext ==
    \/ \E ik \in IssuerKeys, k \in RegistrantKeys, m \in Markers, n \in Nonces : Attest(ik, k, m, n)
    \/ \E i \in Issuers, att \in attested : RegisterIdentity(i, att)
    \/ \E d \in RegistrantKeys : RevokeIdentity(d) \/ \E k \in RegistrantKeys : RotateIdentityKey(d, k)
    \/ \E i \in Issuers :
           \/ RevokeTrustedIssuer(i)
           \/ \E ik \in IssuerKeys, active \in BOOLEAN : RegisterTrustedIssuer(i, ik, active)
    \/ \E p \in [phase : BOOLEAN, threshold : Thresholds] : UpdateIdentityParams(p)
    \/ ExportImport

EnrolSpec == EnrolInit /\ [][EnrolNext]_enrolVars

-----------------------------------------------------------------------------
(* Properties *)

\* One human, one DID, for good: the uniqueness store names exactly the
\* registered documents, revoked ones included, one DID per marker, and the
\* counter that ends the bootstrap phase counts each of them once.
OneHumanOneDid ==
    /\ \A m \in Markers, d \in RegistrantKeys :
           uniq[m] = d <=> (HasIdentity(d) /\ document[d].marker = m)
    /\ count = Cardinality(Enrolled)

\* The keys of the identity store: "each issuer attestation nonce is
\* single-use".  However an issuer is revoked, re-keyed and re-admitted, and
\* across an export, no two registrations rest on one nonce of one issuer.
NonceSingleUse ==
    \A g, h \in grounds : (g.issuer = h.issuer /\ g.nonce = h.nonce) => g = h

=============================================================================
