---------------------------- MODULE Credentials ----------------------------
(***************************************************************************)
(* x/credentials and the disclosure query that reads it: credential        *)
(* templates with a versioned disclosure policy, anchors, multi-party      *)
(* agreements and personal anchors, over identities that are suspended,    *)
(* revoked and recovered meanwhile.  A hash stands for what is hashed.     *)
(***************************************************************************)
EXTENDS Integers, FiniteSetsExt, Functions, Sequences

CONSTANTS
    Dids,
    Accounts,
    Keys,        \* public keys of DIDs
    Genesis,     \* DID -> document at genesis
    Templates,   \* template ids
    BbsKeys,     \* issuer BBS+ keys
    Policies,    \* disclosure policies: claim count and disclosable indices
    Hashes,      \* hashes of credentials, agreements and personal records
    Deadlines,   \* deadlines an agreement may have, 0 for none
    ParamSets,   \* values of MaxAgreementSigners governance may set
    MaxVersion,  \* bound on template versions
    MaxTime      \* bound on block time

None == [status |-> "NONE"]
NoPin == <<>>
ASSUME CredentialBounds ==
    /\ IsFiniteSet(Dids) /\ ParamSets \subseteq Nat \ {0}
    /\ MaxVersion \in Nat /\ MaxTime \in Nat

VARIABLES
    doc,        \* DID -> status, controller and key (external, x/identity)
    now,        \* block time
    templates,  \* id -> template, or None
    anchors,    \* credential hash -> anchor, or None
    agreements, \* agreement hash -> agreement, or None
    personal,   \* <<did, hash>> of the personal anchors
    maxSigners  \* params.MaxAgreementSigners
identVars == <<doc, now>>
vars == <<identVars, templates, anchors, agreements, personal, maxSigners>>

-----------------------------------------------------------------------------
(* Identities *)

\* authDID and verifyP256: a, with a signature of key k, acts for d.
authDID(d, a, k) == doc[d].status = "ACTIVE" /\ doc[d].controller = a /\ doc[d].key = k
requireActiveDID(d) == doc[d].status = "ACTIVE"

\* x/identity: suspension, reinstatement, final revocation, and recovery or
\* rotation to another controller and key.
ChangeDoc(d, s, a, k) ==
    /\ doc[d].status # "REVOKED"
    /\ doc' = [doc EXCEPT ![d] = [status |-> s, controller |-> a, key |-> k]]
    /\ UNCHANGED <<now, templates, anchors, agreements, personal, maxSigners>>

Tick ==
    /\ now < MaxTime
    /\ now' = now + 1
    /\ UNCHANGED <<doc, templates, anchors, agreements, personal, maxSigners>>

-----------------------------------------------------------------------------
(* Templates *)

\* ValidateDisclosurePolicy.
ValidateDisclosurePolicy(p) == p.indices \subseteq 0..(p.count - 1)

\* PolicyHash: the indices are hashed in canonical order, so as a set.
PolicyHash(id, version, p) == <<id, version, p.count, p.indices>>

RegisterCredentialTemplate(id, d, a, key, p) ==
    /\ templates[id] = None
    /\ doc[d].status = "ACTIVE" /\ doc[d].controller = a
    /\ ValidateDisclosurePolicy(p)
    /\ templates' = [templates EXCEPT ![id] =
           [owner |-> d, key |-> key, version |-> 1, policy |-> p,
            hash |-> PolicyHash(id, 1, p), status |-> "ACTIVE"]]
    /\ UNCHANGED <<identVars, anchors, agreements, personal, maxSigners>>

OwnerActs(t, a) == doc[t.owner].status = "ACTIVE" /\ doc[t.owner].controller = a

\* Faulty update: the policy is replaced and the hash is not derived again.
UpdateKeepsHash(id, a, p) ==
    /\ templates[id] # None /\ OwnerActs(templates[id], a)
    /\ templates[id].status # "DEPRECATED" /\ ValidateDisclosurePolicy(p)
    /\ templates[id].version < MaxVersion
    /\ templates' = [templates EXCEPT ![id] =
           [@ EXCEPT !.version = @ + 1, !.policy = p]]
    /\ UNCHANGED <<identVars, anchors, agreements, personal, maxSigners>>

\* Faulty update: the issuer key may be rotated in place.
UpdateRotatesKey(id, a, p) ==
    /\ templates[id] # None /\ OwnerActs(templates[id], a)
    /\ templates[id].status # "DEPRECATED" /\ ValidateDisclosurePolicy(p)
    /\ templates[id].version < MaxVersion
    /\ \E key \in BbsKeys :
           templates' = [templates EXCEPT ![id] =
               [@ EXCEPT !.version = @ + 1, !.policy = p, !.key = key,
                         !.hash = PolicyHash(id, templates[id].version + 1, p)]]
    /\ UNCHANGED <<identVars, anchors, agreements, personal, maxSigners>>

UpdateCredentialTemplate(id, a, p) ==
    /\ templates[id] # None /\ OwnerActs(templates[id], a)
    /\ templates[id].status # "DEPRECATED" /\ ValidateDisclosurePolicy(p)
    /\ templates[id].version < MaxVersion
    /\ LET next == templates[id].version + 1
       IN  templates' = [templates EXCEPT ![id] =
               [@ EXCEPT !.version = next, !.policy = p, !.hash = PolicyHash(id, next, p)]]
    /\ UNCHANGED <<identVars, anchors, agreements, personal, maxSigners>>

DeprecateCredentialTemplate(id, a) ==
    /\ templates[id] # None /\ OwnerActs(templates[id], a)
    /\ templates[id].status # "DEPRECATED"
    /\ templates' = [templates EXCEPT ![id].status = "DEPRECATED"]
    /\ UNCHANGED <<identVars, anchors, agreements, personal, maxSigners>>

-----------------------------------------------------------------------------
(* Anchors *)

AnchorCredential(h, d, a, k, subject, id, version) ==
    /\ anchors[h] = None
    /\ authDID(d, a, k) /\ requireActiveDID(subject)
    /\ templates[id] # None /\ templates[id].status = "ACTIVE"
    /\ version = templates[id].version
    /\ anchors' = [anchors EXCEPT ![h] =
           [template |-> id, version |-> version, issuer |-> d, subject |-> subject,
            status |-> "ACTIVE"]]
    /\ UNCHANGED <<identVars, templates, agreements, personal, maxSigners>>

RevokeCredential(h, a) ==
    /\ anchors[h] # None /\ anchors[h].status # "REVOKED"
    /\ doc[anchors[h].issuer].status = "ACTIVE" /\ doc[anchors[h].issuer].controller = a
    /\ anchors' = [anchors EXCEPT ![h].status = "REVOKED"]
    /\ UNCHANGED <<identVars, templates, agreements, personal, maxSigners>>

AnchorPersonal(d, a, k, h) ==
    /\ <<d, h>> \notin personal
    /\ authDID(d, a, k)
    /\ personal' = personal \cup {<<d, h>>}
    /\ UNCHANGED <<identVars, templates, anchors, agreements, maxSigners>>

\* ParseDisclosedProof, read as the claim count of the credential and the
\* set of revealed indices: the envelopes it accepts.
ParseDisclosedProof(p) == p.count > 0 /\ p.indices \subseteq 0..(p.count - 1)

\* Faulty disclosure: the pin is not compared.
DiscloseIgnoringPin(h, pin, p) ==
    /\ anchors[h] # None /\ anchors[h].status = "ACTIVE"
    /\ LET t == templates[anchors[h].template]
       IN  t # None /\ ParseDisclosedProof(p) /\ p.count = t.policy.count /\ p.indices \subseteq t.policy.indices

\* VerifyDisclosure: whether a sound proof that reveals p.indices of p.count
\* claims is valid, for a verifier that pinned a policy hash, or NoPin.
VerifyDisclosure(h, pin, p) ==
    /\ anchors[h] # None /\ anchors[h].status = "ACTIVE"
    /\ LET t == templates[anchors[h].template]
       IN  /\ t # None
           /\ pin # NoPin => pin = t.hash
           /\ ParseDisclosedProof(p)
           /\ p.count = t.policy.count
           /\ p.indices \subseteq t.policy.indices

-----------------------------------------------------------------------------
(* Agreements *)

\* CreateAgreement; the signers are a set: ValidateBasic refuses duplicates.
CreateAgreement(h, a, signers, deadline) ==
    /\ agreements[h] = None
    /\ signers # {} /\ Cardinality(signers) <= maxSigners
    /\ agreements' = [agreements EXCEPT ![h] =
           [creator |-> a, required |-> signers, signed |-> <<>>, deadline |-> deadline,
            status |-> "PENDING"]]
    /\ UNCHANGED <<identVars, templates, anchors, personal, maxSigners>>

\* The agreement after d's signature.
Signed(ag, d) ==
    LET signed == Append(ag.signed, d)
    IN  [ag EXCEPT !.signed = signed,
                   !.status = IF Len(signed) = Cardinality(ag.required)
                              THEN "COMPLETED" ELSE @]

\* Faulty signing: a DID may sign again.
SignTwice(h, d, a, k) ==
    /\ agreements[h] # None /\ agreements[h].status = "PENDING"
    /\ agreements[h].deadline # 0 => now <= agreements[h].deadline
    /\ d \in agreements[h].required
    /\ authDID(d, a, k)
    /\ agreements' = [agreements EXCEPT ![h] = Signed(@, d)]
    /\ UNCHANGED <<identVars, templates, anchors, personal, maxSigners>>

SignAgreement(h, d, a, k) ==
    /\ agreements[h] # None /\ agreements[h].status = "PENDING"
    /\ agreements[h].deadline # 0 => now <= agreements[h].deadline
    /\ d \in agreements[h].required
    /\ \A i \in DOMAIN agreements[h].signed : agreements[h].signed[i] # d
    /\ authDID(d, a, k)
    /\ agreements' = [agreements EXCEPT ![h] = Signed(@, d)]
    /\ UNCHANGED <<identVars, templates, anchors, personal, maxSigners>>

CancelAgreement(h, a) ==
    /\ agreements[h] # None /\ agreements[h].status = "PENDING"
    /\ agreements[h].creator = a
    /\ agreements' = [agreements EXCEPT ![h].status = "CANCELLED"]
    /\ UNCHANGED <<identVars, templates, anchors, personal, maxSigners>>

UpdateParams(n) ==
    /\ n > 0 /\ maxSigners' = n
    /\ UNCHANGED <<identVars, templates, anchors, agreements, personal>>

-----------------------------------------------------------------------------
Init ==
    /\ doc = Genesis /\ now = 0
    /\ templates = [id \in Templates |-> None]
    /\ anchors = [h \in Hashes |-> None]
    /\ agreements = [h \in Hashes |-> None]
    /\ personal = {}
    /\ maxSigners \in ParamSets

IdentityNext ==
    \E d \in Dids, s \in {"ACTIVE", "SUSPENDED", "REVOKED"}, a \in Accounts, k \in Keys :
        ChangeDoc(d, s, a, k)

TemplateNext ==
    \E id \in Templates, a \in Accounts :
        \/ \E d \in Dids, key \in BbsKeys, p \in Policies :
               RegisterCredentialTemplate(id, d, a, key, p)
        \/ \E p \in Policies : UpdateCredentialTemplate(id, a, p)
        \/ DeprecateCredentialTemplate(id, a)

AnchorNext ==
    \E h \in Hashes, a \in Accounts :
        \/ \E d, subject \in Dids, k \in Keys, id \in Templates, v \in 1..MaxVersion :
               AnchorCredential(h, d, a, k, subject, id, v)
        \/ RevokeCredential(h, a)
        \/ \E d \in Dids, k \in Keys : AnchorPersonal(d, a, k, h)

AgreementNext ==
    \/ \E h \in Hashes, a \in Accounts :
           \/ \E signers \in SUBSET Dids, deadline \in Deadlines :
                  CreateAgreement(h, a, signers, deadline)
           \/ \E d \in Dids, k \in Keys : SignAgreement(h, d, a, k)
           \/ CancelAgreement(h, a)
    \/ \E n \in ParamSets : UpdateParams(n)

-----------------------------------------------------------------------------
(* Properties *)

\* GenesisState.Validate on templates and anchors: after any updates, a
\* template's stored hash is that of its policy and version, and an anchor
\* names a known template at a version that template has reached.
AnchorsExportable ==
    /\ \A id \in Templates : templates[id] # None =>
           templates[id].hash = PolicyHash(id, templates[id].version, templates[id].policy)
    /\ \A h \in Hashes : anchors[h] # None =>
           /\ templates[anchors[h].template] # None
           /\ anchors[h].version <= templates[anchors[h].template].version

\* A verifier that pinned a policy hash, at whatever version, accepts only
\* proofs that reveal claims disclosable under the policy it pinned.
DisclosureWithinPin ==
    \A h \in Hashes, p, q \in Policies, id \in Templates, v \in 1..MaxVersion :
        VerifyDisclosure(h, PolicyHash(id, v, q), p) => p.indices \subseteq q.indices

\* An agreement is COMPLETED exactly when every required DID has signed it,
\* whatever becomes of their keys and controllers meanwhile.
CompletedIffAllSigned ==
    \A h \in Hashes : agreements[h] # None =>
        /\ IsInjective(agreements[h].signed)
        /\ Range(agreements[h].signed) \subseteq agreements[h].required
        /\ agreements[h].status = "COMPLETED"
               <=> Range(agreements[h].signed) = agreements[h].required

=============================================================================
