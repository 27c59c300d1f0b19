-------------------------- MODULE CredentialProofs -------------------------
(***************************************************************************)
(* Proofs in two independent parts.  Credentials and Elections, for any    *)
(* number of DIDs, templates, records, elections and voters: the runs      *)
(* follow one family of records at a time; the theorems are about          *)
(* JointSpec, in which every message of both modules may come at any time. *)
(* Enrolment, for any sets of keys, markers, issuers and nonces: one human *)
(* has one DID, and a nonce of an issuer registers once.                   *)
(***************************************************************************)
EXTENDS Elections, Enrolment, FiniteSetTheorems, TLAPS

\* Zenon by default, SMT where a step names it; the seconds each may take.
USE ZenonT(30)

\* Any message of x/credentials or x/voting, in any order.
JointNext ==
    /\ UNCHANGED family
    /\ \/ /\ IdentityNext \/ Tick \/ TemplateNext \/ AnchorNext \/ AgreementNext
          /\ UNCHANGED electionVars
       \/ ElectionNext

JointSpec == ElectionInit /\ [][JointNext]_allVars

-----------------------------------------------------------------------------
(* The inductive invariant *)

\* A stored template; its hash is the one its other fields determine.
TemplateAt(id, t) ==
    t \in [owner : Dids, key : BbsKeys, version : Nat, policy : Policies,
           hash : {PolicyHash(id, t.version, t.policy)},
           status : {"ACTIVE", "DEPRECATED"}]

TemplatesOK ==
    /\ DOMAIN templates = Templates
    /\ \A id \in Templates : templates[id] # None => TemplateAt(id, templates[id])

Anchor ==
    [template : Templates, version : Nat, issuer : Dids, subject : Dids,
     status : {"ACTIVE", "REVOKED"}]

AnchorsOK ==
    /\ DOMAIN anchors = Hashes
    /\ \A h \in Hashes : anchors[h] # None =>
           /\ anchors[h] \in Anchor
           /\ templates[anchors[h].template] # None
           /\ anchors[h].version <= templates[anchors[h].template].version

Agreement ==
    [creator : Accounts, required : SUBSET Dids, signed : Seq(Dids), deadline : Deadlines,
     status : {"PENDING", "COMPLETED", "CANCELLED"}]

\* The signatures of an agreement are of distinct required DIDs, so counting
\* them, as SignAgreement does, tells whether all have signed.
AgreementOK(ag) ==
    /\ ag \in Agreement
    /\ IsInjective(ag.signed)
    /\ Range(ag.signed) \subseteq ag.required
    /\ Cardinality(Range(ag.signed)) = Len(ag.signed)
    /\ ag.status = "COMPLETED" <=> Range(ag.signed) = ag.required

AgreementsOK ==
    /\ DOMAIN agreements = Hashes
    /\ \A h \in Hashes : agreements[h] # None => AgreementOK(agreements[h])

Election(n) ==
    [creator : Accounts, template : Templates, start : Nat, end : Nat,
     status : {"OPEN", "CLOSED", "CANCELLED"}, tallies : [1..n -> Nat], total : Nat]

\* An election's template stays in the store, with the key it had.
ElectionsOK ==
    /\ DOMAIN elections = Elections /\ keyAt = [e \in Elections |-> keyAt[e]]
    /\ \A e \in Elections : elections[e] # None =>
           /\ \E n \in Options : elections[e] \in Election(n)
           /\ templates[elections[e].template] # None
           /\ templates[elections[e].template].key = keyAt[e]

BallotsOK ==
    /\ DOMAIN ballots \in SUBSET (Elections \X Voters)
    /\ IsFiniteSet(DOMAIN ballots)
    /\ \A b \in DOMAIN ballots :
           elections[b[1]] # None /\ b[2] \in Holds[keyAt[b[1]]]

JointInv ==
    /\ now \in Nat
    /\ TemplatesOK /\ AnchorsOK /\ AgreementsOK
    /\ ElectionsOK /\ BallotsOK /\ TalliesMatchBallots

-----------------------------------------------------------------------------
(* Lemmas on the operators *)

\* d's signature on an agreement d has not signed: the list stays free of
\* repetitions, and its length says whether it is the last one needed.
LEMMA SignedStep ==
    ASSUME NEW ag \in Agreement, NEW d \in ag.required,
           IsInjective(ag.signed), Range(ag.signed) \subseteq ag.required,
           Cardinality(Range(ag.signed)) = Len(ag.signed),
           \A i \in DOMAIN ag.signed : ag.signed[i] # d,
           ag.status = "PENDING"
    PROVE  /\ Signed(ag, d) \in Agreement
           /\ Signed(ag, d).required = ag.required
           /\ IsInjective(Signed(ag, d).signed)
           /\ Range(Signed(ag, d).signed) \subseteq ag.required
           /\ Cardinality(Range(Signed(ag, d).signed)) = Len(Signed(ag, d).signed)
           /\ Signed(ag, d).status = "COMPLETED"
                  <=> Range(Signed(ag, d).signed) = ag.required
<1> DEFINE s == ag.signed
           t == Append(s, d)
<1>1. /\ s \in Seq(Dids) /\ d \in Dids /\ ag.required \in SUBSET Dids
      /\ DOMAIN ag = {"creator", "required", "signed", "deadline", "status"}
    BY DEF Agreement
<1>2. /\ t \in Seq(Dids) /\ Len(t) = Len(s) + 1 /\ Len(s) \in Nat
      /\ DOMAIN s = 1..Len(s) /\ DOMAIN t = 1..(Len(s) + 1)
      /\ t[Len(s) + 1] = d /\ \A i \in 1..Len(s) : t[i] = s[i]
    BY <1>1, SMTT(30)
<1>3. Range(t) = Range(s) \cup {d} /\ d \notin Range(s)
    BY <1>2, SMTT(30) DEF Range
<1>4. IsInjective(t)
    BY <1>2, SMTT(30) DEF IsInjective
<1>5. Range(t) \in SUBSET ag.required
    BY <1>3
<1>6. IsFiniteSet(ag.required)
    BY <1>1, CredentialBounds, FS_Subset
<1>7. IsFiniteSet(Range(s)) /\ IsFiniteSet(Range(t))
    BY <1>5, <1>6, FS_Subset
<1>8. Cardinality(Range(t)) = Len(t)
    BY <1>2, <1>3, <1>7, FS_AddElement
<1>9. Len(t) = Cardinality(ag.required) <=> Range(t) = ag.required
    BY <1>5, <1>6, <1>8, FS_Subset
<1>10. /\ Signed(ag, d).signed = t /\ Signed(ag, d).required = ag.required
       /\ Signed(ag, d).status =
              IF Len(t) = Cardinality(ag.required) THEN "COMPLETED" ELSE "PENDING"
    BY <1>1 DEF Signed
<1>11. Signed(ag, d) \in Agreement
    BY <1>1, <1>2 DEF Signed, Agreement
<1> HIDE DEF s, t
<1> QED
    BY <1>4, <1>5, <1>8, <1>9, <1>10, <1>11

\* No stored record is None.
LEMMA StoredIsNotNone ==
    /\ \A id : \A t : TemplateAt(id, t) => t # None
    /\ \A x \in Anchor : x # None
    /\ \A x \in Agreement : x # None
    /\ \A n : \A x \in Election(n) : x # None
BY SMTT(30) DEF None, TemplateAt, Anchor, Agreement, Election

-----------------------------------------------------------------------------
(* The steps *)

LEMMA JointInitInv == ElectionInit => JointInv
<1> SUFFICES ASSUME ElectionInit PROVE JointInv
    OBVIOUS
<1>1. now \in Nat /\ TemplatesOK /\ AnchorsOK /\ AgreementsOK
    BY DEF ElectionInit, Init, TemplatesOK, AnchorsOK, AgreementsOK
<1>2. DOMAIN ballots = {}
    BY DEF ElectionInit
<1>3. ElectionsOK /\ BallotsOK /\ TalliesMatchBallots
    BY <1>2, FS_EmptySet DEF ElectionInit, ElectionsOK, BallotsOK, TalliesMatchBallots
<1> QED
    BY <1>1, <1>3 DEF JointInv

\* A step that leaves every record alone.
LEMMA RecordsUnchanged ==
    ASSUME JointInv, now' \in Nat,
           UNCHANGED <<templates, anchors, agreements, electionVars>>
    PROVE  JointInv'
<1>1. TalliesMatchBallots'
    BY DEF JointInv, TalliesMatchBallots, VotesFor, BallotsOf, electionVars
<1> QED
    BY <1>1 DEF JointInv, TemplatesOK, AnchorsOK, AgreementsOK, ElectionsOK, BallotsOK,
       electionVars

\* A step that only stores template t under id: the issuer key stays when id
\* was taken, and the version never goes back.
LEMMA TemplateStored ==
    ASSUME JointInv, NEW id \in Templates, NEW t, TemplateAt(id, t),
           templates[id] # None =>
               t.key = templates[id].key /\ templates[id].version <= t.version,
           templates' = [templates EXCEPT ![id] = t],
           UNCHANGED <<now, anchors, agreements, electionVars>>
    PROVE  JointInv'
<1>1. TemplatesOK'
    BY DEF JointInv, TemplatesOK
<1>2. ASSUME NEW x \in Templates, templates[x] # None
      PROVE  /\ templates'[x] # None /\ templates'[x].key = templates[x].key
             /\ templates[x].version \in Nat /\ templates'[x].version \in Nat
             /\ templates[x].version <= templates'[x].version
    <2>1. TemplateAt(x, templates[x]) /\ TemplateAt(x, templates'[x])
        BY <1>1, <1>2 DEF JointInv, TemplatesOK
    <2>2. templates[x].version \in Nat /\ templates'[x].version \in Nat
        BY <2>1 DEF TemplateAt
    <2> QED
        BY <1>2, <2>1, <2>2, StoredIsNotNone, SMTT(30) DEF JointInv, TemplatesOK
<1>3. AnchorsOK'
    <2> SUFFICES ASSUME NEW h \in Hashes, anchors[h] # None
                 PROVE  /\ anchors[h] \in Anchor
                        /\ templates'[anchors[h].template] # None
                        /\ anchors[h].version <= templates'[anchors[h].template].version
        BY DEF JointInv, AnchorsOK
    <2>1. /\ anchors[h] \in Anchor /\ templates[anchors[h].template] # None
          /\ anchors[h].version <= templates[anchors[h].template].version
        BY DEF JointInv, AnchorsOK
    <2>2. anchors[h].template \in Templates /\ anchors[h].version \in Nat
        BY <2>1 DEF Anchor
    <2> QED
        BY <1>2, <2>1, <2>2, SMTT(30)
<1>4. ElectionsOK'
    <2> SUFFICES ASSUME NEW e \in Elections, elections[e] # None
                 PROVE  /\ templates'[elections[e].template] # None
                        /\ templates'[elections[e].template].key = keyAt[e]
        BY DEF JointInv, ElectionsOK, electionVars
    <2>1. PICK n \in Options : elections[e] \in Election(n)
        BY DEF JointInv, ElectionsOK
    <2>2. elections[e].template \in Templates
        BY <2>1 DEF Election
    <2> QED
        BY <1>2, <2>2 DEF JointInv, ElectionsOK
<1> QED
    BY <1>1, <1>3, <1>4 DEF JointInv, AgreementsOK, BallotsOK, TalliesMatchBallots,
       VotesFor, BallotsOf, electionVars

LEMMA TemplateStep == JointInv /\ TemplateNext /\ UNCHANGED electionVars => JointInv'
<1> SUFFICES ASSUME JointInv, UNCHANGED electionVars,
                    NEW id \in Templates, NEW a \in Accounts,
                    \/ \E d \in Dids, key \in BbsKeys, p \in Policies :
                           RegisterCredentialTemplate(id, d, a, key, p)
                    \/ \E p \in Policies : UpdateCredentialTemplate(id, a, p)
                    \/ DeprecateCredentialTemplate(id, a)
             PROVE  JointInv'
    BY DEF TemplateNext
<1>0. templates[id] # None => TemplateAt(id, templates[id])
    BY DEF JointInv, TemplatesOK
<1>1. ASSUME NEW d \in Dids, NEW key \in BbsKeys, NEW p \in Policies,
             RegisterCredentialTemplate(id, d, a, key, p)
      PROVE  JointInv'
    <2> DEFINE t == [owner |-> d, key |-> key, version |-> 1, policy |-> p,
                     hash |-> PolicyHash(id, 1, p), status |-> "ACTIVE"]
    <2>1. TemplateAt(id, t)
        BY DEF TemplateAt
    <2>2. /\ templates[id] = None /\ templates' = [templates EXCEPT ![id] = t]
          /\ UNCHANGED <<now, anchors, agreements>>
        BY <1>1 DEF RegisterCredentialTemplate, identVars
    <2> HIDE DEF t
    <2> QED
        BY <2>1, <2>2, TemplateStored
<1>2. ASSUME NEW p \in Policies, UpdateCredentialTemplate(id, a, p)
      PROVE  JointInv'
    <2> DEFINE o == templates[id]
               t == [o EXCEPT !.version = o.version + 1, !.policy = p,
                              !.hash = PolicyHash(id, o.version + 1, p)]
    <2>1. TemplateAt(id, o) /\ templates' = [templates EXCEPT ![id] = t]
        BY <1>0, <1>2 DEF UpdateCredentialTemplate
    <2>2. UNCHANGED <<now, anchors, agreements>>
        BY <1>2 DEF UpdateCredentialTemplate, identVars
    <2> HIDE DEF o
    <2>3. o.version \in Nat
        BY <2>1 DEF TemplateAt
    <2>4. t = [owner |-> o.owner, key |-> o.key, version |-> o.version + 1, policy |-> p,
               hash |-> PolicyHash(id, o.version + 1, p), status |-> o.status]
        <3> DEFINE n == o.version + 1
                   x == PolicyHash(id, n, p)
                   o1 == [o EXCEPT !.version = n]
                   o2 == [o1 EXCEPT !.policy = p]
                   o3 == [o2 EXCEPT !.hash = x]
        <3>1. o = [owner |-> o.owner, key |-> o.key, version |-> o.version,
                   policy |-> o.policy, hash |-> o.hash, status |-> o.status]
            BY <2>1 DEF TemplateAt
        <3> HIDE DEF n, x
        <3>2. o1 = [owner |-> o.owner, key |-> o.key, version |-> n,
                    policy |-> o.policy, hash |-> o.hash, status |-> o.status]
            BY <3>1, SMTT(30)
        <3> HIDE DEF o1
        <3>3. o2 = [owner |-> o.owner, key |-> o.key, version |-> n,
                    policy |-> p, hash |-> o.hash, status |-> o.status]
            BY <3>2, SMTT(30)
        <3> HIDE DEF o2
        <3>4. o3 = [owner |-> o.owner, key |-> o.key, version |-> n,
                    policy |-> p, hash |-> x, status |-> o.status]
            BY <3>3, SMTT(30)
        <3> QED
            BY <3>4 DEF n, x, o1, o2, o3
    <2>5. TemplateAt(id, t)
        BY <2>1, <2>3, <2>4, SMTT(30) DEF TemplateAt
    <2>6. t.key = o.key /\ o.version <= t.version
        BY <2>3, <2>4, SMTT(30)
    <2> HIDE DEF t
    <2> QED
        BY <2>1, <2>2, <2>5, <2>6, TemplateStored DEF o
<1>3. ASSUME DeprecateCredentialTemplate(id, a)
      PROVE  JointInv'
    <2> DEFINE o == templates[id]
               t == [o EXCEPT !.status = "DEPRECATED"]
    <2>1. TemplateAt(id, o) /\ templates' = [templates EXCEPT ![id] = t]
        BY <1>0, <1>3 DEF DeprecateCredentialTemplate
    <2>2. UNCHANGED <<now, anchors, agreements>>
        BY <1>3 DEF DeprecateCredentialTemplate, identVars
    <2> HIDE DEF o
    <2>3. TemplateAt(id, t) /\ t.key = o.key /\ o.version <= t.version
        BY <2>1, SMTT(30) DEF TemplateAt
    <2> HIDE DEF t
    <2> QED
        BY <2>1, <2>2, <2>3, TemplateStored DEF o
<1> QED
    BY <1>1, <1>2, <1>3

LEMMA AnchorStep == JointInv /\ AnchorNext /\ UNCHANGED electionVars => JointInv'
<1> SUFFICES ASSUME JointInv, UNCHANGED electionVars,
                    NEW h \in Hashes, NEW a \in Accounts,
                    \/ \E d, subject \in Dids, k \in Keys, id \in Templates, v \in 1..MaxVersion :
                           AnchorCredential(h, d, a, k, subject, id, v)
                    \/ RevokeCredential(h, a)
                    \/ \E d \in Dids, k \in Keys : AnchorPersonal(d, a, k, h)
             PROVE  JointInv'
    BY DEF AnchorNext
<1>1. UNCHANGED <<now, templates, agreements, electionVars>>
    BY DEF AnchorCredential, RevokeCredential, AnchorPersonal, identVars
<1>2. AnchorsOK'
    <2>1. ASSUME NEW d \in Dids, NEW subject \in Dids, NEW k \in Keys, NEW id \in Templates,
                 NEW v \in 1..MaxVersion, AnchorCredential(h, d, a, k, subject, id, v)
          PROVE  AnchorsOK'
        <3> DEFINE x == [template |-> id, version |-> v, issuer |-> d, subject |-> subject,
                         status |-> "ACTIVE"]
        <3>1. /\ anchors' = [anchors EXCEPT ![h] = x]
              /\ templates[id] # None /\ v <= templates[id].version
            BY <2>1, CredentialBounds, SMTT(30) DEF AnchorCredential
        <3>2. x \in Anchor /\ x.template = id /\ x.version = v
            BY CredentialBounds, SMTT(30) DEF Anchor
        <3> HIDE DEF x
        <3> QED
            BY <1>1, <3>1, <3>2 DEF JointInv, AnchorsOK
    <2>2. ASSUME RevokeCredential(h, a) PROVE AnchorsOK'
        <3> DEFINE o == anchors[h]
                   x == [o EXCEPT !.status = "REVOKED"]
        <3>1. anchors' = [anchors EXCEPT ![h] = x] /\ o # None
            BY <2>2 DEF RevokeCredential
        <3>2. o \in Anchor
            BY <3>1 DEF JointInv, AnchorsOK
        <3> HIDE DEF o
        <3>3. x \in Anchor /\ x.template = o.template /\ x.version = o.version
            BY <3>2 DEF Anchor
        <3> HIDE DEF x
        <3> QED
            BY <1>1, <3>1, <3>3 DEF JointInv, AnchorsOK, o
    <2>3. ASSUME NEW d \in Dids, NEW k \in Keys, AnchorPersonal(d, a, k, h) PROVE AnchorsOK'
        BY <1>1, <2>3 DEF AnchorPersonal, JointInv, AnchorsOK
    <2> QED
        BY <2>1, <2>2, <2>3
<1> QED
    BY <1>1, <1>2, SMTT(30) DEF JointInv, TemplatesOK, AgreementsOK, ElectionsOK, BallotsOK,
       TalliesMatchBallots, VotesFor, BallotsOf, electionVars

LEMMA AgreementStep == JointInv /\ AgreementNext /\ UNCHANGED electionVars => JointInv'
<1> SUFFICES ASSUME JointInv, AgreementNext, UNCHANGED electionVars
             PROVE  JointInv'
    OBVIOUS
<1>1. UNCHANGED <<now, templates, anchors, electionVars>>
    BY DEF AgreementNext, CreateAgreement, SignAgreement, CancelAgreement, UpdateParams, identVars
<1>2. /\ DOMAIN agreements = Hashes
      /\ \A h \in Hashes : agreements[h] # None => AgreementOK(agreements[h])
    BY DEF JointInv, AgreementsOK
<1>3. ASSUME NEW h \in Hashes, NEW x, AgreementOK(x), agreements' = [agreements EXCEPT ![h] = x]
      PROVE  AgreementsOK'
    <2>1. /\ DOMAIN agreements' = Hashes
          /\ \A g \in Hashes : agreements'[g] # None => AgreementOK(agreements'[g])
        BY <1>2, <1>3
    <2> QED
        BY <2>1 DEF AgreementsOK
<1>4. AgreementsOK'
    <2>1. ASSUME NEW h \in Hashes, NEW a \in Accounts, NEW signers \in SUBSET Dids,
                 NEW deadline \in Deadlines, CreateAgreement(h, a, signers, deadline)
          PROVE  AgreementsOK'
        <3> DEFINE x == [creator |-> a, required |-> signers, signed |-> <<>>,
                         deadline |-> deadline, status |-> "PENDING"]
        <3>1. agreements' = [agreements EXCEPT ![h] = x] /\ signers # {}
            BY <2>1 DEF CreateAgreement
        <3>2. x \in Agreement /\ x.signed = <<>> /\ x.required = signers /\ x.status = "PENDING"
            BY SMTT(30) DEF Agreement
        <3> HIDE DEF x
        <3>3. Range(x.signed) = {} /\ IsInjective(x.signed) /\ Len(x.signed) = 0
            BY <3>2, SMTT(30) DEF Range, IsInjective
        <3>4. AgreementOK(x)
            BY <3>1, <3>2, <3>3, FS_EmptySet DEF AgreementOK
        <3> QED
            BY <1>3, <3>1, <3>4
    <2>2. ASSUME NEW h \in Hashes, NEW a \in Accounts, NEW d \in Dids, NEW k \in Keys,
                 SignAgreement(h, d, a, k)
          PROVE  AgreementsOK'
        <3> DEFINE o == agreements[h]
        <3>1. /\ agreements' = [agreements EXCEPT ![h] = Signed(o, d)]
              /\ o # None /\ o.status = "PENDING" /\ d \in o.required
              /\ \A i \in DOMAIN o.signed : o.signed[i] # d
            BY <2>2 DEF SignAgreement
        <3>2. AgreementOK(o)
            BY <1>2, <3>1
        <3> HIDE DEF o
        <3>3. AgreementOK(Signed(o, d))
            BY <3>1, <3>2, SignedStep DEF AgreementOK
        <3> QED
            BY <1>3, <3>1, <3>3
    <2>3. ASSUME NEW h \in Hashes, NEW a \in Accounts, CancelAgreement(h, a)
          PROVE  AgreementsOK'
        <3> DEFINE o == agreements[h]
                   x == [o EXCEPT !.status = "CANCELLED"]
        <3>1. agreements' = [agreements EXCEPT ![h] = x] /\ o # None /\ o.status = "PENDING"
            BY <2>3 DEF CancelAgreement
        <3>2. AgreementOK(o)
            BY <1>2, <3>1
        <3> HIDE DEF o
        <3>3. /\ x \in Agreement /\ x.signed = o.signed /\ x.required = o.required
              /\ x.status = "CANCELLED"
            BY <3>2 DEF AgreementOK, Agreement
        <3> HIDE DEF x
        <3>4. AgreementOK(x)
            BY <3>1, <3>2, <3>3 DEF AgreementOK
        <3> QED
            BY <1>3, <3>1, <3>4
    <2>4. ASSUME NEW n \in ParamSets, UpdateParams(n) PROVE AgreementsOK'
        BY <2>4 DEF UpdateParams, JointInv, AgreementsOK
    <2> QED
        BY <2>1, <2>2, <2>3, <2>4 DEF AgreementNext
<1>5. now' \in Nat /\ TemplatesOK' /\ AnchorsOK'
    BY <1>1 DEF JointInv, TemplatesOK, AnchorsOK
<1>6. ElectionsOK' /\ BallotsOK'
    BY <1>1 DEF JointInv, ElectionsOK, BallotsOK, electionVars
<1>7. TalliesMatchBallots'
    <2>1. elections' = elections /\ ballots' = ballots /\ TalliesMatchBallots
        BY <1>1 DEF electionVars, JointInv
    <2>2. \A e, i : VotesFor(e, i)' = VotesFor(e, i) /\ BallotsOf(e)' = BallotsOf(e)
        BY <2>1 DEF VotesFor, BallotsOf
    <2> QED
        BY <2>1, <2>2 DEF TalliesMatchBallots
<1> QED
    BY <1>4, <1>5, <1>6, <1>7 DEF JointInv

\* A step that stores x as election e and leaves the ballots alone.
LEMMA ElectionStored ==
    ASSUME JointInv, NEW e \in Elections, NEW n \in Options, NEW x \in Election(n), NEW key,
           elections' = [elections EXCEPT ![e] = x],
           keyAt' = [keyAt EXCEPT ![e] = key],
           BallotsOf(e) # {} => key = keyAt[e],
           templates[x.template] # None, templates[x.template].key = key,
           \A i \in DOMAIN x.tallies :
               x.tallies[i] = Cardinality(VotesFor(e, i)),
           x.total = Cardinality(BallotsOf(e)),
           UNCHANGED <<vars, ballots>>
    PROVE  JointInv'
<1>1. /\ UNCHANGED <<now, templates, anchors, agreements, ballots>>
      /\ \A g : BallotsOf(g)' = BallotsOf(g) /\ \A i : VotesFor(g, i)' = VotesFor(g, i)
    BY DEF vars, identVars, BallotsOf, VotesFor
<1>2. ElectionsOK'
    <2>1. DOMAIN elections' = Elections /\ keyAt' = [g \in Elections |-> keyAt'[g]]
        BY DEF JointInv, ElectionsOK
    <2>2. /\ elections'[e] = x /\ keyAt'[e] = key
          /\ \A g \in Elections \ {e} : elections'[g] = elections[g] /\ keyAt'[g] = keyAt[g]
        BY DEF JointInv, ElectionsOK
    <2> QED
        BY <1>1, <2>1, <2>2 DEF JointInv, ElectionsOK
<1>3. BallotsOK'
    <2> SUFFICES ASSUME NEW b \in DOMAIN ballots
                 PROVE  elections'[b[1]] # None /\ b[2] \in Holds[keyAt'[b[1]]]
        BY <1>1 DEF JointInv, BallotsOK
    <2>1. /\ b[1] \in Elections
          /\ elections[b[1]] # None /\ b[2] \in Holds[keyAt[b[1]]]
        BY DEF JointInv, BallotsOK
    <2>2. CASE b[1] = e
        <3>1. key = keyAt[e] /\ elections'[e] = x /\ keyAt'[e] = key
            BY <2>2 DEF BallotsOf, JointInv, ElectionsOK
        <3> QED
            BY <2>1, <2>2, <3>1, StoredIsNotNone
    <2>3. CASE b[1] # e
        BY <2>1, <2>3, SMTT(30)
    <2> QED
        BY <2>2, <2>3
<1>4. TalliesMatchBallots'
    <2> SUFFICES ASSUME NEW g \in Elections, elections'[g] # None
                 PROVE  /\ \A i \in DOMAIN elections'[g].tallies :
                               elections'[g].tallies[i] = Cardinality(VotesFor(g, i))
                        /\ elections'[g].total = Cardinality(BallotsOf(g))
        BY <1>1 DEF TalliesMatchBallots
    <2>1. CASE g = e
        BY <2>1 DEF JointInv, ElectionsOK
    <2>2. CASE g # e
        BY <2>2, SMTT(30) DEF JointInv, TalliesMatchBallots
    <2> QED
        BY <2>1, <2>2
<1> QED
    BY <1>1, <1>2, <1>3, <1>4 DEF JointInv, TemplatesOK, AnchorsOK, AgreementsOK

\* A ballot is stored and counted in the same step, under a key the store did
\* not hold.
LEMMA CastVoteStep ==
    ASSUME JointInv, NEW e \in Elections, NEW v \in Voters, NEW i, CastVote(e, v, i)
    PROVE  JointInv'
<1> DEFINE el == elections[e]
           x == Counted(el, i)
           k == <<e, v>>
<1>1. /\ UNCHANGED <<now, templates, anchors, agreements, keyAt>>
      /\ el # None /\ i \in DOMAIN el.tallies /\ k \notin DOMAIN ballots
      /\ VerifyDerivationVote(templates[el.template].key, v)
      /\ ballots' = SetBallot(k, [option |-> i, at |-> now])
      /\ elections' = [elections EXCEPT ![e] = x]
    BY DEF CastVote, vars, identVars
<1>2. PICK n \in Options : el \in Election(n)
    BY <1>1 DEF JointInv, ElectionsOK
<1>3. /\ DOMAIN ballots' = DOMAIN ballots \cup {k} /\ ballots'[k].option = i
      /\ \A b \in DOMAIN ballots : ballots'[b] = ballots[b]
    BY <1>1 DEF SetBallot
<1>4. /\ templates[el.template] # None /\ templates[el.template].key = keyAt[e]
      /\ \A j \in DOMAIN el.tallies :
             el.tallies[j] = Cardinality(VotesFor(e, j))
      /\ el.total = Cardinality(BallotsOf(e))
      /\ DOMAIN elections = Elections
    BY <1>1 DEF JointInv, ElectionsOK, TalliesMatchBallots
<1> HIDE DEF el
<1>5. /\ x \in Election(n) /\ x.template = el.template /\ x.total = el.total + 1
      /\ DOMAIN x.tallies = DOMAIN el.tallies
      /\ x.tallies[i] = el.tallies[i] + 1
      /\ \A j \in DOMAIN el.tallies \ {i} : x.tallies[j] = el.tallies[j]
    <2> DEFINE f == el.tallies
               t == [f EXCEPT ![i] = f[i] + 1]
               y == [el EXCEPT !.tallies = t]
    <2>1. f \in [1..n -> Nat] /\ el.total \in Nat /\ i \in 1..n
        BY <1>1, <1>2 DEF Election
    <2>2. x = [y EXCEPT !.total = @ + 1]
        BY DEF Counted
    <2> HIDE DEF f
    <2>3. /\ t \in [1..n -> Nat] /\ t[i] = f[i] + 1
          /\ \A j \in 1..n : j # i => t[j] = f[j]
        BY <2>1, SMTT(30)
    <2> HIDE DEF t
    <2>4. y \in Election(n) /\ y.tallies = t /\ y.template = el.template /\ y.total = el.total
        BY <1>2, <2>3 DEF Election
    <2> HIDE DEF x, y
    <2>5. /\ x \in Election(n) /\ x.tallies = t /\ x.template = el.template
          /\ x.total = el.total + 1
        BY <2>1, <2>2, <2>4, SMTT(30) DEF Election
    <2> QED
        BY <2>1, <2>3, <2>5 DEF f
<1> HIDE DEF x
<1>6. /\ elections'[e] = x /\ \A g \in Elections \ {e} : elections'[g] = elections[g]
      /\ DOMAIN elections' = Elections
    BY <1>1, <1>4
<1>7. ElectionsOK'
    BY <1>1, <1>2, <1>4, <1>5, <1>6 DEF JointInv, ElectionsOK
<1>8. BallotsOK'
    <2>1. DOMAIN ballots' \in SUBSET (Elections \X Voters) /\ IsFiniteSet(DOMAIN ballots')
        BY <1>3, FS_AddElement, SMTT(30) DEF JointInv, BallotsOK
    <2>2. x # None
        BY <1>5, StoredIsNotNone
    <2>3. k[1] = e /\ k[2] = v /\ v \in Holds[keyAt[e]]
        BY <1>1, <1>4 DEF VerifyDerivationVote
    <2>4. ASSUME NEW b \in DOMAIN ballots
          PROVE  elections'[b[1]] # None /\ b[2] \in Holds[keyAt'[b[1]]]
        BY <1>1, <1>6, <2>2 DEF JointInv, BallotsOK
    <2> QED
        BY <1>1, <1>3, <1>6, <2>1, <2>2, <2>3, <2>4, SMTT(30) DEF BallotsOK
<1>9. TalliesMatchBallots'
    <2> SUFFICES ASSUME NEW g \in Elections, elections'[g] # None
                 PROVE  /\ \A j \in DOMAIN elections'[g].tallies :
                               elections'[g].tallies[j] = Cardinality(VotesFor(g, j)')
                        /\ elections'[g].total = Cardinality(BallotsOf(g)')
        BY DEF TalliesMatchBallots
    <2>1. CASE g # e
        <3>1. BallotsOf(g)' = BallotsOf(g)
            BY <1>3, <2>1, SMTT(30) DEF BallotsOf
        <3>2. ASSUME NEW j
              PROVE  VotesFor(g, j)' = VotesFor(g, j)
            BY <1>3, <3>1 DEF BallotsOf, VotesFor
        <3> QED
            BY <1>6, <2>1, <3>1, <3>2, SMTT(30) DEF JointInv, TalliesMatchBallots
    <2>2. CASE g = e
        <3>1. BallotsOf(e)' = BallotsOf(e) \cup {k} /\ k \notin BallotsOf(e)
            BY <1>1, <1>3, SMTT(30) DEF BallotsOf
        <3>2. IsFiniteSet(BallotsOf(e))
            BY FS_Subset DEF JointInv, BallotsOK, BallotsOf
        <3>3. x.total = Cardinality(BallotsOf(e)')
            BY <1>4, <1>5, <3>1, <3>2, FS_AddElement
        <3>4. ASSUME NEW j \in DOMAIN x.tallies
              PROVE  x.tallies[j] = Cardinality(VotesFor(e, j)')
            <4>1. IsFiniteSet(VotesFor(e, j)) /\ k \notin VotesFor(e, j)
                BY <3>1, <3>2, FS_Subset DEF VotesFor
            <4>2. CASE j = i
                <5>1. VotesFor(e, j)' = VotesFor(e, j) \cup {k}
                    BY <1>3, <3>1, <4>2 DEF BallotsOf, VotesFor
                <5> QED
                    BY <1>1, <1>4, <1>5, <4>1, <4>2, <5>1, FS_AddElement
            <4>3. CASE j # i
                <5>1. VotesFor(e, j)' = VotesFor(e, j)
                    BY <1>3, <3>1, <4>3 DEF BallotsOf, VotesFor
                <5> QED
                    BY <1>4, <1>5, <4>3, <5>1
            <4> QED
                BY <4>2, <4>3
        <3> QED
            BY <1>6, <2>2, <3>3, <3>4
    <2> QED
        BY <2>1, <2>2
<1> QED
    BY <1>1, <1>7, <1>8, <1>9 DEF JointInv, TemplatesOK, AnchorsOK, AgreementsOK

LEMMA ElectionStep == JointInv /\ ElectionNext => JointInv'
<1> SUFFICES ASSUME JointInv, ElectionNext PROVE JointInv'
    OBVIOUS
<1>1. ASSUME NEW e \in Elections, NEW a \in Accounts, NEW n \in Options, NEW w \in Windows,
             NEW id \in Templates, CreateElection(e, a, n, w, id)
      PROVE  JointInv'
    <2> DEFINE start == IF w[1] = 0 THEN now ELSE w[1]
               f == [i \in 1..n |-> 0]
               x == [creator |-> a, template |-> id, start |-> start, end |-> w[2],
                     status |-> "OPEN", tallies |-> f, total |-> 0]
    <2>1. /\ elections[e] = None /\ templates[id] # None
          /\ elections' = [elections EXCEPT ![e] = x]
          /\ keyAt' = [keyAt EXCEPT ![e] = templates[id].key]
          /\ UNCHANGED <<vars, ballots>>
        BY <1>1 DEF CreateElection
    <2>2. w[1] \in Nat /\ w[2] \in Nat /\ start \in Nat
        BY ElectionBounds DEF JointInv
    <2>3. f \in [1..n -> Nat] /\ DOMAIN f = 1..n /\ \A i \in 1..n : f[i] = 0
        OBVIOUS
    <2> HIDE DEF start, f
    <2>4. x \in Election(n) /\ x.template = id /\ x.tallies = f /\ x.total = 0
        BY <2>2, <2>3 DEF Election
    <2>5. BallotsOf(e) = {}
        BY <2>1 DEF JointInv, BallotsOK, BallotsOf
    <2>6. \A i : VotesFor(e, i) = {}
        BY <2>5 DEF VotesFor
    <2> HIDE DEF x
    <2> QED
        BY <2>1, <2>3, <2>4, <2>5, <2>6, FS_EmptySet, ElectionStored
<1>2. ASSUME NEW e \in Elections, NEW s \in {"CLOSED", "CANCELLED"}, elections[e] # None,
             elections' = [elections EXCEPT ![e].status = s],
             UNCHANGED <<vars, ballots, vparams, keyAt>>
      PROVE  JointInv'
    <2> DEFINE o == elections[e]
               x == [o EXCEPT !.status = s]
    <2>1. PICK n \in Options : o \in Election(n)
        BY <1>2 DEF JointInv, ElectionsOK
    <2>2. elections' = [elections EXCEPT ![e] = x]
        BY <1>2
    <2>5. keyAt' = [keyAt EXCEPT ![e] = keyAt[e]]
        BY <1>2 DEF JointInv, ElectionsOK
    <2>3. /\ templates[o.template] # None /\ templates[o.template].key = keyAt[e]
          /\ \A i \in DOMAIN o.tallies : o.tallies[i] = Cardinality(VotesFor(e, i))
          /\ o.total = Cardinality(BallotsOf(e))
        BY <1>2 DEF JointInv, ElectionsOK, TalliesMatchBallots
    <2> HIDE DEF o
    <2>4. /\ x \in Election(n) /\ x.template = o.template /\ x.tallies = o.tallies
          /\ x.total = o.total
        BY <2>1 DEF Election
    <2> HIDE DEF x
    <2>6. /\ templates[x.template] # None /\ templates[x.template].key = keyAt[e]
          /\ \A i \in DOMAIN x.tallies : x.tallies[i] = Cardinality(VotesFor(e, i))
          /\ x.total = Cardinality(BallotsOf(e))
        BY <2>3, <2>4
    <2>7. UNCHANGED <<vars, ballots>>
        BY <1>2
    <2> QED
        BY <2>2, <2>4, <2>5, <2>6, <2>7, ElectionStored
<1>3. ASSUME NEW p \in VotingParams, UpdateVotingParams(p) PROVE JointInv'
    <2>1. UNCHANGED <<now, templates, anchors, agreements, elections, ballots, keyAt>>
        BY <1>3 DEF UpdateVotingParams, vars, identVars
    <2>2. TalliesMatchBallots'
        BY <2>1 DEF JointInv, TalliesMatchBallots, VotesFor, BallotsOf
    <2> QED
        BY <2>1, <2>2 DEF JointInv, TemplatesOK, AnchorsOK, AgreementsOK, ElectionsOK, BallotsOK
<1> QED
    BY <1>1, <1>2, <1>3, CastVoteStep DEF ElectionNext, CloseElection, CancelElection

LEMMA JointNextInv == JointInv /\ [JointNext]_allVars => JointInv'
<1> SUFFICES ASSUME JointInv, [JointNext]_allVars PROVE JointInv'
    OBVIOUS
<1>1. ASSUME IdentityNext \/ Tick, UNCHANGED electionVars PROVE JointInv'
    <2>1. now' \in Nat /\ UNCHANGED <<templates, anchors, agreements>>
        BY <1>1, SMTT(30) DEF IdentityNext, ChangeDoc, Tick, JointInv
    <2> QED
        BY <1>1, <2>1, RecordsUnchanged
<1>2. CASE UNCHANGED allVars
    <2>1. now' \in Nat /\ UNCHANGED <<templates, anchors, agreements, electionVars>>
        BY <1>2 DEF allVars, vars, identVars, JointInv
    <2> QED
        BY <2>1, RecordsUnchanged
<1> QED
    BY <1>1, <1>2, TemplateStep, AnchorStep, AgreementStep, ElectionStep DEF JointNext

-----------------------------------------------------------------------------
(* Theorems *)

LEMMA JointInvariant == JointSpec => []JointInv
<1> QED
    BY JointInitInv, JointNextInv, PTL DEF JointSpec

\* The runs' specification, which follows one family of records, is one way
\* to behave under JointSpec.
THEOREM FamiliesAreJoint == ElectionSpec => JointSpec
<1>1. [AllNext]_allVars => [JointNext]_allVars
    BY DEF AllNext, JointNext
<1> QED
    BY <1>1, PTL DEF ElectionSpec, JointSpec

\* UpdateCredentialTemplate and AnchorCredential: a template's stored hash is
\* always that of its policy and version, and no anchor is ahead of, or
\* without, its template, so the exported state passes its own validation.
THEOREM AnchorsAlwaysExportable == JointSpec => []AnchorsExportable
<1>1. JointInv => AnchorsExportable
    BY DEF JointInv, TemplatesOK, AnchorsOK, TemplateAt, AnchorsExportable
<1> QED
    BY <1>1, JointInvariant, PTL

\* VerifyDisclosure: whatever a template's policy has become, a verifier that
\* pinned a policy hash accepts only what the pinned policy discloses.
THEOREM PinBoundsDisclosure == JointSpec => []DisclosureWithinPin
<1>1. JointInv => DisclosureWithinPin
    <2> SUFFICES ASSUME JointInv, NEW h \in Hashes, NEW p \in Policies, NEW q \in Policies,
                        NEW id \in Templates, NEW v \in 1..MaxVersion,
                        VerifyDisclosure(h, PolicyHash(id, v, q), p)
                 PROVE  p.indices \subseteq q.indices
        BY DEF DisclosureWithinPin
    <2> DEFINE i == anchors[h].template
               t == templates[i]
    <2>1. anchors[h] # None /\ t # None /\ p.indices \subseteq t.policy.indices
        BY DEF VerifyDisclosure
    <2>2. i \in Templates
        BY <2>1 DEF JointInv, AnchorsOK, Anchor
    <2>3. t.hash = PolicyHash(i, t.version, t.policy)
        BY <2>1, <2>2 DEF JointInv, TemplatesOK, TemplateAt
    <2>4. PolicyHash(id, v, q) = t.hash
        BY DEF VerifyDisclosure, PolicyHash, NoPin
    <2>5. q.indices = t.policy.indices
        BY <2>3, <2>4, SMTT(30) DEF PolicyHash
    <2> QED
        BY <2>1, <2>5
<1> QED
    BY <1>1, JointInvariant, PTL

\* SignAgreement counts signatures, and counting is enough: an agreement is
\* COMPLETED exactly when every required DID is among the signers.
THEOREM CompletionCorrect == JointSpec => []CompletedIffAllSigned
<1>1. JointInv => CompletedIffAllSigned
    BY DEF JointInv, AgreementsOK, AgreementOK, CompletedIffAllSigned
<1> QED
    BY <1>1, JointInvariant, PTL

\* CastVote: the tallies an election carries are those of a recount of the
\* ballots in the store, for every option and in total.
THEOREM TalliesCorrect == JointSpec => []TalliesMatchBallots
<1>1. JointInv => TalliesMatchBallots
    BY DEF JointInv
<1> QED
    BY <1>1, JointInvariant, PTL

\* CreateElection and UpdateCredentialTemplate: the issuer key that admits
\* ballots to an election is the one of its creation, for good.
THEOREM ElectorateCorrect == JointSpec => []ElectorateFixed
<1>1. JointInv => ElectorateFixed
    BY DEF JointInv, ElectionsOK, BallotsOK, ElectorateFixed
<1> QED
    BY <1>1, JointInvariant, PTL

-----------------------------------------------------------------------------
(* Enrolment (module Enrolment) *)

\* What the proof needs of the types.
StoreOK ==
    /\ document \in [RegistrantKeys -> Docs \cup {NoDoc}]
    /\ uniq \in [Markers -> RegistrantKeys \cup {NoOwner}]
    /\ count \in Nat
    /\ attested \subseteq Attestations

\* Registrations have left their nonce in the store.
GroundsMarked == \A g \in grounds : <<g.issuer, g.nonce>> \in nonces

EnrolInv == StoreOK /\ OneHumanOneDid /\ GroundsMarked /\ NonceSingleUse

\* The set of registered DIDs is finite, so that IdentityCount can count it.
LEMMA EnrolledFinite == IsFiniteSet(Enrolled)
<1>1. Enrolled \subseteq RegistrantKeys
  BY DEF Enrolled
<1> QED
  BY <1>1, KeysFinite, FS_Subset

\* A store without documents satisfies the invariant.
LEMMA EnrolInitInv == EnrolInit => EnrolInv
<1> SUFFICES ASSUME EnrolInit PROVE EnrolInv
  OBVIOUS
<1>1. StoreOK
  BY DEF EnrolInit, StoreOK, Attestations
<1>2. Enrolled = {}
  BY DEF EnrolInit, Enrolled, HasIdentity
<1>3. OneHumanOneDid
  BY <1>2, FS_EmptySet, Distinguished DEF EnrolInit, OneHumanOneDid, HasIdentity
<1> QED
  BY <1>1, <1>3 DEF EnrolInv, GroundsMarked, NonceSingleUse, EnrolInit

\* RegisterIdentity takes a free marker and a free DID, raises the counter by
\* one and marks a nonce that no registration has used.
LEMMA RegisterInv ==
    ASSUME EnrolInv, NEW i \in Issuers, NEW att \in attested, RegisterIdentity(i, att)
    PROVE  EnrolInv'
<1>1. att \in Attestations
  BY DEF EnrolInv, StoreOK
<1> DEFINE k == att.key
           m == att.marker
           d0 == [key |-> k, marker |-> m, status |-> "ACTIVE"]
<1>2. k \in RegistrantKeys /\ m \in Markers /\ d0 \in Docs
  BY <1>1 DEF Attestations, Docs
<1>3. d0 # NoDoc /\ d0.marker = m
  BY <1>2, Distinguished
<1>4. document' = [document EXCEPT ![k] = d0] /\ uniq' = [uniq EXCEPT ![m] = k]
  BY DEF RegisterIdentity
<1>5. document[k] = NoDoc /\ uniq[m] = NoOwner
  BY DEF RegisterIdentity, HasIdentity, HasUniqueness
<1> HIDE DEF d0, k, m
<1>6. StoreOK'
  <2>1. count' = count + 1 /\ attested' = attested
    BY DEF RegisterIdentity
  <2>2. document' \in [RegistrantKeys -> Docs \cup {NoDoc}]
    BY <1>2, <1>4 DEF EnrolInv, StoreOK
  <2>3. uniq' \in [Markers -> RegistrantKeys \cup {NoOwner}]
    BY <1>2, <1>4 DEF EnrolInv, StoreOK
  <2> QED
    BY <2>1, <2>2, <2>3, SMTT(30) DEF EnrolInv, StoreOK
<1>7. Enrolled' = Enrolled \cup {k} /\ k \notin Enrolled
  BY <1>2, <1>3, <1>4, <1>5 DEF EnrolInv, StoreOK, Enrolled, HasIdentity
<1>8. count' = Cardinality(Enrolled')
  <2>1. count' = count + 1
    BY DEF RegisterIdentity
  <2>2. Cardinality(Enrolled') = Cardinality(Enrolled) + 1
    BY <1>7, EnrolledFinite, FS_AddElement
  <2> QED
    BY <2>1, <2>2 DEF EnrolInv, OneHumanOneDid
<1>9. ASSUME NEW n \in Markers, NEW d \in RegistrantKeys
      PROVE  uniq'[n] = d <=> (document'[d] # NoDoc /\ document'[d].marker = n)
  <2>1. uniq[n] = d <=> (document[d] # NoDoc /\ document[d].marker = n)
    BY DEF EnrolInv, OneHumanOneDid, HasIdentity
  <2>2. CASE d = k
    <3>1. document'[d] = d0
      BY <1>2, <1>4, <2>2 DEF EnrolInv, StoreOK
    <3>2. n # m => uniq'[n] = uniq[n]
      BY <1>2, <1>4 DEF EnrolInv, StoreOK
    <3>3. uniq[n] # d
      BY <2>1, <1>5, <2>2
    <3>4. n = m => uniq'[n] = d
      BY <1>2, <1>4, <2>2 DEF EnrolInv, StoreOK
    <3> QED
      BY <3>1, <3>2, <3>3, <3>4, <1>3
  <2>3. CASE d # k
    <3>1. document'[d] = document[d]
      BY <1>2, <1>4, <2>3 DEF EnrolInv, StoreOK
    <3>2. n # m => uniq'[n] = uniq[n]
      BY <1>2, <1>4 DEF EnrolInv, StoreOK
    <3>3. n = m => (uniq'[n] = k /\ uniq[n] # d)
      BY <1>2, <1>4, <1>5, Distinguished DEF EnrolInv, StoreOK
    <3> QED
      BY <2>1, <2>3, <3>1, <3>2, <3>3
  <2> QED
    BY <2>2, <2>3
<1>10. OneHumanOneDid'
  BY <1>8, <1>9 DEF OneHumanOneDid, HasIdentity
<1> DEFINE g0 == [issuer |-> i, nonce |-> att.nonce, did |-> att.key]
<1>11. /\ grounds' = grounds \cup {g0}
       /\ nonces' = nonces \cup {<<i, att.nonce>>}
       /\ <<i, att.nonce>> \notin nonces
       /\ g0.issuer = i /\ g0.nonce = att.nonce
  BY DEF RegisterIdentity, verifyRegistration
<1> HIDE DEF g0
<1>12. GroundsMarked'
  BY <1>11 DEF EnrolInv, GroundsMarked
<1>13. NonceSingleUse'
  BY <1>11, SMTT(30) DEF EnrolInv, GroundsMarked, NonceSingleUse
<1> QED
  BY <1>6, <1>10, <1>12, <1>13 DEF EnrolInv

\* Steps that write a document anew keep its marker, whatever they do to its
\* key and status, and leave the rest of what the invariant speaks of alone.
LEMMA RewriteInv ==
    ASSUME EnrolInv, NEW d \in RegistrantKeys, document[d] # NoDoc,
           NEW e \in Docs, e.marker = document[d].marker,
           document' = [document EXCEPT ![d] = e],
           UNCHANGED <<uniq, nonces, count, attested, grounds>>
    PROVE  EnrolInv'
<1>1. StoreOK'
  BY DEF EnrolInv, StoreOK
<1>2. e # NoDoc
  BY Distinguished
<1>3. \A c \in RegistrantKeys : (document'[c] # NoDoc <=> document[c] # NoDoc)
                      /\ (document[c] # NoDoc => document'[c].marker = document[c].marker)
  BY <1>2 DEF EnrolInv, StoreOK
<1>4. Enrolled' = Enrolled
  BY <1>3 DEF Enrolled, HasIdentity
<1>5. OneHumanOneDid'
  BY <1>3, <1>4, SMTT(30) DEF EnrolInv, OneHumanOneDid, HasIdentity
<1> QED
  BY <1>1, <1>5 DEF EnrolInv, GroundsMarked, NonceSingleUse

\* The uniqueness store rebuilt from the documents is the one exported.
LEMMA RebuiltExact == EnrolInv => Rebuilt = uniq
<1> SUFFICES ASSUME EnrolInv PROVE Rebuilt = uniq
  OBVIOUS
<1>1. ASSUME NEW m \in Markers PROVE Rebuilt[m] = uniq[m]
  <2>1. CASE uniq[m] \in RegistrantKeys
    <3>1. uniq[m] \in Enrolled /\ document[uniq[m]].marker = m
      BY <2>1 DEF EnrolInv, OneHumanOneDid, Enrolled
    <3>2. \A d \in Enrolled : document[d].marker = m => d = uniq[m]
      BY DEF EnrolInv, OneHumanOneDid, Enrolled
    <3>3. (CHOOSE d \in Enrolled : document[d].marker = m) = uniq[m]
      BY <3>1, <3>2
    <3> QED
      BY <3>1, <3>3 DEF Rebuilt
  <2>2. CASE uniq[m] = NoOwner
    <3>1. ~ \E d \in Enrolled : document[d].marker = m
      BY <2>2, Distinguished DEF EnrolInv, OneHumanOneDid, Enrolled
    <3> QED
      BY <3>1, <2>2 DEF Rebuilt
  <2> QED
    BY <2>1, <2>2 DEF EnrolInv, StoreOK
<1> QED
  BY <1>1 DEF Rebuilt, EnrolInv, StoreOK

\* Every step keeps the invariant.
LEMMA EnrolNextInv == EnrolInv /\ [EnrolNext]_enrolVars => EnrolInv'
<1> SUFFICES ASSUME EnrolInv, [EnrolNext]_enrolVars PROVE EnrolInv'
  OBVIOUS
<1>1. ASSUME UNCHANGED <<document, uniq, nonces, count, grounds>>, attested' \subseteq Attestations
      PROVE  EnrolInv'
  <2>1. Enrolled' = Enrolled
    BY <1>1 DEF Enrolled, HasIdentity
  <2> QED
    BY <1>1, <2>1 DEF EnrolInv, StoreOK, OneHumanOneDid, HasIdentity, GroundsMarked, NonceSingleUse
<1>2. attested \subseteq Attestations
  BY DEF EnrolInv, StoreOK
<1>3. ASSUME NEW ik \in IssuerKeys, NEW k \in RegistrantKeys, NEW m \in Markers, NEW n \in Nonces,
             Attest(ik, k, m, n)
      PROVE  EnrolInv'
  <2>1. [by |-> ik, key |-> k, marker |-> m, nonce |-> n] \in Attestations
    BY DEF Attestations
  <2>2. attested' \subseteq Attestations
    BY <1>2, <1>3, <2>1 DEF Attest
  <2> QED
    BY <1>1, <1>3, <2>2 DEF Attest, store
<1>4. ASSUME NEW i \in Issuers, NEW att \in attested, RegisterIdentity(i, att)
      PROVE  EnrolInv'
  BY <1>4, RegisterInv
<1>5. ASSUME NEW d \in RegistrantKeys, RevokeIdentity(d) PROVE EnrolInv'
  <2>1. document[d] # NoDoc /\ document[d] \in Docs
    BY <1>5 DEF RevokeIdentity, HasIdentity, EnrolInv, StoreOK
  <2>2. Revoked(d) \in Docs /\ Revoked(d).marker = document[d].marker
    BY <2>1 DEF Revoked, Docs
  <2> QED
    BY <1>5, <2>1, <2>2, RewriteInv DEF RevokeIdentity
<1>6. ASSUME NEW d \in RegistrantKeys, NEW k \in RegistrantKeys, RotateIdentityKey(d, k) PROVE EnrolInv'
  <2> DEFINE e == [key |-> k, marker |-> document[d].marker, status |-> document[d].status]
  <2>1. document[d] # NoDoc /\ document[d] \in Docs
    BY <1>6 DEF RotateIdentityKey, HasIdentity, EnrolInv, StoreOK
  <2>2. e \in Docs /\ e.marker = document[d].marker
    BY <2>1 DEF Docs
  <2>3. document' = [document EXCEPT ![d] = e] /\ UNCHANGED <<uniq, nonces, count, attested, grounds>>
    BY <1>6 DEF RotateIdentityKey
  <2> HIDE DEF e
  <2> QED
    BY <2>1, <2>2, <2>3, RewriteInv
<1>7. ASSUME ExportImport PROVE EnrolInv'
  BY <1>1, <1>2, <1>7, RebuiltExact DEF ExportImport
<1>8. CASE UNCHANGED enrolVars
  BY <1>1, <1>2, <1>8 DEF enrolVars, store
<1>9. ASSUME NEW i \in Issuers, RevokeTrustedIssuer(i) PROVE EnrolInv'
  BY <1>1, <1>2, <1>9 DEF RevokeTrustedIssuer
<1>10. ASSUME NEW i \in Issuers, NEW ik \in IssuerKeys, NEW active \in BOOLEAN,
              RegisterTrustedIssuer(i, ik, active)
       PROVE  EnrolInv'
  BY <1>1, <1>2, <1>10 DEF RegisterTrustedIssuer
<1>11. ASSUME NEW p, UpdateIdentityParams(p) PROVE EnrolInv'
  BY <1>1, <1>2, <1>11 DEF UpdateIdentityParams
<1> QED
  BY <1>3, <1>4, <1>5, <1>6, <1>7, <1>8, <1>9, <1>10, <1>11 DEF EnrolNext

\* OneHumanOneDid holds in every reachable state: the uniqueness store and
\* the counter agree with the documents through registrations, revocations,
\* key rotations and restarts.
THEOREM OneHumanOneDidHolds == EnrolSpec => []OneHumanOneDid
<1>1. EnrolInv => OneHumanOneDid
  BY DEF EnrolInv
<1> QED
  BY EnrolInitInv, EnrolNextInv, <1>1, PTL DEF EnrolSpec

\* No two registrations rest on one nonce of one issuer.
THEOREM NonceSingleUseHolds == EnrolSpec => []NonceSingleUse
<1>1. EnrolInv => NonceSingleUse
  BY DEF EnrolInv
<1> QED
  BY EnrolInitInv, EnrolNextInv, <1>1, PTL DEF EnrolSpec

=============================================================================
